-------------------------- MODULE PieceMapperProofs --------------------------
(***************************************************************************)
(* piece_mapper_t::files_for returns exactly the files of a piece, for any *)
(* number and sizes of files and any piece length.                         *)
(***************************************************************************)
EXTENDS PieceMapper, SequenceLemmas

RangeLists == Seq([start_byte : Int, end_byte : Int])

\* The number of bytes of the piece before the file that is looked at next.
Before(n) ==
  IF n = 0 THEN First
  ELSE IF File(n - 1).end_byte <= First THEN First
  ELSE IF File(n - 1).end_byte < Past THEN File(n - 1).end_byte ELSE Past

\* What holds at every iteration: the files already looked at have their shares in the
\* result, the bytes that remain are those from there on, and no file from there on ends
\* before the piece begins.
Looked ==
  /\ piece_index \in Nat /\ First \in 0..(SizeWrap - 1)
  /\ file_idx \in 0..Len(file_ranges)
  /\ files \in Seq([file : Int, offset : Int, size : Int])
  /\ {files[k] : k \in DOMAIN files} = {Share(i) : i \in {j \in Files : j < file_idx /\ Lo(j) < Hi(j)}}
  /\ \A k \in DOMAIN files : files[k].file < file_idx
  /\ \A j, k \in DOMAIN files : j < k => files[j].file < files[k].file
  /\ piece_remaining = Past - Before(file_idx)
  /\ \A i \in Files : i >= file_idx => File(i).end_byte >= First

MapperInv ==
  /\ file_ranges \in RangeLists /\ Contiguous
  /\ \/ piece_index = None /\ files = << >>
     \/ Looked

\* A number below the modulus is its own remainder.
LEMMA SmallMod ==
  ASSUME NEW n \in Int, 0 <= n, n < SizeWrap
  PROVE  n % SizeWrap = n
BY SizeWrapAssumption, SMT

\* The ranges of the files are integers.
LEMMA RangeTyped ==
  ASSUME file_ranges \in RangeLists, NEW i \in Files
  PROVE  File(i).start_byte \in Int /\ File(i).end_byte \in Int
PROOF
<1>1. i + 1 \in 1..Len(file_ranges)
  BY DEF RangeLists, Files
<1>2. file_ranges[i + 1] \in [start_byte : Int, end_byte : Int]
  BY <1>1, ElementOfSeq DEF RangeLists
<1>3. QED
  BY <1>2 DEF File

\* Sums of sizes obey the equations they are defined by.
LEMMA OffsetIs ==
  ASSUME NEW sizes \in Seq(Nat)
  PROVE  /\ Offset(sizes) \in [0..Len(sizes) -> Nat]
         /\ Offset(sizes)[0] = 0
         /\ \A n \in 1..Len(sizes) : Offset(sizes)[n] = Offset(sizes)[n - 1] + sizes[n]
PROOF
<1> DEFINE m == Len(sizes)
           Fixed(f) == f = [n \in 0..m |-> IF n = 0 THEN 0 ELSE f[n - 1] + sizes[n]]
           Sums(n, f) == f[0] = 0 /\ \A k \in 1..n : f[k] = f[k - 1] + sizes[k]
           P == {n \in 0..m : \E f \in [0..n -> Nat] : Sums(n, f)}
<1>1. m \in Nat /\ \A n \in 1..m : sizes[n] \in Nat
  BY ElementOfSeq
<1>2. 0 \in P
  <2> DEFINE f == [n \in 0..0 |-> 0]
  <2>1. f \in [0..0 -> Nat] /\ Sums(0, f)
    OBVIOUS
  <2>2. 0 \in 0..m
    BY <1>1
  <2> HIDE DEF f, Sums, m
  <2>3. QED
    BY <2>1, <2>2
<1> HIDE DEF m
<1>3. ASSUME NEW n \in 1..m, n - 1 \in P PROVE n \in P
  <2>1. PICK f \in [0..(n - 1) -> Nat] : Sums(n - 1, f)
    BY <1>3
  <2> DEFINE g == [k \in 0..n |-> IF k = n THEN f[n - 1] + sizes[n] ELSE f[k]]
  <2>2. n \in Nat /\ n > 0 /\ n - 1 \in 0..(n - 1) /\ sizes[n] \in Nat
    BY <1>1
  <2>3. g \in [0..n -> Nat]
    BY <2>2
  <2>4. g[0] = 0 /\ \A k \in 1..n : g[k] = g[k - 1] + sizes[k]
    <3>1. g[0] = 0 /\ g[n] = f[n - 1] + sizes[n] /\ g[n - 1] = f[n - 1]
      BY <2>1, <2>2
    <3>2. ASSUME NEW k \in 1..n, k # n PROVE g[k] = g[k - 1] + sizes[k]
      <4>1. k \in 1..(n - 1) /\ k \in 0..n /\ k - 1 \in 0..n /\ k - 1 # n
        BY <2>2, <3>2
      <4>2. g[k] = f[k] /\ g[k - 1] = f[k - 1]
        BY <3>2, <4>1
      <4>3. f[k] = f[k - 1] + sizes[k]
        BY <2>1, <4>1
      <4>4. QED
        BY <4>2, <4>3
    <3> HIDE DEF g
    <3>3. QED
      BY <3>1, <3>2
  <2> HIDE DEF g
  <2>5. Sums(n, g)
    BY <2>4
  <2> HIDE DEF Sums
  <2>6. n \in 0..m
    BY <2>2
  <2>7. QED
    BY <2>3, <2>5, <2>6
<1>4. m \in P
  <2>1. P \subseteq 0..m
    OBVIOUS
  <2> HIDE DEF P
  <2>2. P = 0..m
    BY <1>1, <1>2, <1>3, <2>1, UpTo
  <2>3. QED
    BY <1>1, <2>2
<1>5. PICK f \in [0..m -> Nat] : Sums(m, f)
  <2> HIDE DEF Sums
  <2>1. QED
    BY <1>4
<1>6. Fixed(f)
  BY <1>1, <1>5
<1>7. Fixed(Offset(sizes))
  <2>1. Offset(sizes) = CHOOSE h : Fixed(h)
    BY DEF Offset, m
  <2> HIDE DEF Fixed
  <2>2. QED
    BY <1>6, <2>1, Zenon
<1> DEFINE h == Offset(sizes)
           Q == {n \in 0..m : h[n] \in Nat}
<1> HIDE DEF h
<1>8. h = [n \in 0..m |-> IF n = 0 THEN 0 ELSE h[n - 1] + sizes[n]]
  BY <1>7 DEF h
<1>9. h[0] = 0 /\ \A n \in 1..m : h[n] = h[n - 1] + sizes[n]
  BY <1>1, <1>8
<1>10. 0 \in Q /\ Q \subseteq 0..m
  BY <1>1, <1>9
<1>11. ASSUME NEW n \in 1..m, n - 1 \in Q PROVE n \in Q
  <2>1. n \in 0..m /\ n - 1 \in 0..m /\ sizes[n] \in Nat
    BY <1>1
  <2>2. h[n - 1] \in Nat
    BY <1>11
  <2>3. h[n] = h[n - 1] + sizes[n]
    BY <1>9
  <2>4. QED
    BY <2>1, <2>2, <2>3
<1>12. Q = 0..m
  <2> HIDE DEF Q
  <2>1. QED
    BY <1>1, <1>10, <1>11, UpTo
<1>13. h \in [0..m -> Nat]
  <2>1. \A n \in 0..m : h[n] \in Nat
    BY <1>12
  <2>2. DOMAIN h = 0..m
    BY <1>8
  <2>3. h = [n \in 0..m |-> h[n]]
    BY <1>8, <2>2
  <2>4. QED
    BY <2>1, <2>3
<1>14. QED
  BY <1>9, <1>13 DEF h, m

\* No sum of the first sizes exceeds the sum of all.
LEMMA OffsetBelow ==
  ASSUME NEW sizes \in Seq(Nat), NEW n \in 0..Len(sizes)
  PROVE  Offset(sizes)[n] <= Offset(sizes)[Len(sizes)]
PROOF
<1> DEFINE m == Len(sizes)
           h == Offset(sizes)
           P == {k \in 0..m : h[m - k] <= h[m]}
<1>1. m \in Nat /\ n \in 0..m /\ \A k \in 1..m : sizes[k] \in Nat
  BY ElementOfSeq
<1>2. h \in [0..m -> Nat] /\ \A k \in 1..m : h[k] = h[k - 1] + sizes[k]
  BY OffsetIs
<1> HIDE DEF m, h
<1>3. 0 \in P /\ P \subseteq 0..m
  BY <1>1, <1>2
<1>4. ASSUME NEW k \in 1..m, k - 1 \in P PROVE k \in P
  <2>1. /\ m - k \in 0..m /\ (m - k) + 1 \in 1..m /\ (m - k) + 1 \in 0..m
        /\ ((m - k) + 1) - 1 = m - k /\ m - (k - 1) = (m - k) + 1
    BY <1>1
  <2>2. h[(m - k) + 1] = h[m - k] + sizes[(m - k) + 1]
    BY <1>2, <2>1
  <2>3. h[(m - k) + 1] <= h[m]
    BY <1>4, <2>1
  <2>4. m \in 0..m /\ h[m] \in Nat /\ h[m - k] \in Nat /\ sizes[(m - k) + 1] \in Nat
    BY <1>1, <1>2, <2>1
  <2>5. QED
    BY <2>1, <2>2, <2>3, <2>4
<1>5. P = 0..m
  <2> HIDE DEF P
  <2>1. QED
    BY <1>1, <1>3, <1>4, UpTo
<1>6. m - n \in P /\ m - (m - n) = n
  <2>1. m - n \in 0..m /\ m - (m - n) = n
    BY <1>1
  <2> HIDE DEF P
  <2>2. QED
    BY <1>5, <2>1
<1>7. QED
  BY <1>6 DEF m, h

\* The constructor gives the files ranges that follow each other.
LEMMA RangesFollow ==
  ASSUME MapperInit
  PROVE  file_ranges \in RangeLists /\ Contiguous
PROOF
<1>1. PICK sizes \in Seq(Nat) :
        Offset(sizes)[Len(sizes)] < SizeWrap /\ file_ranges = Ranges(sizes)
  BY DEF MapperInit
<1> DEFINE m == Len(sizes)
           h == Offset(sizes)
<1>2. m \in Nat /\ DOMAIN sizes = 1..m /\ \A k \in 1..m : sizes[k] \in Nat
  BY ElementOfSeq
<1>3. h \in [0..m -> Nat] /\ h[0] = 0 /\ \A k \in 1..m : h[k] = h[k - 1] + sizes[k]
  BY OffsetIs
<1>4. \A n \in 0..m : h[n] < SizeWrap
  <2>1. ASSUME NEW n \in 0..m PROVE h[n] < SizeWrap
    <3>1. h[n] <= h[m]
      BY OffsetBelow
    <3>2. h[m] < SizeWrap /\ m \in 0..m
      BY <1>1, <1>2
    <3> HIDE DEF h, m
    <3>3. h[n] \in Nat /\ h[m] \in Nat
      BY <1>3, <3>2
    <3>4. QED
      BY <3>1, <3>2, <3>3, SizeWrapAssumption
  <2>2. QED
    BY <2>1
<1>5. \A n \in 0..m : h[n] % SizeWrap = h[n]
  <2> HIDE DEF h, m
  <2>1. QED
    BY <1>3, <1>4, SmallMod
<1>6. file_ranges = [i \in 1..m |-> [start_byte |-> h[i - 1] % SizeWrap, end_byte |-> h[i] % SizeWrap]]
  BY <1>1, <1>2 DEF Ranges
<1> HIDE DEF h, m
<1>7. \A i \in 1..m : i \in 0..m /\ i - 1 \in 0..m
  BY <1>2
<1>8. file_ranges = [i \in 1..m |-> [start_byte |-> h[i - 1], end_byte |-> h[i]]]
  BY <1>5, <1>6, <1>7
<1>9. file_ranges \in RangeLists /\ Len(file_ranges) = m
  <2>1. \A i \in 1..m : [start_byte |-> h[i - 1], end_byte |-> h[i]] \in [start_byte : Int, end_byte : Int]
    BY <1>3, <1>7
  <2>2. file_ranges \in [1..m -> [start_byte : Int, end_byte : Int]]
    BY <1>8, <2>1
  <2>3. file_ranges \in RangeLists
    <3> DEFINE R == [start_byte : Int, end_byte : Int]
    <3> HIDE DEF R
    <3>1. file_ranges \in [1..m -> R]
      BY <2>2 DEF R
    <3>2. file_ranges \in Seq(R)
      <4>1. m \in Nat
        BY <1>2
      <4>2. QED
        BY <3>1, <4>1
    <3>3. QED
      BY <3>2 DEF R, RangeLists
  <2>4. QED
    BY <1>2, <2>2, <2>3, LenProperties DEF RangeLists
<1>10. Files = 0..(m - 1)
  BY <1>9 DEF Files
<1>11. \A i \in Files : i + 1 \in 1..m /\ (i + 1) - 1 = i /\ i \in 0..m /\ (i # 0 => i \in 1..m /\ i - 1 \in Files)
  BY <1>2, <1>10
<1>12. \A i \in Files : File(i).start_byte = h[i] /\ File(i).end_byte = h[i + 1]
  BY <1>8, <1>11 DEF File
<1>13. ASSUME NEW i \in Files
       PROVE  /\ 0 <= File(i).start_byte /\ File(i).start_byte <= File(i).end_byte
              /\ File(i).end_byte < SizeWrap
              /\ File(i).start_byte = IF i = 0 THEN 0 ELSE File(i - 1).end_byte
  <2>1. h[i] \in Nat /\ h[i + 1] = h[i] + sizes[i + 1] /\ sizes[i + 1] \in Nat /\ h[i + 1] < SizeWrap
    BY <1>2, <1>3, <1>4, <1>7, <1>11
  <2>2. i # 0 => File(i - 1).end_byte = h[i]
    BY <1>11, <1>12, <1>2, <1>10
  <2>3. QED
    BY <1>3, <1>12, <2>1, <2>2
<1>14. QED
  BY <1>9, <1>13 DEF Contiguous, MapperInit

\* Ranges that follow each other do so over any distance.
LEMMA FarApart ==
  ASSUME file_ranges \in RangeLists, Contiguous, NEW i \in Files, NEW j \in Files, i < j
  PROVE  File(i).end_byte <= File(j).start_byte
PROOF
<1> DEFINE d == (j - i) - 1
           P == {k \in 0..d : File(i).end_byte <= File(i + k + 1).start_byte}
<1>1. /\ i \in Nat /\ j \in Nat /\ d \in Nat /\ i + d + 1 = j
      /\ \A k \in 0..d : i + k \in Files /\ i + k + 1 \in Files /\ (i + k + 1) - 1 = i + k
  <2>1. Len(file_ranges) \in Nat
    BY DEF RangeLists
  <2>2. QED
    BY <2>1 DEF Files
<1> HIDE DEF d
<1>2. \A k \in 0..d : File(i + k + 1).start_byte = File(i + k).end_byte
  <2>1. ASSUME NEW k \in 0..d PROVE File(i + k + 1).start_byte = File(i + k).end_byte
    <3>1. i + k + 1 # 0 /\ i + k + 1 \in Files /\ (i + k + 1) - 1 = i + k
      BY <1>1
    <3>2. File(i + k + 1).start_byte = IF i + k + 1 = 0 THEN 0 ELSE File((i + k + 1) - 1).end_byte
      BY <3>1 DEF Contiguous
    <3>3. QED
      BY <3>1, <3>2
  <2>2. QED
    BY <2>1
<1>3. 0 \in P /\ P \subseteq 0..d
  <2>1. 0 \in 0..d /\ i + 0 = i
    BY <1>1
  <2>2. File(i + 0 + 1).start_byte = File(i).end_byte
    BY <1>2, <2>1
  <2>3. File(i).end_byte \in Int
    BY RangeTyped
  <2>4. QED
    BY <2>1, <2>2, <2>3
<1>4. ASSUME NEW k \in 1..d, k - 1 \in P PROVE k \in P
  <2>1. k \in 0..d /\ k - 1 \in 0..d /\ i + (k - 1) + 1 = i + k /\ i + k \in Files
    BY <1>1
  <2>2. File(i).end_byte <= File(i + k).start_byte
    BY <1>4, <2>1
  <2>3. File(i + k).start_byte <= File(i + k).end_byte
    BY <2>1 DEF Contiguous
  <2>4. File(i + k + 1).start_byte = File(i + k).end_byte
    BY <1>2, <2>1
  <2>5. /\ File(i).end_byte \in Int /\ File(i + k).start_byte \in Int
        /\ File(i + k).end_byte \in Int
    BY <2>1, RangeTyped
  <2>6. QED
    BY <2>1, <2>2, <2>3, <2>4, <2>5
<1>5. P = 0..d
  <2> HIDE DEF P
  <2>1. QED
    BY <1>1, <1>3, <1>4, UpTo
<1>6. d \in P
  BY <1>1, <1>5
<1>7. QED
  BY <1>1, <1>6

\* Every byte below the end of the last file is in one file, and in no other.
Covered ==
  \A b \in Nat : Files # {} /\ b < File(Len(file_ranges) - 1).end_byte =>
    \E i \in Files : \A j \in Files :
      (File(j).start_byte <= b /\ b < File(j).end_byte) <=> j = i

\* Files that follow each other have every byte.
LEMMA FilesCover ==
  ASSUME file_ranges \in RangeLists, Contiguous
  PROVE  Covered
PROOF
<1> SUFFICES ASSUME NEW b \in Nat, Files # {}, b < File(Len(file_ranges) - 1).end_byte
             PROVE  \E i \in Files : \A j \in Files :
                      (File(j).start_byte <= b /\ b < File(j).end_byte) <=> j = i
  BY DEF Covered
<1> DEFINE S == {i \in Files : b < File(i).end_byte}
<1>1. Len(file_ranges) \in Nat /\ Files \subseteq Nat /\ Len(file_ranges) - 1 \in Files
  <2>1. Len(file_ranges) \in Nat
    BY DEF RangeLists
  <2>2. QED
    BY <2>1 DEF Files
<1>2. PICK i \in S : \A j \in S : i <= j
  <2>1. S \subseteq Nat /\ S # {}
    BY <1>1
  <2> HIDE DEF S
  <2>2. QED
    BY <2>1, LeastNat
<1>3. File(i).start_byte <= b
  <2>1. CASE i = 0
    <3>1. File(i).start_byte = 0
      BY <1>2, <2>1 DEF Contiguous
    <3>2. QED
      BY <3>1
  <2>2. CASE i # 0
    <3>1. i - 1 \in Files /\ i - 1 < i /\ i \in Nat
      BY <1>1, <1>2, <2>2 DEF Files
    <3>2. ~(i <= i - 1)
      BY <3>1
    <3>3. ~(b < File(i - 1).end_byte)
      BY <1>2, <3>1, <3>2
    <3>4. File(i).start_byte = File(i - 1).end_byte
      BY <1>2, <2>2 DEF Contiguous
    <3>5. File(i - 1).end_byte \in Int
      BY <3>1, RangeTyped
    <3>6. QED
      BY <3>3, <3>4, <3>5
  <2>3. QED
    BY <2>1, <2>2
<1>4. ASSUME NEW j \in Files, File(j).start_byte <= b, b < File(j).end_byte, j # i
      PROVE  FALSE
  <2>1. i \in Files /\ i \in Nat /\ j \in Nat /\ i < j
    BY <1>1, <1>2, <1>4
  <2>2. File(i).end_byte <= File(j).start_byte
    BY <2>1, FarApart
  <2>3. File(i).end_byte \in Int /\ File(j).start_byte \in Int
    BY <2>1, RangeTyped
  <2>4. QED
    BY <1>2, <1>4, <2>2, <2>3
<1>5. QED
  BY <1>2, <1>3, <1>4

\* There is a file before any place but the first.
LEMMA OneBefore ==
  ASSUME file_ranges \in RangeLists, NEW n \in 0..Len(file_ranges), n # 0
  PROVE  n - 1 \in Files /\ n - 1 < n
PROOF
<1>1. Len(file_ranges) \in Nat
  BY DEF RangeLists
<1>2. QED
  BY <1>1 DEF Files

\* Appending to a sequence adds one element to those it has, at the end.
LEMMA Appended ==
  ASSUME NEW S, NEW s \in Seq(S), NEW e \in S
  PROVE  /\ Append(s, e) \in Seq(S)
         /\ DOMAIN Append(s, e) = DOMAIN s \cup {Len(s) + 1}
         /\ \A k \in DOMAIN s : Append(s, e)[k] = s[k] /\ k < Len(s) + 1
         /\ Append(s, e)[Len(s) + 1] = e
         /\ {Append(s, e)[k] : k \in DOMAIN Append(s, e)} = {s[k] : k \in DOMAIN s} \cup {e}
PROOF
<1>1. /\ Append(s, e) \in Seq(S)
      /\ DOMAIN Append(s, e) = DOMAIN s \cup {Len(s) + 1}
      /\ \A k \in DOMAIN s : Append(s, e)[k] = s[k] /\ k < Len(s) + 1
      /\ Append(s, e)[Len(s) + 1] = e
  OBVIOUS
<1>2. QED
  BY <1>1

\* The first file looked at when files_for is called: those before it end before the piece
\* begins, and the others do not.
LEMMA Bounded ==
  ASSUME file_ranges \in RangeLists, Contiguous, NEW mark \in Int,
         NEW k \in LowerBounds(mark)
  PROVE  /\ k \in 0..Len(file_ranges)
         /\ \A i \in Files : File(i).end_byte < mark <=> i < k
PROOF
<1>1. ASSUME NEW i \in Files, NEW j \in Files, i < j, File(j).end_byte < mark
      PROVE  File(i).end_byte < mark
  <2>1. File(i).end_byte <= File(j).start_byte /\ File(j).start_byte <= File(j).end_byte
    BY <1>1, FarApart DEF Contiguous
  <2>2. QED
    BY <1>1, <2>1, RangeTyped
<1>2. QED
  BY <1>1 DEF LowerBounds

\* files_for establishes what holds at every iteration.
LEMMA CallLooks ==
  ASSUME file_ranges \in RangeLists, Contiguous, NEW index \in Nat,
         index * piece_length < SizeWrap, files_for(index)
  PROVE  MapperInv'
PROOF
<1> DEFINE mark == index * piece_length
<1>1. piece_length \in Nat /\ piece_length > 0 /\ SizeWrap \in Nat
  BY SizeWrapAssumption DEF Contiguous
<1>2. mark \in Nat /\ mark < SizeWrap
  BY <1>1
<1>3. mark % SizeWrap = mark
  BY <1>2, SmallMod
<1>4. UNCHANGED <<file_ranges, piece_length>> /\ piece_index' = index /\ files' = << >>
      /\ piece_remaining' = piece_length /\ file_idx' \in LowerBounds(mark)
  BY <1>3 DEF files_for
<1>5. /\ file_idx' \in 0..Len(file_ranges)
      /\ \A i \in Files : File(i).end_byte < mark <=> i < file_idx'
  BY <1>2, <1>4, Bounded
<1>6. file_ranges' \in RangeLists /\ Contiguous' /\ First' = mark /\ Past' = mark + piece_length
      /\ Files' = Files /\ \A i : File(i)' = File(i)
  BY <1>4 DEF Contiguous, First, Past, Files, File
<1>7. \A i \in Files : i >= file_idx' => File(i).end_byte >= mark
  BY <1>2, <1>5, RangeTyped DEF Files
<1>8. \A i \in Files : i < file_idx' => ~(Lo(i)' < Hi(i)')
  BY <1>1, <1>2, <1>5, <1>6, RangeTyped DEF Lo, Hi
<1>9. Before(file_idx)' = mark
  <2>1. CASE file_idx' = 0
    BY <2>1, <1>6 DEF Before
  <2>2. CASE file_idx' # 0
    <3>1. file_idx' - 1 \in Files /\ file_idx' - 1 < file_idx'
      BY <2>2, <1>5, OneBefore
    <3>2. File(file_idx' - 1).end_byte < mark
      BY <3>1, <1>5
    <3>3. File(file_idx' - 1).end_byte <= mark
      BY <3>1, <3>2, <1>2, RangeTyped
    <3>4. QED
      BY <2>2, <3>3, <1>6 DEF Before
  <2>3. QED
    BY <2>1, <2>2
<1>10. Looked'
  <2>1. {files[k] : k \in DOMAIN files}'
          = {Share(i) : i \in {j \in Files : j < file_idx /\ Lo(j) < Hi(j)}}'
    BY <1>4, <1>6, <1>8
  <2>2. files' \in Seq([file : Int, offset : Int, size : Int]) /\ DOMAIN files' = {}
    BY <1>4
  <2>3. piece_remaining' = Past' - Before(file_idx)'
    BY <1>1, <1>2, <1>4, <1>6, <1>9
  <2>4. First' \in 0..(SizeWrap - 1)
    BY <1>1, <1>2, <1>6
  <2>5. \A i \in Files' : i >= file_idx' => File(i)'.end_byte >= First'
    BY <1>6, <1>7
  <2>6. QED
    BY <2>1, <2>2, <2>3, <2>4, <2>5, <1>4, <1>5, <1>6 DEF Looked
<1>11. QED
  BY <1>6, <1>10 DEF MapperInv

\* The files of the result are integers.
LEMMA ShareTyped ==
  ASSUME Looked, NEW k \in DOMAIN files
  PROVE  files[k].file \in Int
PROOF
<1>1. files \in Seq([file : Int, offset : Int, size : Int]) /\ k \in 1..Len(files)
  BY DEF Looked
<1>2. files[k] \in [file : Int, offset : Int, size : Int]
  BY <1>1, ElementOfSeq
<1>3. QED
  BY <1>2

\* The numbers of a piece and of a file in reach of it.
LEMMA Numbers ==
  ASSUME MapperInv, Looked, NEW i \in Files
  PROVE  /\ piece_length \in Nat /\ piece_length > 0 /\ SizeWrap \in Nat
         /\ First \in Nat /\ First < SizeWrap /\ Past = First + piece_length
         /\ piece_byte_mark = First
         /\ File(i).start_byte \in Nat /\ File(i).end_byte \in Nat
         /\ File(i).start_byte <= File(i).end_byte /\ File(i).end_byte < SizeWrap
         /\ Available(File(i)) = File(i).end_byte - File(i).start_byte
PROOF
<1>1. piece_length \in Nat /\ piece_length > 0 /\ SizeWrap \in Nat
  BY SizeWrapAssumption DEF MapperInv, Contiguous
<1>2. First \in Nat /\ First < SizeWrap /\ Past = First + piece_length
  BY <1>1 DEF Looked, Past
<1>3. piece_byte_mark = First
  BY <1>2, SmallMod DEF piece_byte_mark, First
<1>4. File(i).start_byte \in Int /\ File(i).end_byte \in Int
  BY RangeTyped DEF MapperInv
<1>5. /\ File(i).start_byte \in Nat /\ File(i).end_byte \in Nat
      /\ File(i).start_byte <= File(i).end_byte /\ File(i).end_byte < SizeWrap
  BY <1>4, <1>1 DEF MapperInv, Contiguous
<1>6. Available(File(i)) = File(i).end_byte - File(i).start_byte
  BY <1>1, <1>5, SmallMod DEF Available
<1>7. QED
  BY <1>1, <1>2, <1>3, <1>5, <1>6

\* The bytes before a file are those of the files before it.
LEMMA BeforeFile ==
  ASSUME MapperInv, Looked, file_idx \in Files
  PROVE  /\ Before(file_idx) = IF File(file_idx).start_byte <= First THEN First
                               ELSE IF File(file_idx).start_byte < Past
                               THEN File(file_idx).start_byte ELSE Past
         /\ Before(file_idx + 1) = IF File(file_idx).end_byte <= First THEN First
                                   ELSE IF File(file_idx).end_byte < Past
                                   THEN File(file_idx).end_byte ELSE Past
PROOF
<1>1. file_idx \in Nat /\ file_idx + 1 # 0 /\ (file_idx + 1) - 1 = file_idx
  BY DEF Files
<1>2. File(file_idx).start_byte = IF file_idx = 0 THEN 0 ELSE File(file_idx - 1).end_byte
  BY DEF MapperInv, Contiguous
<1>3. First \in Nat
  BY Numbers
<1>4. CASE file_idx = 0
  BY <1>1, <1>2, <1>3, <1>4 DEF Before
<1>5. CASE file_idx # 0
  BY <1>1, <1>2, <1>5 DEF Before
<1>6. QED
  BY <1>4, <1>5

\* An iteration keeps what holds at every iteration.
LEMMA LookKeeps ==
  ASSUME MapperInv, LookAtFile
  PROVE  MapperInv'
PROOF
<1> DEFINE f == File(file_idx)
           writable == IF Placed(f).available < piece_remaining
                       THEN Placed(f).available ELSE piece_remaining
           share == [file |-> file_idx, offset |-> Placed(f).offset, size |-> writable]
           start == f.start_byte
           finish == f.end_byte
<1>1. Looked /\ Looking
  BY DEF MapperInv, LookAtFile, Looking
<1>2. /\ file_idx' = file_idx + 1
      /\ UNCHANGED <<file_ranges, piece_length, piece_index>>
      /\ \/ Skipped(f) /\ UNCHANGED <<files, piece_remaining>>
         \/ ~Skipped(f) /\ files' = Append(files, share) /\ piece_remaining' = piece_remaining - writable
  BY DEF LookAtFile
<1>3. file_idx \in Files /\ file_idx' \in 0..Len(file_ranges) /\ file_idx \in Int
  <2>1. Len(file_ranges) \in Nat
    BY DEF MapperInv, RangeLists
  <2>2. QED
    BY <2>1, <1>1, <1>2 DEF Looked, Looking, Files
<1>4. /\ file_ranges' \in RangeLists /\ Contiguous' /\ First' = First /\ Past' = Past
      /\ Files' = Files /\ (\A i : File(i)' = File(i))
      /\ (\A i : Lo(i)' = Lo(i) /\ Hi(i)' = Hi(i) /\ Share(i)' = Share(i))
      /\ Before(file_idx)' = Before(file_idx')
  BY <1>2 DEF MapperInv, Contiguous, First, Past, Files, File, Lo, Hi, Share, Before
<1>5. /\ piece_length \in Nat /\ piece_length > 0 /\ SizeWrap \in Nat
      /\ First \in Nat /\ First < SizeWrap /\ Past = First + piece_length
      /\ piece_byte_mark = First
      /\ start \in Nat /\ finish \in Nat /\ start <= finish /\ finish < SizeWrap
      /\ Available(f) = finish - start
  BY <1>1, <1>3, Numbers
<1>6. finish >= First
  BY <1>1, <1>3 DEF Looked
<1>7. /\ piece_remaining \in Int
      /\ Past - piece_remaining = IF start <= First THEN First ELSE IF start < Past THEN start ELSE Past
  <2>1. piece_remaining = Past - Before(file_idx)
    BY <1>1 DEF Looked
  <2>2. Before(file_idx) = IF start <= First THEN First ELSE IF start < Past THEN start ELSE Past
    BY <1>1, <1>3, BeforeFile
  <2>3. QED
    BY <2>1, <2>2, <1>5
<1>8. Before(file_idx') = IF finish <= First THEN First ELSE IF finish < Past THEN finish ELSE Past
  BY <1>1, <1>2, <1>3, BeforeFile
<1>9. \A i \in Files' : i >= file_idx' => File(i)'.end_byte >= First'
  BY <1>1, <1>2, <1>3, <1>4 DEF Looked, Files
<1>10. /\ piece_index' \in Nat /\ First' \in 0..(SizeWrap - 1)
       /\ file_idx' \in 0..Len(file_ranges')
  BY <1>1, <1>2, <1>3, <1>4 DEF Looked
<1>11. {j \in Files : j < file_idx'} = {j \in Files : j < file_idx} \cup {file_idx}
  BY <1>2, <1>3 DEF Files
<1>12. CASE Skipped(f)
  <2>1. finish = start \/ finish = First
    BY <1>12, <1>5 DEF Skipped
  <2>2. ~(Lo(file_idx) < Hi(file_idx))
    BY <2>1, <1>5 DEF Lo, Hi
  <2>3. files' = files /\ piece_remaining' = piece_remaining
    BY <1>2, <1>12
  <2>4. piece_remaining' = Past' - Before(file_idx)'
    <3>1. Before(file_idx') = Past - piece_remaining
      BY <2>1, <1>5, <1>6, <1>7, <1>8
    <3>2. QED
      BY <3>1, <2>3, <1>4, <1>5, <1>7
  <2>5. {files[k] : k \in DOMAIN files}'
          = {Share(i) : i \in {j \in Files : j < file_idx /\ Lo(j) < Hi(j)}}'
    BY <2>2, <2>3, <1>1, <1>4, <1>11 DEF Looked
  <2>6. \A k \in DOMAIN files' : files'[k].file < file_idx'
    <3>1. \A k \in DOMAIN files : files[k].file \in Int /\ files[k].file < file_idx
      BY <1>1, ShareTyped DEF Looked
    <3>2. QED
      BY <3>1, <2>3, <1>2, <1>3
  <2>7. Looked'
    BY <2>3, <2>4, <2>5, <2>6, <1>1, <1>9, <1>10 DEF Looked
  <2>8. QED
    BY <2>7, <1>4 DEF MapperInv
<1>13. CASE ~Skipped(f)
  <2>1. finish > start /\ finish > First
    BY <1>13, <1>5, <1>6 DEF Skipped
  <2>2. start < Past /\ piece_remaining \in Nat
    <3>1. piece_remaining # 0
      BY <1>1 DEF Looking
    <3>2. QED
      BY <3>1, <1>5, <1>7
  <2>3. /\ Placed(f).offset = Lo(file_idx) - start
        /\ Placed(f).available = finish - Lo(file_idx)
        /\ piece_remaining = Past - Lo(file_idx)
    <3>1. CASE First > start
      <4>1. (finish - First) % SizeWrap = finish - First
        BY <1>5, <2>1, SmallMod
      <4>2. QED
        BY <3>1, <4>1, <1>5, <1>7, <2>2 DEF Placed, Lo
    <3>2. CASE ~(First > start)
      BY <3>2, <1>5, <1>7, <2>2 DEF Placed, Lo
    <3>3. QED
      BY <3>1, <3>2
  <2>4. /\ Lo(file_idx) \in Nat /\ Hi(file_idx) \in Nat /\ Lo(file_idx) < Hi(file_idx)
        /\ writable = Hi(file_idx) - Lo(file_idx)
    BY <2>1, <2>2, <2>3, <1>5 DEF Lo, Hi
  <2>5. share = Share(file_idx) /\ share \in [file : Int, offset : Int, size : Int]
    <3>1. share = Share(file_idx)
      BY <2>3, <2>4 DEF Share
    <3>2. Share(file_idx) \in [file : Int, offset : Int, size : Int]
      BY <2>4, <1>3, <1>5 DEF Share
    <3>3. QED
      BY <3>1, <3>2
  <2>6. files' = Append(files, share) /\ piece_remaining' = piece_remaining - writable
    BY <1>2, <1>13
  <2>7. piece_remaining' = Past' - Before(file_idx)'
    BY <2>1, <2>2, <2>3, <2>4, <2>6, <1>4, <1>5, <1>8 DEF Hi
  <2>8. /\ files' \in Seq([file : Int, offset : Int, size : Int])
        /\ DOMAIN files' = DOMAIN files \cup {Len(files) + 1}
        /\ \A k \in DOMAIN files : files'[k] = files[k] /\ k < Len(files) + 1
        /\ files'[Len(files) + 1] = share
        /\ {files'[k] : k \in DOMAIN files'} = {files[k] : k \in DOMAIN files} \cup {share}
    <3> DEFINE S == [file : Int, offset : Int, size : Int]
               longer == Append(files, share)
    <3>1. files \in Seq(S) /\ share \in S
      BY <1>1, <2>5 DEF Looked
    <3> HIDE DEF share, S
    <3>2. /\ longer \in Seq(S)
          /\ DOMAIN longer = DOMAIN files \cup {Len(files) + 1}
          /\ \A k \in DOMAIN files : longer[k] = files[k] /\ k < Len(files) + 1
          /\ longer[Len(files) + 1] = share
          /\ {longer[k] : k \in DOMAIN longer} = {files[k] : k \in DOMAIN files} \cup {share}
      BY <3>1, Appended
    <3>3. files' = longer
      BY <2>6
    <3> HIDE DEF longer
    <3>4. /\ files' \in Seq(S)
          /\ DOMAIN files' = DOMAIN files \cup {Len(files) + 1}
          /\ \A k \in DOMAIN files : files'[k] = files[k] /\ k < Len(files) + 1
          /\ files'[Len(files) + 1] = share
          /\ {files'[k] : k \in DOMAIN files'} = {files[k] : k \in DOMAIN files} \cup {share}
      BY <3>2, <3>3, Zenon
    <3> USE DEF S
    <3>5. QED
      BY <3>4, Zenon
  <2>9. {files[k] : k \in DOMAIN files}'
          = {Share(i) : i \in {j \in Files : j < file_idx /\ Lo(j) < Hi(j)}}'
    <3>1. {j \in Files : j < file_idx' /\ Lo(j) < Hi(j)}
            = {j \in Files : j < file_idx /\ Lo(j) < Hi(j)} \cup {file_idx}
      BY <2>4, <1>3, <1>11
    <3>2. {files[k] : k \in DOMAIN files}
            = {Share(i) : i \in {j \in Files : j < file_idx /\ Lo(j) < Hi(j)}}
      BY <1>1 DEF Looked
    <3>3. {Share(i) : i \in {j \in Files : j < file_idx' /\ Lo(j) < Hi(j)}}
            = {Share(i) : i \in {j \in Files : j < file_idx /\ Lo(j) < Hi(j)}} \cup {Share(file_idx)}
      BY <3>1
    <3>4. {Share(i) : i \in {j \in Files : j < file_idx /\ Lo(j) < Hi(j)}}'
            = {Share(i) : i \in {j \in Files : j < file_idx' /\ Lo(j) < Hi(j)}}
      BY <1>4
    <3> HIDE DEF share
    <3>5. QED
      BY <3>2, <3>3, <3>4, <2>5, <2>8
  <2>10. \A k \in DOMAIN files : files[k].file \in Int /\ files[k].file < file_idx
    BY <1>1, ShareTyped DEF Looked
  <2>11. \A k \in DOMAIN files' : files'[k].file < file_idx'
    <3>1. share.file = file_idx
      OBVIOUS
    <3> HIDE DEF share
    <3>2. SUFFICES ASSUME NEW k \in DOMAIN files'
                   PROVE  files'[k].file < file_idx + 1
      BY <1>2
    <3>3. CASE k \in DOMAIN files
      BY <3>3, <2>8, <2>10, <1>3
    <3>4. CASE k = Len(files) + 1
      BY <3>1, <3>4, <2>8, <1>3
    <3>5. QED
      BY <3>3, <3>4, <2>8
  <2>12. \A j, k \in DOMAIN files' : j < k => files'[j].file < files'[k].file
    <3>1. SUFFICES ASSUME NEW j \in DOMAIN files', NEW k \in DOMAIN files', j < k
                   PROVE  files'[j].file < files'[k].file
      OBVIOUS
    <3>2. j \in DOMAIN files
      <4>1. j \in Int /\ k \in Int /\ k <= Len(files) + 1 /\ j # Len(files) + 1
        <5>1. Len(files) \in Nat /\ DOMAIN files = 1..Len(files)
          BY <1>1 DEF Looked
        <5>2. QED
          BY <3>1, <2>8, <5>1
      <4>2. QED
        BY <4>1, <2>8
    <3>3. CASE k \in DOMAIN files
      BY <3>1, <3>2, <3>3, <2>8, <1>1 DEF Looked
    <3>4. CASE k = Len(files) + 1
      BY <3>2, <3>4, <2>8, <2>10
    <3>5. QED
      BY <3>3, <3>4, <2>8
  <2>13. Looked'
    BY <2>7, <2>8, <2>9, <2>11, <2>12, <1>9, <1>10 DEF Looked
  <2>14. QED
    BY <2>13, <1>4 DEF MapperInv
<1>14. QED
  BY <1>12, <1>13

\* When the loop has ended, no file from there on holds a byte of the piece.
LEMMA Ended ==
  ASSUME MapperInv
  PROVE  FilesForExact
PROOF
<1>1. SUFFICES ASSUME Looked, ~Looking
               PROVE  /\ {files[k] : k \in DOMAIN files} = Overlap
                      /\ \A j, k \in DOMAIN files : j < k => files[j].file < files[k].file
  BY DEF MapperInv, FilesForExact
<1>2. ASSUME NEW i \in Files, i >= file_idx
      PROVE  ~(Lo(i) < Hi(i))
  <2>1. /\ piece_length \in Nat /\ First \in Nat /\ Past = First + piece_length
        /\ File(i).start_byte \in Nat /\ File(i).end_byte \in Nat
    BY <1>1, Numbers
  <2>2. file_idx \in 0..Len(file_ranges) /\ Len(file_ranges) \in Nat
    BY <1>1 DEF Looked, MapperInv, RangeLists
  <2>3. piece_index # None
    BY <1>1 DEF Looked, None
  <2>4. piece_remaining = 0
    BY <1>1, <1>2, <2>2, <2>3 DEF Looking, Files
  <2>5. Past = Before(file_idx) /\ Past > First
    <3>1. Before(file_idx) \in Int
      <4>1. CASE file_idx = 0
        BY <4>1, <2>1 DEF Before
      <4>2. CASE file_idx # 0
        BY <4>2, <2>1, <2>2, OneBefore, RangeTyped DEF Before, MapperInv
      <4>3. QED
        BY <4>1, <4>2
    <3>2. QED
      <4>1. piece_remaining = Past - Before(file_idx)
        BY <1>1 DEF Looked
      <4>2. piece_length > 0
        BY <1>1, Numbers
      <4>3. QED
        BY <3>1, <4>1, <4>2, <2>1, <2>4
  <2>6. file_idx # 0 /\ File(file_idx - 1).end_byte >= Past
    <3>1. file_idx # 0
      BY <2>1, <2>5 DEF Before
    <3>2. File(file_idx - 1).end_byte \in Int
      BY <3>1, <2>2, OneBefore, RangeTyped DEF MapperInv
    <3>3. QED
      BY <3>1, <3>2, <2>1, <2>5 DEF Before
  <2>7. file_idx - 1 \in Files /\ file_idx - 1 < i
    BY <2>2, <2>6, <1>2 DEF Files
  <2>8. File(file_idx - 1).end_byte <= File(i).start_byte
    BY <2>7, FarApart DEF MapperInv
  <2>9. File(file_idx - 1).end_byte \in Int
    BY <2>7, RangeTyped DEF MapperInv
  <2>10. QED
    BY <2>1, <2>6, <2>8, <2>9 DEF Lo, Hi
<1>3. {j \in Files : j < file_idx /\ Lo(j) < Hi(j)} = {j \in Files : Lo(j) < Hi(j)}
  <2>1. file_idx \in Int /\ \A j \in Files : j \in Int
    BY <1>1 DEF Looked, Files
  <2>2. \A j \in Files : Lo(j) < Hi(j) => j < file_idx
    BY <2>1, <1>2
  <2>3. QED
    BY <2>2
<1>4. QED
  BY <1>1, <1>3 DEF Looked, Overlap

\* The invariant of the iterations is inductive.
LEMMA MapperNextInv == MapperInv /\ [MapperNext]_mapperVars => MapperInv'
PROOF
<1>1. SUFFICES ASSUME MapperInv, [MapperNext]_mapperVars
               PROVE  MapperInv'
  OBVIOUS
<1>2. CASE LookAtFile
  BY <1>1, <1>2, LookKeeps
<1>3. ASSUME NEW index \in Nat, index * piece_length < SizeWrap, files_for(index)
      PROVE  MapperInv'
  BY <1>1, <1>3, CallLooks DEF MapperInv
<1>4. CASE UNCHANGED mapperVars
  <2>1. UNCHANGED <<file_ranges, piece_length, piece_index, file_idx, piece_remaining, files>>
    BY <1>4 DEF mapperVars, call
  <2>2. First' = First /\ Past' = Past /\ Files' = Files /\ \A i : File(i)' = File(i)
    BY <2>1 DEF First, Past, Files, File
  <2>3. /\ \A i : Lo(i)' = Lo(i) /\ Hi(i)' = Hi(i) /\ Share(i)' = Share(i)
        /\ Before(file_idx)' = Before(file_idx)
    BY <2>1, <2>2 DEF Lo, Hi, Share, Before
  <2>4. Contiguous'
    BY <1>1, <2>1, <2>2 DEF MapperInv, Contiguous
  <2>5. Looked => Looked'
    BY <2>1, <2>2, <2>3 DEF Looked
  <2>6. QED
    BY <1>1, <2>1, <2>4, <2>5 DEF MapperInv
<1>5. QED
  BY <1>1, <1>2, <1>3, <1>4 DEF MapperNext

\* MapperInv holds from the constructor on.
LEMMA MapperInitInv == MapperInit => MapperInv
BY RangesFollow DEF MapperInit, MapperInv

\* piece_mapper_t (112-167): for every list of files the ranges the constructor computes
\* follow each other from byte 0 on without wrapping, and each byte of the download is in
\* one file and no other.
THEOREM RangesCover == MapperSpec => [](Contiguous /\ Covered)
PROOF
<1>1. MapperInv => Contiguous /\ Covered
  BY FilesCover DEF MapperInv
<1>2. QED
  BY <1>1, MapperInitInv, MapperNextInv, PTL DEF MapperSpec

\* files_for (169-210) is exact for every list of files and every piece length: at the end
\* of every call the result is the files that hold bytes of the piece, with the place and
\* the number of these bytes.
THEOREM FilesForIsExact == MapperSpec => []FilesForExact
BY MapperInitInv, MapperNextInv, Ended, PTL DEF MapperSpec
==============================================================================
