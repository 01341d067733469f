----------------------------- MODULE PieceMapper -----------------------------
(***************************************************************************)
(* piece_mapper_t::files_for: where the bytes of a piece lie in the files. *)
(* The loop over the files is one step per iteration.                      *)
(***************************************************************************)
EXTENDS Integers, Sequences

CONSTANT SizeWrap      \* 2^64, where std::size_t wraps

ASSUME SizeWrapAssumption == SizeWrap \in Nat \ {0}

VARIABLES
  file_ranges,       \* start_byte and end_byte of each file, in the order of the torrent
  piece_length,
  piece_index,       \* files_for: its argument, None before the first call
  file_idx,          \* files_for: the next file to look at, from 0
  piece_remaining,   \* files_for: bytes of the piece not yet placed
  files              \* files_for: its result so far

call  == <<piece_index, file_idx, piece_remaining, files>>
mapperVars == <<file_ranges, piece_length, call>>

None == -1

File(i) == file_ranges[i + 1]
Files   == 0..(Len(file_ranges) - 1)

\* The sum of the first n sizes; start_byte is this sum, wrapped.
Offset(sizes) ==
  LET sum[n \in 0..Len(sizes)] == IF n = 0 THEN 0 ELSE sum[n - 1] + sizes[n] IN sum

\* The constructor of piece_mapper_t: the ranges of files of these sizes.
Ranges(sizes) ==
  [i \in DOMAIN sizes |->
    [start_byte |-> Offset(sizes)[i - 1] % SizeWrap, end_byte |-> Offset(sizes)[i] % SizeWrap]]

piece_byte_mark == (piece_index * piece_length) % SizeWrap

\* std::lower_bound: the first file that does not end before the mark.  Nothing is known
\* of the result if files that do end before it come after one that does not.
LowerBounds(mark) ==
  LET Before(i) == File(i).end_byte < mark IN
  IF \E i, j \in Files : i < j /\ ~Before(i) /\ Before(j) THEN 0..Len(file_ranges)
  ELSE {k \in 0..Len(file_ranges) : \A i \in Files : Before(i) <=> i < k}

\* files_for is called.
files_for(index) ==
  /\ piece_index' = index
  /\ file_idx' \in LowerBounds((index * piece_length) % SizeWrap)
  /\ piece_remaining' = piece_length
  /\ files' = << >>
  /\ UNCHANGED <<file_ranges, piece_length>>

\* The loop goes on.
Looking == piece_index # None /\ file_idx < Len(file_ranges) /\ piece_remaining # 0

Available(f) == (f.end_byte - f.start_byte) % SizeWrap

\* Slip: a file that ends at the mark is not skipped.
SlipSkipped(f) == Available(f) = 0

\* Nothing of the piece is in an empty file, or in one that ends where it begins.
Skipped(f) == Available(f) = 0 \/ piece_byte_mark = f.end_byte

\* Where the piece begins in the file, and how much of the file is left from there.
Placed(f) ==
  IF piece_byte_mark > f.start_byte
  THEN [offset |-> piece_byte_mark - f.start_byte,
        available |-> (f.end_byte - piece_byte_mark) % SizeWrap]
  ELSE [offset |-> 0, available |-> Available(f)]

\* One iteration.
LookAtFile ==
  /\ Looking
  /\ LET f == File(file_idx)
         writable == IF Placed(f).available < piece_remaining
                     THEN Placed(f).available ELSE piece_remaining
     IN
     \/ Skipped(f) /\ UNCHANGED <<files, piece_remaining>>
     \/ /\ ~Skipped(f)
        /\ files' = Append(files, [file |-> file_idx, offset |-> Placed(f).offset, size |-> writable])
        /\ piece_remaining' = piece_remaining - writable
  /\ file_idx' = file_idx + 1
  /\ UNCHANGED <<file_ranges, piece_length, piece_index>>

\* Calls of files_for, one after the other, for pieces that begin within the download.
MapperNext ==
  \/ ~Looking /\ \E index \in Nat : index * piece_length < SizeWrap /\ files_for(index)
  \/ LookAtFile
------------------------------------------------------------------------------
(* Properties.                                                             *)

\* The files follow each other from byte 0 on, and no number wraps.
Contiguous ==
  /\ piece_length \in 1..(SizeWrap - 1)
  /\ \A i \in Files :
       /\ 0 <= File(i).start_byte /\ File(i).start_byte <= File(i).end_byte
       /\ File(i).end_byte < SizeWrap
       /\ File(i).start_byte = IF i = 0 THEN 0 ELSE File(i - 1).end_byte

\* Any number of files of any sizes, as long as std::size_t holds the sum: TorrentFile (80)
\* has added them up in a signed number before.
MapperInit ==
  /\ \E sizes \in Seq(Nat) : Offset(sizes)[Len(sizes)] < SizeWrap /\ file_ranges = Ranges(sizes)
  /\ piece_length \in 1..(SizeWrap - 1)
  /\ piece_index = None /\ file_idx = 0 /\ piece_remaining = 0 /\ files = << >>

MapperSpec == MapperInit /\ [][MapperNext]_mapperVars

\* The piece without regard to wrapping.
First == piece_index * piece_length
Past  == First + piece_length

\* Bytes Lo..Hi-1 of the download are both in file i and in the piece.
Lo(i) == IF File(i).start_byte > First THEN File(i).start_byte ELSE First
Hi(i) == IF File(i).end_byte < Past THEN File(i).end_byte ELSE Past

Share(i) == [file |-> i, offset |-> Lo(i) - File(i).start_byte, size |-> Hi(i) - Lo(i)]

Overlap == {Share(i) : i \in {j \in Files : Lo(j) < Hi(j)}}

\* files_for (169-210): the files returned are those that hold bytes of the piece, each with
\* the place and the number of the bytes, in the order of the torrent.  Empty files, files
\* that end or begin where the piece does, and the short last piece included.
FilesForExact ==
  piece_index # None /\ ~Looking /\ Contiguous /\ First < SizeWrap =>
    /\ {files[k] : k \in DOMAIN files} = Overlap
    /\ \A j, k \in DOMAIN files : j < k => files[j].file < files[k].file
==============================================================================
