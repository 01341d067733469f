----------------------------- MODULE FileManager -----------------------------
(***************************************************************************)
(* From the bytes of a torrent to the files of its pieces: TorrentFile,    *)
(* then FileManager with its file_mapper_t and piece_mapper_t.  A text may *)
(* also be no torrent at all, as a tracker's answer, which is decoded      *)
(* while no more than a part of it has arrived.                            *)
(*                                                                         *)
(* Outcomes of the constructor of FileManager: "mapped"; "refused", a      *)
(* std::runtime_error or an error of the file system is thrown; "mistyped" *)
(* and "undefined" as in TorrentFile.                                      *)
(***************************************************************************)
EXTENDS TorrentFile, PieceMapper

CONSTANTS
  Texts,      \* answers: a beginning, the characters that may follow, and a length
  Torrents,   \* contents of torrent files: values, encoded with the encoders
  NameMax,    \* NAME_MAX
  Links       \* paths that symbolic links take out of the download directory

ASSUME FileManagerAssumption == SizeWrap = Wide /\ NameMax \in Nat

VARIABLES
  stage,        \* what the text is for: "answer", "torrent", and how far it got
  source,       \* the bytes
  torrent,      \* the TorrentFile
  file_table    \* file_mapper_t: path and size of each file

vars == <<mapperVars, stage, source, torrent, file_table>>

Init ==
  /\ \/ stage = "answer" /\ source \in {t.begin : t \in Texts}
     \/ stage = "torrent" /\ source \in {Encoding(t) : t \in Torrents}
  /\ torrent = [outcome |-> "none"]
  /\ file_table = << >> /\ file_ranges = << >> /\ piece_length = 0
  /\ piece_index = None /\ file_idx = 0 /\ piece_remaining = 0 /\ files = << >>

\* One more byte of an answer has arrived.
Arrive(c) ==
  /\ stage = "answer"
  /\ \E t \in Texts :
       /\ IsPrefix(t.begin, source) /\ Len(source) < t.length
       /\ ToSet(SubSeq(source, Len(t.begin) + 1, Len(source))) \cup {c} \subseteq t.characters
  /\ source' = Append(source, c)
  /\ UNCHANGED <<mapperVars, stage, torrent, file_table>>

\* TorrentFile::TorrentFile
Open ==
  /\ stage = "torrent"
  /\ torrent' = Constructed(source)
  /\ stage' = torrent'.outcome
  /\ UNCHANGED <<mapperVars, source, file_table>>
------------------------------------------------------------------------------
(* file_mapper_t.                                                          *)

\* (No name of the model has a NUL in it.)
is_valid_name(name) ==
  /\ name # << >> /\ Len(name) <= NameMax
  /\ name \notin {<<".">>, <<".", ".">>}
  /\ ToSet(name) \cap {"/", "\\"} = {}

\* A relative path is good if all its names are, and the file it leads to is inside.
if_valid_get_path(path) ==
  IF path # << >> /\ (\A i \in DOMAIN path : is_valid_name(path[i])) /\ path \notin Links
  THEN <<path>> ELSE nullopt

\* The constructor of file_mapper_t.
DirectoryOutcome(info, is_file) ==
  IF ~Has(info, "name") THEN "undefined"
  ELSE IF ~Is(info, "name", "string") THEN "mistyped"
  ELSE IF is_file \/ if_valid_get_path(<<Value(At(info, "name"))>>) # nullopt
       THEN "mapped" ELSE "refused"

\* "path" of a file of the torrent, as names.
Names(file) == [i \in DOMAIN Value(At(Value(file), "path")) |-> Value(Value(At(Value(file), "path"))[i])]

\* The body of the loop in the constructor of piece_mapper_t.
IndexOutcome(file) ==
  IF ~Is(Value(file), "path", "list") THEN "mistyped"
  ELSE IF \E i \in DOMAIN Value(At(Value(file), "path")) :
            Type(Value(At(Value(file), "path"))[i]) # "string" THEN "refused"
  ELSE IF if_valid_get_path(Names(file)) = nullopt THEN "refused" ELSE "mapped"

FilesOf(info) == Value(At(info, "files"))

FilesOutcome(info, is_file) ==
  IF is_file
  THEN IF if_valid_get_path(<<Value(At(info, "name"))>>) = nullopt THEN "refused" ELSE "mapped"
  ELSE LET bad == SelectInSeq(FilesOf(info), LAMBDA f : IndexOutcome(f) # "mapped") IN
       IF bad = 0 THEN "mapped" ELSE IndexOutcome(FilesOf(info)[bad])

\* The path and size of each file; sizes are std::size_t.
Indexed(info, is_file) ==
  IF is_file
  THEN <<[path |-> <<Value(At(info, "name"))>>, size |-> U(IntegerAt(info, "length"))]>>
  ELSE [i \in DOMAIN FilesOf(info) |->
         [path |-> Names(FilesOf(info)[i]),
          size |-> U(IntegerAt(Value(FilesOf(info)[i]), "length"))]]

\* FileManager::FileManager
Map ==
  /\ stage = "opened"
  /\ LET info == torrent.info
         directory == DirectoryOutcome(info, torrent.is_file)
         outcome == IF directory = "mapped" THEN FilesOutcome(info, torrent.is_file) ELSE directory
     IN
     /\ stage' = outcome
     /\ \/ /\ outcome = "mapped"
           /\ file_table' = Indexed(info, torrent.is_file)
           /\ file_ranges' = Ranges([i \in DOMAIN file_table' |-> file_table'[i].size])
           /\ piece_length' = U(IntegerAt(info, "piece length"))
        \/ outcome # "mapped" /\ UNCHANGED <<file_table, file_ranges, piece_length>>
  /\ UNCHANGED <<call, source, torrent>>

\* Where does a piece go?
Ask(index) ==
  /\ stage = "mapped" /\ ~Looking
  /\ files_for(index)
  /\ UNCHANGED <<stage, source, torrent, file_table>>

Look == LookAtFile /\ UNCHANGED <<stage, source, torrent, file_table>>

Next ==
  \/ \E c \in ToSet(Characters) : Arrive(c)
  \/ Open \/ Map
  \/ stage = "mapped" /\ \E index \in 0..(torrent.piece_count - 1) : Ask(index)
  \/ Look

Spec == Init /\ [][Next]_vars
------------------------------------------------------------------------------
(* Properties.                                                             *)

\* decode::input (Bendecoders.cpp 245-255): a text is accepted if and only if it is bencode,
\* and the value is the text's: encoded again it is as long and means the same.
DecodesExactly ==
  stage = "answer" =>
    LET d == decode_input(source) IN
    /\ d # nullopt <=> IsBencode(source)
    /\ d # nullopt =>
         LET again == Encoding(d[1]) IN
         /\ Len(again) = Len(source)
         /\ decode_input(again) # nullopt /\ Plain(decode_input(again)[1]) = Plain(d[1])

\* decode::input on what easy_callback collected: an answer that was cut short is never
\* taken for a whole one, and neither is a whole one with something behind it.
TruncationDetected ==
  stage = "answer" /\ decode_input(source) # nullopt =>
    \A n \in 0..(Len(source) - 1) : decode_input(SubSeq(source, 1, n)) = nullopt

\* position_in_source: the bytes at the position of any value inside the text are the
\* encoding of that value.  TorrentFile (38-40) takes the info hash of the bytes at "info".
PositionsTrue ==
  LET d == decode_input(source) IN
  stage \in {"answer", "torrent"} /\ d # nullopt =>
    \A part \in Parts(d[1]) :
      LET slice == decode_input(SubSeq(source, Start(part) + 1, After(part))) IN
      slice # nullopt /\ Plain(slice[1]) = Plain(part)

\* No size in the torrent is negative.
Sane ==
  /\ torrent.outcome = "opened"
  /\ IntegerAt(torrent.info, "piece length") > 0
  /\ IF torrent.is_file THEN torrent.download_size >= 0
     ELSE \A i \in DOMAIN FilesOf(torrent.info) :
            IntegerAt(Value(FilesOf(torrent.info)[i]), "length") >= 0

\* parse_transcription (48-100), get_piece_hash (161-173) and piece_mapper_t (112-167): a
\* torrent that is opened has a piece for every byte and no piece without a byte; the hashes
\* of its pieces are one after the other all there is in "pieces", as long as an int holds
\* where the last one begins; its files follow each other without a gap and end with the
\* last byte.
PiecesCover ==
  Sane =>
    LET length == IntegerAt(torrent.info, "piece length") IN
    /\ \A n \in 0..(torrent.download_size - 1) : n \div length < torrent.piece_count
    /\ \A p \in 0..(torrent.piece_count - 1) : p * length < torrent.download_size
    /\ (torrent.piece_count - 1) * HashLength <= NarrowMax =>
         FlattenSeq([p \in 1..torrent.piece_count |-> get_piece_hash(torrent, p - 1)])
           = Value(At(torrent.info, "pieces"))
    /\ stage = "mapped" =>
         /\ Contiguous
         /\ file_ranges # << >> => Last(file_ranges).end_byte = torrent.download_size
==============================================================================
