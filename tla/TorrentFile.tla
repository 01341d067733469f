----------------------------- MODULE TorrentFile -----------------------------
(***************************************************************************)
(* TorrentFile: what its constructor makes of the bytes of a torrent file. *)
(*                                                                         *)
(* Outcomes: "opened"; "invalid", Invalid_Torrent_File is thrown;          *)
(* "mistyped", get_as throws std::bad_variant_access; "undefined", a map's *)
(* end() is dereferenced, a signed sum overflows or a division is by zero. *)
(* SHA-1 is kept abstract: the info hash is the bytes it is taken of.      *)
(***************************************************************************)
EXTENDS Bencode

CONSTANTS
  HashLength,   \* 20
  NarrowMax     \* INT_MAX: int is narrower than std::size_t

ASSUME HashLengthAssumption == HashLength \in Nat \ {0} /\ NarrowMax \in Nat

Wide == 2 * (IntMax + 1)      \* 2^64: std::size_t and std::uint64_t wrap here

\* An integer as std::size_t.
U(n) == n % Wide

Has(map, key) == <<key>> \in DOMAIN map
At(map, key)  == map[<<key>>]
Is(map, key, type) == Has(map, key) /\ Type(At(map, key)) = type

\* The integer under a key, 0 if it is not there.
IntegerAt(map, key) == IF Is(map, key, "integer") THEN Value(At(map, key)) ELSE 0

\* Slip: rounded down.
SlipCeilDiv(a, b) == a \div b

\* utils::ceil_div
ceil_div(a, b) == (a \div b) + (IF a % b # 0 THEN 1 ELSE 0)
------------------------------------------------------------------------------
(* parse_transcription.                                                    *)

\* The body of the loop over "files", after the first s.outcome that is not "opened" left as
\* it is: "length" is added before "path" is looked for.
Counted(s, file) ==
  LET sum == s.size + IntegerAt(Value(file), "length") IN
  IF s.outcome # "opened" THEN s
  ELSE IF Type(file) # "dictionary" THEN [s EXCEPT !.outcome = "mistyped"]
  ELSE IF ~Has(Value(file), "length") THEN [s EXCEPT !.outcome = "invalid"]
  ELSE IF ~Is(Value(file), "length", "integer") THEN [s EXCEPT !.outcome = "mistyped"]
  ELSE [size    |-> sum,
        outcome |-> IF sum \notin IntMin..IntMax THEN "undefined"
                    ELSE IF Has(Value(file), "path") THEN "opened" ELSE "invalid"]

\* is_file, download_size and file_count: what becomes of them, and the size.
Sizes(info) ==
  LET none == [size |-> 0, outcome |-> "opened"]
      No(outcome) == [none EXCEPT !.outcome = outcome]
  IN
  IF Has(info, "length")
  THEN IF Has(info, "files") THEN No("invalid")
       ELSE IF Is(info, "length", "integer") THEN [none EXCEPT !.size = IntegerAt(info, "length")]
       ELSE No("mistyped")
  ELSE IF ~Has(info, "files") THEN No("invalid")
  ELSE IF ~Is(info, "files", "list") THEN No("mistyped")
  ELSE FoldLeft(Counted, none, Value(At(info, "files")))

DownloadSize(info) == Sizes(info).size

\* piece_count, which must agree with the sizes.  Both go into ceil_div as std::uint64_t.
PiecesOutcome(info) ==
  IF ~Has(info, "pieces") THEN "undefined"
  ELSE IF ~Is(info, "pieces", "string") THEN "mistyped"
  ELSE LET hashes == Len(Value(At(info, "pieces"))) IN
  IF hashes % HashLength # 0 THEN "invalid"
  ELSE IF ~Has(info, "piece length") THEN "undefined"
  ELSE IF ~Is(info, "piece length", "integer") THEN "mistyped"
  ELSE IF IntegerAt(info, "piece length") = 0 THEN "undefined"
  ELSE IF ceil_div(U(DownloadSize(info)), U(IntegerAt(info, "piece length")))
            = hashes \div HashLength
       THEN "opened" ELSE "invalid"

\* Only a torrent with none of the three keys is turned away: the tests are joined by `and'.
parse_transcription(info) ==
  IF ~Has(info, "name") /\ ~Has(info, "pieces") /\ ~Has(info, "piece length") THEN "invalid"
  ELSE IF Sizes(info).outcome # "opened" THEN Sizes(info).outcome
  ELSE PiecesOutcome(info)

\* "info" of what was decoded, if that is a dictionary and has it.
InfoOf(decode) ==
  IF decode = nullopt \/ Type(decode[1]) # "dictionary" THEN nullopt
  ELSE IF Has(Value(decode[1]), "info") THEN <<At(Value(decode[1]), "info")>> ELSE nullopt

\* What an opened torrent holds.
Torrent(source, found) ==
  [outcome       |-> "opened",
   info          |-> Value(found),
   info_hash     |-> SubSeq(source, Start(found) + 1, After(found)),
   is_file       |-> Has(Value(found), "length"),
   download_size |-> DownloadSize(Value(found)),
   piece_count   |-> Len(Value(At(Value(found), "pieces"))) \div HashLength]

\* The rest of the constructor, once the text is decoded.
FromInfo(source, found) ==
  IF found = nullopt THEN [outcome |-> "invalid"]
  ELSE IF Type(found[1]) # "dictionary" THEN [outcome |-> "mistyped"]
  ELSE LET outcome == parse_transcription(Value(found[1])) IN
       IF outcome = "opened" THEN Torrent(source, found[1]) ELSE [outcome |-> outcome]

\* The constructor: its outcome and, for an opened torrent, what it holds.
Constructed(source) == FromInfo(source, InfoOf(decode_input(source)))

\* The product is a std::size_t; what is left of it in an int may be negative.
hash_index(index) ==
  LET n == U(index * HashLength) % (2 * (NarrowMax + 1)) IN
  IF n > NarrowMax THEN n - 2 * (NarrowMax + 1) ELSE n

\* The hashes are cut from "pieces" one after the other.  In front of the text there is
\* nothing to read: undefined, here no hash at all.
get_piece_hash(torrent, index) ==
  LET at == hash_index(index) IN
  IF at < 0 THEN << >> ELSE SubSeq(Value(At(torrent.info, "pieces")), at + 1, at + HashLength)
==============================================================================
