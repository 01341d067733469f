------------------------------- MODULE Bencode -------------------------------
(***************************************************************************)
(* Bencode: the decoders of Bendecoders.cpp and the encoders of            *)
(* Benencoder.cpp.                                                         *)
(*                                                                         *)
(* A text is a sequence of characters.  The dictionary keys a torrent is   *)
(* searched for are one character each ("info", "piece length").  An       *)
(* std::optional is a sequence of length 0 or 1; a ben::data is            *)
(* <<type, actual_value, start, size>>, the last two its position in the   *)
(* text, so a decoder that has read it leaves the cursor at start + size.  *)
(* The decoders recur, so this module is for TLC only.                     *)
(***************************************************************************)
EXTENDS Integers, Sequences, FiniteSets, SequencesExt

CONSTANTS
  IntMax,       \* the largest std::int64_t
  Characters    \* the characters in the order of their codes

ASSUME BencodeAssumption == IntMax \in Nat /\ IsInjective(Characters)

IntMin == -(IntMax + 1)

nullopt == << >>

Type(d)  == d[1]
Value(d) == d[2]
Start(d) == d[3]
Size(d)  == d[4]
After(d) == Start(d) + Size(d)      \* the cursor once d has been read

Digits == <<"0", "1", "2", "3", "4", "5", "6", "7", "8", "9">>

Number(digits) ==
  FoldLeft(LAMBDA n, c : 10 * n + (CHOOSE k \in 0..9 : Digits[k + 1] = c), 0, digits)
------------------------------------------------------------------------------
(* Decoders.                                                               *)

undecoded(source, cursor) == SubSeq(source, cursor + 1, Len(source))

\* Slip: minus zero is let through.
SlipCanonical(str) == Head(str) = "0" => Len(str) = 1

\* No leading zero, no minus zero.
Canonical(str) ==
  /\ Head(str) = "0" => Len(str) = 1
  /\ Head(str) = "-" => str[2] # "0"

\* std::from_chars wants digits, at least one, after an optional sign, and a result that
\* an int64 can hold; the whole of str must be used.
get_number_if_valid(str) ==
  LET negative == str # << >> /\ Head(str) = "-"
      digits   == IF negative THEN Tail(str) ELSE str
      number   == IF negative THEN -Number(digits) ELSE Number(digits)
  IN
  IF /\ digits # << >> /\ ToSet(digits) \subseteq ToSet(Digits)
     /\ Canonical(str)
     /\ number \in IntMin..IntMax
  THEN <<number>> ELSE nullopt

decode_string(source, cursor) ==
  LET view      == undecoded(source, cursor)
      separator == SelectInSeq(view, LAMBDA c : c = ":")
      declared  == get_number_if_valid(SubSeq(view, 1, separator - 1))
  IN
  IF \/ Len(view) < 2 \/ separator = 0
     \/ Head(view) = "-" \/ declared = nullopt
     \/ declared[1] > Len(view) - separator
  THEN nullopt
  ELSE << <<"string", SubSeq(view, separator + 1, separator + declared[1]),
            cursor, separator + declared[1]>> >>

decode_integer(source, cursor) ==
  LET view   == undecoded(source, cursor + 1)
      end    == SelectInSeq(view, LAMBDA c : c = "e")
      number == get_number_if_valid(SubSeq(view, 1, end - 1))
  IN
  IF end = 0 \/ number = nullopt THEN nullopt
  ELSE << <<"integer", number[1], cursor, end + 1>> >>

RECURSIVE decode_any(_, _), Items(_, _, _), ItemRead(_, _, _)
RECURSIVE Pairs(_, _, _), KeyRead(_, _, _), PairRead(_, _, _, _)

\* The loop of decode::list: the elements after the header, up to the delimiter.
Items(source, cursor, list) ==
  IF cursor >= Len(source) THEN nullopt
  ELSE IF source[cursor + 1] = "e" THEN << <<list, cursor + 1>> >>
  ELSE ItemRead(source, decode_any(source, cursor), list)

ItemRead(source, item, list) ==
  IF item = nullopt THEN nullopt ELSE Items(source, After(item[1]), Append(list, item[1]))

\* The loop of decode::dictionary.  Keys may come in any order, but not twice.
Pairs(source, cursor, map) ==
  IF cursor >= Len(source) THEN nullopt
  ELSE IF source[cursor + 1] = "e" THEN << <<map, cursor + 1>> >>
  ELSE KeyRead(source, decode_string(source, cursor), map)

KeyRead(source, key, map) ==
  IF key = nullopt THEN nullopt
  ELSE PairRead(source, Value(key[1]), decode_any(source, After(key[1])), map)

PairRead(source, key, val, map) ==
  IF val = nullopt \/ key \in DOMAIN map THEN nullopt
  ELSE Pairs(source, After(val[1]), map @@ (key :> val[1]))

\* Slip: the position begins after the header.
SlipPositioned(type, read, cursor) ==
  IF read = nullopt THEN nullopt
  ELSE << <<type, read[1][1], cursor + 1, read[1][2] - cursor - 1>> >>

\* What the loop read, and where: the header was at the cursor, and read[1][2] is where the
\* delimiter left it.
Positioned(type, read, cursor) ==
  IF read = nullopt THEN nullopt
  ELSE << <<type, read[1][1], cursor, read[1][2] - cursor>> >>

decode_list(source, cursor) == Positioned("list", Items(source, cursor + 1, << >>), cursor)

decode_dictionary(source, cursor) ==
  Positioned("dictionary", Pairs(source, cursor + 1, << >>), cursor)

decode_any(source, cursor) ==
  IF cursor >= Len(source) THEN nullopt
  ELSE CASE source[cursor + 1] = "i" -> decode_integer(source, cursor)
         [] source[cursor + 1] = "l" -> decode_list(source, cursor)
         [] source[cursor + 1] = "d" -> decode_dictionary(source, cursor)
         [] OTHER                    -> decode_string(source, cursor)

\* Slip: what follows the first value is ignored.
SlipDecodeInput(source) == decode_any(source, 0)

\* The whole text must have been read.
Whole(source, resolve) ==
  IF resolve # nullopt /\ After(resolve[1]) # Len(source) THEN nullopt ELSE resolve

decode_input(source) == Whole(source, decode_any(source, 0))
------------------------------------------------------------------------------
(* Encoders.                                                               *)

RECURSIVE to_string(_)
to_string(n) ==
  IF n < 0 THEN <<"-">> \o to_string(-n)
  ELSE IF n < 10 THEN <<Digits[n + 1]>>
  ELSE to_string(n \div 10) \o <<Digits[(n % 10) + 1]>>

encode_integer(n) == <<"i">> \o to_string(n) \o <<"e">>

encode_string(s) == to_string(Len(s)) \o <<":">> \o s

encode_list(items) == <<"l">> \o FlattenSeq(items) \o <<"e">>

\* std::string's order.
Below(a, b) ==
  \/ IsStrictPrefix(a, b)
  \/ \E i \in 1..Len(a) \cap 1..Len(b) :
       /\ SubSeq(a, 1, i - 1) = SubSeq(b, 1, i - 1)
       /\ \E j, k \in DOMAIN Characters : j < k /\ a[i] = Characters[j] /\ b[i] = Characters[k]

\* The pairs, sorted by their keys.
encode_dictionary(map) ==
  LET keys == SetToSortSeq(DOMAIN map, Below) IN
  <<"d">> \o FlattenSeq([i \in DOMAIN keys |-> encode_string(keys[i]) \o map[keys[i]]])
          \o <<"e">>
------------------------------------------------------------------------------
(* References.                                                             *)

\* The encoding of a value, put together with the encoders.
RECURSIVE Encoding(_)
Encoding(d) ==
  CASE Type(d) = "integer"    -> encode_integer(Value(d))
    [] Type(d) = "string"     -> encode_string(Value(d))
    [] Type(d) = "list"       -> encode_list([i \in DOMAIN Value(d) |-> Encoding(Value(d)[i])])
    [] Type(d) = "dictionary" ->
         encode_dictionary([k \in DOMAIN Value(d) |-> Encoding(Value(d)[k])])

\* A value without its positions.
RECURSIVE Plain(_)
Plain(d) ==
  <<Type(d), IF Type(d) \in {"list", "dictionary"}
             THEN [i \in DOMAIN Value(d) |-> Plain(Value(d)[i])] ELSE Value(d)>>

\* A value and everything inside it.
RECURSIVE Parts(_)
Parts(d) ==
  {d} \cup IF Type(d) \in {"list", "dictionary"}
           THEN UNION {Parts(Value(d)[i]) : i \in DOMAIN Value(d)} ELSE {}

\* The grammar of bencode: a text is one of these, however it is cut into parts.
IsString(t) ==
  \E k \in 1..Len(t) : t[k] = ":" /\ SubSeq(t, 1, k - 1) = to_string(Len(t) - k)

IsInteger(t) == \E n \in IntMin..IntMax : t = encode_integer(n)

RECURSIVE IsBencode(_), AreItems(_), ArePairs(_, _)
AreItems(t) ==
  \/ t = << >>
  \/ \E k \in 1..Len(t) : /\ IsBencode(SubSeq(t, 1, k))
                          /\ AreItems(SubSeq(t, k + 1, Len(t)))

ArePairs(t, keys) ==
  \/ t = << >>
  \/ \E j, k \in 1..Len(t) :
       LET key == SubSeq(t, 1, j) IN
       /\ IsString(key) /\ key \notin keys /\ IsBencode(SubSeq(t, j + 1, k))
       /\ ArePairs(SubSeq(t, k + 1, Len(t)), keys \cup {key})

IsBencode(t) ==
  \/ IsString(t) \/ IsInteger(t)
  \/ /\ Len(t) >= 2 /\ t[Len(t)] = "e"
     /\ \/ t[1] = "l" /\ AreItems(SubSeq(t, 2, Len(t) - 1))
        \/ t[1] = "d" /\ ArePairs(SubSeq(t, 2, Len(t) - 1), {})
==============================================================================
