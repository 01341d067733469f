---------------------------- MODULE DynamicBitset ----------------------------
(***************************************************************************)
(* DynamicBitset: a set of piece indices in words of WordBits bits.        *)
(*                                                                         *)
(* A word is the set of the positions of its 1 bits, WordBits - 1 the most *)
(* significant; a byte likewise.  Index 0 is the most significant bit of   *)
(* the first word, as in the payload of the bitfield message.  The payload *)
(* is produced in several calls of encode_as_payload, as room for it is    *)
(* found, and the set may change between them.                             *)
(***************************************************************************)
EXTENDS Integers, Sequences, FiniteSets, SequencesExt, FiniteSetsExt

CONSTANTS
  WordBits,     \* 64
  ByteBits,     \* 8
  Lengths,      \* of the sets that are made
  Touched,      \* for each length, the indices that calls are made with, also out of range
  MaxChanges    \* bound on changes while a payload is produced

ASSUME BitsAssumption ==
  /\ WordBits \in Nat \ {0} /\ ByteBits \in Nat \ {0} /\ WordBits % ByteBits = 0
  /\ Lengths \subseteq Nat /\ MaxChanges \in Nat
  /\ \A n \in Lengths : Touched[n] \subseteq 0..(2 * n)

VARIABLES
  length,
  bitfield,         \* the words
  op,               \* history: the last call, with its argument
  payload,          \* the bytes encode_as_payload has produced
  encoded_bytes,    \* what its caller passes on to the next call
  low, high,        \* history: indices that were members all along, or at some time,
                    \* since the payload was begun
  changes           \* history: changes since then

sending == <<payload, encoded_bytes>>
vars == <<length, bitfield, op, sending, low, high, changes>>

Indices   == 0..(length - 1)
Positions == 0..(WordBits - 1)
BytesPerWord == WordBits \div ByteBits
npos == -1

words_length(bits) == (bits \div WordBits) + (IF bits % WordBits # 0 THEN 1 ELSE 0)
bytes_length(bits) == (bits \div ByteBits) + (IF bits % ByteBits # 0 THEN 1 ELSE 0)

\* The word of an index, from 1, and the position in it.
get_index(index) == [word |-> (index \div WordBits) + 1,
                     index |-> WordBits - 1 - (index % WordBits)]

test(index) ==
  index < length /\ get_index(index).index \in bitfield[get_index(index).word]

Members == {i \in Indices : test(i)}

\* A field with these members, as a sequence of set() makes it.
FieldOf(members) ==
  [w \in 1..words_length(length) |->
    {get_index(i).index : i \in {j \in members : get_index(j).word = w}}]

Init ==
  /\ length \in Lengths
  /\ bitfield = [w \in 1..words_length(length) |-> {}]
  /\ op = <<"new">> /\ payload = << >> /\ encoded_bytes = 0
  /\ low = {} /\ high = {} /\ changes = 0
------------------------------------------------------------------------------
(* Changes.                                                                *)

set(index) ==
  IF index >= length THEN bitfield
  ELSE [bitfield EXCEPT ![get_index(index).word] = @ \cup {get_index(index).index}]

\* Slip: `^=' for `&= ~'.
SlipReset(index) ==
  IF index >= length THEN bitfield
  ELSE [bitfield EXCEPT ![get_index(index).word] = (@ \cup {get_index(index).index}) \ (@ \cap {get_index(index).index})]

reset(index) ==
  IF index >= length THEN bitfield
  ELSE [bitfield EXCEPT ![get_index(index).word] = @ \ {get_index(index).index}]

clear == [w \in DOMAIN bitfield |-> {}]

OrAssign(other)  == [w \in DOMAIN bitfield |-> bitfield[w] \cup other[w]]
AndAssign(other) == [w \in DOMAIN bitfield |-> bitfield[w] \cap other[w]]

\* The bits of a byte, moved to byte_offset bytes above the bottom of a word.
Shifted(byte, byte_offset) == {i + ByteBits * byte_offset : i \in byte}

\* One byte of decode_as_payload's loop.
DecodeByte(s, byte) ==
  [bitfield |-> [s.bitfield EXCEPT ![s.word_offset] = @ \cup Shifted(byte, s.byte_offset)],
   word_offset |-> IF s.byte_offset = 0 THEN s.word_offset + 1 ELSE s.word_offset,
   byte_offset |-> IF s.byte_offset = 0 THEN BytesPerWord - 1 ELSE s.byte_offset - 1]

\* The field after the loop.
DecodedInto(field, bytes) ==
  FoldLeft(DecodeByte,
           [bitfield |-> field, word_offset |-> 1, byte_offset |-> BytesPerWord - 1],
           bytes).bitfield

\* The size is right, and the spare bits of the last byte are 0.  (The last byte is read
\* before it is known that there is one: see decode_as_payload.)
Decodable(bytes) ==
  /\ Len(bytes) = bytes_length(length)
  /\ LET remains == length % ByteBits IN
     remains # 0 => Last(bytes) \cap 0..(ByteBits - remains - 1) = {}

\* The set changes.
Changed(label, field) ==
  /\ changes < MaxChanges
  /\ UNCHANGED <<length, sending>>
  /\ op' = label /\ bitfield' = field
  /\ low' = low \cap Members' /\ high' = high \cup Members'
  /\ changes' = changes + 1

Change ==
  \/ \E i \in Touched[length] : Changed(<<"set", i>>, set(i)) \/ Changed(<<"reset", i>>, reset(i))
  \/ Changed(<<"clear">>, clear)
  \/ \E other \in SUBSET (Touched[length] \cap Indices) :
       \/ Changed(<<"or", other>>, OrAssign(FieldOf(other)))
       \/ Changed(<<"and", other>>, AndAssign(FieldOf(other)))

\* n bytes with these bits set; in the right number of bytes, and around it.
BytesOf(bits, n) ==
  [k \in 1..n |-> {p \in 0..(ByteBits - 1) : k * ByteBits - 1 - p \in bits}]

Payloads ==
  UNION {{BytesOf(bits, n) : bits \in SUBSET Touched[length]} :
           n \in Nat \cap (bytes_length(length) - 1)..(bytes_length(length) + 1)}

\* Named(bytes): the indices whose bits are 1, for the abstract specification.
Named(bytes) ==
  {i \in Indices : ByteBits - 1 - (i % ByteBits) \in bytes[(i \div ByteBits) + 1]}

\* back() of an empty span, which is as long as the payload of a set of length 0, is
\* undefined: the program may end there, or go on, since the byte is not looked at.
decode_as_payload ==
  \E bytes \in Payloads :
    \/ Decodable(bytes) /\ Changed(<<"decode", Named(bytes)>>, DecodedInto(bitfield, bytes))
    \/ ~Decodable(bytes) /\ Changed(<<"refused">>, bitfield)
    \/ Decodable(bytes) /\ bytes = << >> /\ Changed(<<"undefined">>, bitfield)
------------------------------------------------------------------------------
(* encode_as_payload.                                                      *)

\* h_word_to_n_word and the bytes in memory: the most significant first.
ByteOf(word, b) == {i \in 0..(ByteBits - 1) : i + ByteBits * (BytesPerWord - 1 - b) \in word}
WordBytes(word) == [b \in 1..BytesPerWord |-> ByteOf(word, b - 1)]

\* Slip: the offset into the first word is used for all.
SlipNextOffset(byte_offset, n) == byte_offset

NextOffset(byte_offset, n) == IF byte_offset + n = BytesPerWord THEN 0 ELSE byte_offset

\* One word of the loop; nothing is left to do once the target is full.
EncodeWord(s, w) ==
  LET n == Min({s.target, bytes_length(length) - s.encoded, BytesPerWord - s.byte_offset}) IN
  IF s.target = 0 THEN s
  ELSE [target      |-> s.target - n,
        encoded     |-> s.encoded + n,
        byte_offset |-> NextOffset(s.byte_offset, n),
        out         |-> s.out \o SubSeq(WordBytes(bitfield[w]), s.byte_offset + 1, s.byte_offset + n)]

\* With room for `target' bytes, after `encoded' bytes in earlier calls.
Encode(target, encoded) ==
  LET start == encoded \div BytesPerWord
      begin == [target |-> target, encoded |-> encoded, byte_offset |-> encoded % BytesPerWord,
                out |-> << >>]
  IN
  IF target = 0 \/ encoded >= bytes_length(length) THEN begin
  ELSE FoldLeft(EncodeWord, begin,
                [k \in 1..(Len(bitfield) - start) |-> start + k])

\* Another call, for the bytes there is room for.
encode_as_payload(target) ==
  LET done == Encode(target, encoded_bytes) IN
  /\ encoded_bytes < bytes_length(length)
  /\ payload' = payload \o done.out
  /\ encoded_bytes' = done.encoded
  /\ op' = <<"encode">>
  /\ UNCHANGED <<length, bitfield, low, high, changes>>

\* The caller has a payload to produce, from the beginning.
Begin ==
  /\ payload' = << >> /\ encoded_bytes' = 0
  /\ low' = Members /\ high' = Members /\ changes' = 0
  /\ op' = <<"encode">>
  /\ UNCHANGED <<length, bitfield>>

Next ==
  /\ op # <<"undefined">>
  /\ \/ Change \/ decode_as_payload \/ Begin
     \/ \E target \in 0..(bytes_length(length) + 1) : encode_as_payload(target)

Spec == Init /\ [][Next]_vars
------------------------------------------------------------------------------
(* Queries.                                                                *)

count == FoldLeft(LAMBDA n, word : n + Cardinality(word), 0, bitfield)
any   == \E w \in DOMAIN bitfield : bitfield[w] # {}
none  == ~any

\* The leading 1 bits of the last word are as many as it has members, if there is a word.
all ==
  \/ length = 0
  \/ /\ \A w \in 1..(Len(bitfield) - 1) : bitfield[w] = Positions
     /\ LET ones == CHOOSE n \in 0..WordBits :
                      /\ (WordBits - n)..(WordBits - 1) \subseteq Last(bitfield)
                      /\ n < WordBits => WordBits - 1 - n \notin Last(bitfield)
        IN ones = IF length % WordBits # 0 THEN length % WordBits ELSE WordBits

\* An iterator of set_range_t: a word, from 1, and the bits of it still to be read.  With no
\* words the index of the end, size - 1, wraps; here it is 0, also none of a word.
end == [word_index |-> Len(bitfield), cached_reads |-> {}]

\* operator++: on to the next word that is not empty, or to the last, if all is read.
Incremented(it) ==
  LET later == {w \in (it.word_index + 1)..Len(bitfield) :
                  bitfield[w] # {} \/ w = Len(bitfield)}
  IN
  IF it.cached_reads # {} \/ later = {} THEN it
  ELSE [word_index |-> Min(later), cached_reads |-> bitfield[Min(later)]]

\* operator*: the index of the highest bit that is cached, which is read by that.
Deref(it) == WordBits * (it.word_index - 1) + (WordBits - 1 - Max(it.cached_reads))
WithRead(it) == [it EXCEPT !.cached_reads = @ \ {Max(@)}]

begin_ ==
  LET start == [word_index |-> 1, cached_reads |-> bitfield[1]] IN
  IF length = 0 THEN end ELSE IF test(0) THEN start ELSE Incremented(start)

find_first == IF begin_ = end THEN npos ELSE Deref(begin_)

\* Slip: the bit at `from' is kept.
SlipAbove(from) == {p \in Positions : p <= WordBits - 1 - (from % WordBits)}

\* The positions after the one of `from' in its word.
Above(from) == {p \in Positions : p < WordBits - 1 - (from % WordBits)}

find_next(from) ==
  LET w    == (from \div WordBits) + 1
      next == Incremented([word_index |-> w, cached_reads |-> bitfield[w] \cap Above(from)])
  IN
  IF from >= length \/ next = end THEN npos ELSE Deref(next)

\* for (i : set_bits()): the iterators the loop meets, and what it reads of them.
Walk ==
  LET it[k \in Nat] == IF k = 0 THEN begin_
                       ELSE IF it[k - 1] = end THEN end ELSE Incremented(WithRead(it[k - 1]))
      last == CHOOSE k \in 0..(length + 1) : it[k] = end /\ \A j \in 0..(k - 1) : it[j] # end
  IN [k \in 1..last |-> Deref(it[k - 1])]
------------------------------------------------------------------------------
(* Properties.                                                             *)

Abstract == INSTANCE IndexSet WITH members <- Members

\* The set operations (54-76, 168-192) and decode_as_payload (21-52) do to the words what
\* their names say of a set of indices, and nothing to the indices beside.  Only decoding
\* into a set of length 0 is promised nothing.
SetSpec == Abstract!Spec

\* count, any, all, find_first, find_next and the iteration (78-117, 198-305), which work on
\* whole words and trust the spare bits of the last to be 0, agree with test on all indices.
QueriesAgree ==
  LET After(i) == {j \in Members : j > i} IN
  /\ count = Cardinality(Members) /\ (none <=> Members = {}) /\ (all <=> Members = Indices)
  /\ find_first = IF Members = {} THEN npos ELSE Min(Members)
  /\ \A i \in 0..length : find_next(i) = IF After(i) = {} THEN npos ELSE Min(After(i))
  /\ ToSet(Walk) = Members /\ \A j, k \in DOMAIN Walk : j < k => Walk[j] < Walk[k]

\* encode_as_payload (120-150): however the payload is cut into calls, what has been produced
\* is the beginning of a payload that decode_as_payload accepts, of a set between what the
\* set was all along and what it was at some time.  The same, if the set did not change.
PayloadFaithful ==
  /\ Len(payload) = encoded_bytes
  /\ encoded_bytes = bytes_length(length) => Decodable(payload)
  /\ \A i \in Indices : i \div ByteBits < encoded_bytes =>
       LET sent == ByteBits - 1 - (i % ByteBits) \in payload[(i \div ByteBits) + 1] IN
       (i \in low => sent) /\ (sent => i \in high)
==============================================================================
