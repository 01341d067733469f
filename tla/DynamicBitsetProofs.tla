------------------------- MODULE DynamicBitsetProofs -------------------------
(***************************************************************************)
(* Proofs about the bitset, for every width of a word and of a byte, every *)
(* length and every sequence of calls.  The invariant behind all of them   *)
(* is Sound: no bit beyond the length is ever set in the last word.  With  *)
(* it the words and the members determine each other, the operations on    *)
(* whole words are the set's, and the queries that count, skip and compare *)
(* whole words agree with test.  A bitset of length 0, which has no last   *)
(* word, is a case of its own (Empty).                                     *)
(***************************************************************************)
EXTENDS DynamicBitset, SequenceLemmas

------------------------------------------------------------------------------
(* Arithmetic.                                                             *)

\* Division with remainder, and back.
LEMMA Split ==
  ASSUME NEW m \in Nat \ {0}, NEW x \in Nat
  PROVE  /\ x \div m \in Nat /\ x % m \in 0..(m - 1)
         /\ x = m * (x \div m) + (x % m)
<1> DEFINE q == x \div m
           r == x % m
<1>1. q \in Nat /\ r \in 0..(m - 1) /\ x = m * q + r
  OBVIOUS
<1>2. QED
  BY <1>1

\* A quotient and a remainder are those of what they make.
LEMMA Joined ==
  ASSUME NEW m \in Nat \ {0}, NEW q \in Nat, NEW r \in 0..(m - 1)
  PROVE  m * q + r \in Nat /\ (m * q + r) \div m = q /\ (m * q + r) % m = r
OBVIOUS

\* Multiplication keeps the order, a whole step at a time.
LEMMA Times ==
  ASSUME NEW m \in Nat \ {0}, NEW p \in Nat, NEW q \in Nat
  PROVE  /\ m * p \in Nat
         /\ p < q <=> m * p < m * q
         /\ p < q => m * p + m <= m * q
<1>1. m * p \in Nat /\ m * q \in Nat
  OBVIOUS
<1>2. ASSUME p < q PROVE m * p + m <= m * q
  <2>1. PICK d \in Nat : q = p + 1 + d
    <3>1. q - p - 1 \in Nat /\ q = p + 1 + (q - p - 1)
      BY <1>2
    <3>2. QED
      BY <3>1
  <2>2. m * q = m * p + m + m * d /\ m * d \in Nat
    BY <2>1
  <2>3. QED
    BY <1>1, <2>2
<1>3. ASSUME q <= p PROVE m * q <= m * p
  <2>1. PICK d \in Nat : p = q + d
    <3>1. p - q \in Nat /\ p = q + (p - q)
      BY <1>3
    <3>2. QED
      BY <3>1
  <2>2. m * p = m * q + m * d /\ m * d \in Nat
    BY <2>1
  <2>3. QED
    BY <1>1, <2>2
<1>4. QED
  BY <1>1, <1>2, <1>3

\* The number of units of m that hold x.
LEMMA Ceiling ==
  ASSUME NEW m \in Nat \ {0}, NEW x \in Nat \ {0}
  PROVE  LET c == (x \div m) + (IF x % m # 0 THEN 1 ELSE 0) IN
         /\ c \in Nat \ {0} /\ m * (c - 1) < x /\ x <= m * c
         /\ \A i \in Nat : i \div m < c <=> i < m * c
         /\ \A i \in Nat : i < x => i \div m < c
<1> DEFINE q == x \div m
           r == x % m
           c == q + (IF r # 0 THEN 1 ELSE 0)
<1>1. q \in Nat /\ r \in 0..(m - 1) /\ x = m * q + r
  BY Split
<1> HIDE DEF q, r
<1>2. c \in Nat \ {0} /\ m * (c - 1) < x /\ x <= m * c /\ m * c \in Nat
  <2>1. CASE r = 0
    <3>1. c = q /\ x = m * q
      BY <1>1, <2>1
    <3>2. q # 0
      BY <3>1
    <3>3. m * (q - 1) = m * q - m
      BY <1>1
    <3>4. QED
      BY <1>1, <3>1, <3>2, <3>3
  <2>2. CASE r # 0
    <3>1. c = q + 1 /\ m * (q + 1) = m * q + m /\ m * q \in Nat
      BY <1>1, <2>2
    <3> HIDE DEF c
    <3>2. QED
      BY <1>1, <2>2, <3>1
  <2>3. QED
    BY <2>1, <2>2
<1> HIDE DEF c
<1>3. ASSUME NEW i \in Nat PROVE i \div m < c <=> i < m * c
  <2> DEFINE a == i \div m
             b == i % m
  <2>1. a \in Nat /\ b \in 0..(m - 1) /\ i = m * a + b
    BY Split
  <2> HIDE DEF a, b
  <2>2. (a < c => m * a + m <= m * c) /\ (c <= a => m * c <= m * a) /\ m * a \in Nat
    <3>1. a < c => m * a + m <= m * c
      BY <1>2, <2>1, Times
    <3>2. c < a => m * c < m * a
      BY <1>2, <2>1, Times
    <3>3. m * a \in Nat
      BY <2>1
    <3>4. QED
      BY <1>2, <2>1, <3>1, <3>2, <3>3
  <2>3. a < c <=> i < m * c
    BY <1>2, <2>1, <2>2
  <2>4. QED
    BY <2>3 DEF a
<1>4. ASSUME NEW i \in Nat, i < x PROVE i \div m < c
  BY <1>2, <1>3, <1>4
<1>5. QED
  BY <1>2, <1>3, <1>4 DEF c, q, r
------------------------------------------------------------------------------
(* Words, bytes and indices.                                               *)

\* A word is a whole number of bytes.
LEMMA Bits ==
  /\ WordBits \in Nat \ {0} /\ ByteBits \in Nat \ {0} /\ BytesPerWord \in Nat \ {0}
  /\ WordBits = ByteBits * BytesPerWord
<1>1. WordBits \in Nat \ {0} /\ ByteBits \in Nat \ {0} /\ WordBits % ByteBits = 0
  BY BitsAssumption
<1> DEFINE q == WordBits \div ByteBits
<1>2. q \in Nat /\ WordBits = ByteBits * q + (WordBits % ByteBits)
  BY <1>1, Split
<1> HIDE DEF q
<1>3. WordBits = ByteBits * q
  BY <1>1, <1>2
<1>4. q # 0
  BY <1>1, <1>3
<1>5. QED
  BY <1>1, <1>2, <1>3, <1>4 DEF BytesPerWord, q

\* The index of position p of the w-th word.
IndexAt(w, p) == WordBits * (w - 1) + (WordBits - 1 - p)

\* The numbers of the words.
Words == 1..words_length(length)

\* Words with no bit set beyond the length.
IsField(f) ==
  /\ f \in [Words -> SUBSET Positions]
  /\ \A w \in Words : \A p \in f[w] : IndexAt(w, p) < length

\* The indices whose bits are set in a field.
MembersOf(f) == {i \in Indices : get_index(i).index \in f[get_index(i).word]}

\* get_index and IndexAt are inverse to each other.
LEMMA Located ==
  ASSUME NEW i \in Nat
  PROVE  /\ get_index(i).word \in Nat \ {0} /\ get_index(i).index \in Positions
         /\ IndexAt(get_index(i).word, get_index(i).index) = i
<1> DEFINE q == i \div WordBits
           r == i % WordBits
<1>1. q \in Nat /\ r \in 0..(WordBits - 1) /\ i = WordBits * q + r
  BY Bits, Split
<1>2. get_index(i).word = q + 1 /\ get_index(i).index = WordBits - 1 - r
  BY DEF get_index
<1> HIDE DEF q, r
<1>3. QED
  <2>1. q + 1 - 1 = q /\ WordBits - 1 - (WordBits - 1 - r) = r
    BY <1>1, Bits
  <2>2. q + 1 \in Nat \ {0} /\ WordBits - 1 - r \in Positions
    BY <1>1, Bits DEF Positions
  <2>3. IndexAt(q + 1, WordBits - 1 - r) = i
    BY <1>1, <2>1 DEF IndexAt
  <2>4. QED
    BY <1>2, <2>2, <2>3

\* IndexAt and get_index, the other way round.
LEMMA AtIndex ==
  ASSUME NEW w \in Nat \ {0}, NEW p \in Positions
  PROVE  /\ IndexAt(w, p) \in Nat
         /\ get_index(IndexAt(w, p)).word = w /\ get_index(IndexAt(w, p)).index = p
<1> DEFINE q == w - 1
           r == WordBits - 1 - p
<1>1. q \in Nat /\ r \in 0..(WordBits - 1) /\ IndexAt(w, p) = WordBits * q + r
  BY Bits DEF Positions, IndexAt
<1>2. q + 1 = w /\ WordBits - 1 - r = p
  BY Bits DEF Positions
<1> HIDE DEF q, r
<1>3. /\ IndexAt(w, p) \in Nat /\ IndexAt(w, p) \div WordBits = q
      /\ IndexAt(w, p) % WordBits = r
  BY <1>1, Bits, Joined
<1>4. QED
  BY <1>2, <1>3 DEF get_index

\* The words are as many as the indices need.
LEMMA WordsCover ==
  ASSUME length \in Nat \ {0}
  PROVE  /\ words_length(length) \in Nat \ {0} /\ Words \subseteq Nat \ {0}
         /\ WordBits * (words_length(length) - 1) < length
         /\ length <= WordBits * words_length(length)
         /\ \A i \in Indices : get_index(i).word \in Words
<1> DEFINE n == words_length(length)
<1>1. /\ n \in Nat \ {0} /\ WordBits * (n - 1) < length /\ length <= WordBits * n
      /\ \A i \in Nat : i < length => i \div WordBits < n
  BY Bits, Ceiling DEF words_length
<1> HIDE DEF n
<1>2. ASSUME NEW i \in Indices PROVE i \div WordBits + 1 \in 1..n
  <2>1. i \in Nat /\ i < length
    BY DEF Indices
  <2>2. i \div WordBits \in Nat /\ i \div WordBits < n
    BY <1>1, <2>1, Bits, Split
  <2> DEFINE d == i \div WordBits
  <2> HIDE DEF d
  <2>3. d \in Nat /\ d < n
    BY <2>2 DEF d
  <2>4. d + 1 \in 1..n
    BY <1>1, <2>3
  <2>5. QED
    BY <2>4 DEF d
<1>3. QED
  BY <1>1, <1>2 DEF n, Words, get_index

\* A field and its members determine each other.
LEMMA FieldMembers ==
  ASSUME length \in Nat \ {0}, NEW f, IsField(f), NEW w \in Words, NEW p \in Positions
  PROVE  p \in f[w] <=> IndexAt(w, p) \in MembersOf(f)
<1>1. w \in Nat \ {0}
  BY WordsCover
<1>2. /\ IndexAt(w, p) \in Nat
      /\ get_index(IndexAt(w, p)).word = w /\ get_index(IndexAt(w, p)).index = p
  BY <1>1, AtIndex
<1>3. p \in f[w] => IndexAt(w, p) \in Indices
  BY <1>2 DEF IsField, Indices
<1>4. QED
  BY <1>2, <1>3 DEF MembersOf

\* Words that agree with a set of indices bit by bit are a field with these members.
LEMMA FieldBy ==
  ASSUME length \in Nat \ {0}, NEW f \in [Words -> SUBSET Positions], NEW M \in SUBSET Indices,
         \A w \in Words : \A p \in Positions : p \in f[w] <=> IndexAt(w, p) \in M
  PROVE  IsField(f) /\ MembersOf(f) = M
<1>1. IsField(f)
  <2>1. ASSUME NEW w \in Words, NEW p \in f[w] PROVE IndexAt(w, p) < length
    <3>1. IndexAt(w, p) \in M
      BY <2>1
    <3>2. IndexAt(w, p) \in Indices
      BY <3>1
    <3>3. QED
      BY <3>2 DEF Indices
  <2>2. QED
    BY <2>1 DEF IsField
<1>2. ASSUME NEW i \in Indices PROVE get_index(i).index \in f[get_index(i).word] <=> i \in M
  <2>1. i \in Nat
    BY DEF Indices
  <2>2. /\ get_index(i).word \in Words /\ get_index(i).index \in Positions
        /\ IndexAt(get_index(i).word, get_index(i).index) = i
    BY <2>1, Located, WordsCover
  <2>3. QED
    BY <2>2
<1>3. QED
  BY <1>1, <1>2 DEF MembersOf
------------------------------------------------------------------------------
(* The set operations.                                                     *)

\* The bitset is well formed and has a word.
Sound == length \in Lengths \ {0} /\ IsField(bitfield)

\* What a sound bitset offers: the bits are exactly the members.
LEMMA SoundFacts ==
  ASSUME Sound
  PROVE  /\ length \in Nat \ {0} /\ bitfield \in [Words -> SUBSET Positions]
         /\ Members = MembersOf(bitfield) /\ Members \subseteq Indices
         /\ \A w \in Words : \A p \in Positions :
              p \in bitfield[w] <=> IndexAt(w, p) \in Members
<1>1. length \in Nat \ {0}
  BY BitsAssumption DEF Sound
<1>2. Members = MembersOf(bitfield) /\ Members \subseteq Indices
  BY <1>1 DEF Members, MembersOf, test, Indices
<1>3. QED
  BY <1>1, <1>2, FieldMembers DEF Sound, IsField

\* An index is at one position of one word.
LEMMA OnePlace ==
  ASSUME NEW i \in Nat, NEW w \in Nat \ {0}, NEW p \in Positions
  PROVE  (w = get_index(i).word /\ p = get_index(i).index) <=> IndexAt(w, p) = i
BY Located, AtIndex

\* set(i) adds i if it is in range.
LEMMA SetInserts ==
  ASSUME Sound, NEW i \in Nat
  PROVE  IsField(set(i)) /\ MembersOf(set(i)) = Members \cup ({i} \cap Indices)
<1>1. CASE i >= length
  BY <1>1, SoundFacts DEF Sound, set, Indices
<1>2. CASE i < length
  <2> DEFINE a == get_index(i).word
             b == get_index(i).index
             M == Members \cup ({i} \cap Indices)
  <2>1. i \in Indices /\ M = Members \cup {i} /\ M \in SUBSET Indices
    BY <1>2, SoundFacts DEF Indices
  <2>2. a \in Words /\ b \in Positions
    BY <2>1, SoundFacts, WordsCover, Located
  <2>3. set(i) = [bitfield EXCEPT ![a] = @ \cup {b}]
    BY <1>2, SoundFacts DEF set
  <2>4. ASSUME NEW w \in Words, NEW p \in Positions
        PROVE  p \in set(i)[w] <=> IndexAt(w, p) \in M
    <3>1. w \in Nat \ {0} /\ (w = a /\ p = b <=> IndexAt(w, p) = i)
      BY SoundFacts, WordsCover, OnePlace
    <3>2. p \in set(i)[w] <=> p \in bitfield[w] \/ (w = a /\ p = b)
      <4> HIDE DEF a, b
      <4>1. QED
        BY <2>2, <2>3, SoundFacts
    <3>3. QED
      BY <2>1, <3>1, <3>2, SoundFacts
  <2>5. set(i) \in [Words -> SUBSET Positions]
    <3> HIDE DEF a, b
    <3>1. QED
      BY <2>2, <2>3, SoundFacts
  <2>6. QED
    BY <2>1, <2>4, <2>5, SoundFacts, FieldBy
<1>3. QED
  BY <1>1, <1>2, SoundFacts

\* reset(i) removes i.
LEMMA ResetRemoves ==
  ASSUME Sound, NEW i \in Nat
  PROVE  IsField(reset(i)) /\ MembersOf(reset(i)) = Members \ {i}
<1>1. CASE i >= length
  BY <1>1, SoundFacts DEF Sound, reset, Indices
<1>2. CASE i < length
  <2> DEFINE a == get_index(i).word
             b == get_index(i).index
             M == Members \ {i}
  <2>1. i \in Indices /\ M \in SUBSET Indices
    BY <1>2, SoundFacts DEF Indices
  <2>2. a \in Words /\ b \in Positions
    BY <2>1, SoundFacts, WordsCover, Located
  <2>3. reset(i) = [bitfield EXCEPT ![a] = @ \ {b}]
    BY <1>2, SoundFacts DEF reset
  <2>4. ASSUME NEW w \in Words, NEW p \in Positions
        PROVE  p \in reset(i)[w] <=> IndexAt(w, p) \in M
    <3>1. w \in Nat \ {0} /\ (w = a /\ p = b <=> IndexAt(w, p) = i)
      BY SoundFacts, WordsCover, OnePlace
    <3>2. p \in reset(i)[w] <=> p \in bitfield[w] /\ ~(w = a /\ p = b)
      <4> HIDE DEF a, b
      <4>1. QED
        BY <2>2, <2>3, SoundFacts
    <3>3. QED
      BY <2>1, <3>1, <3>2, SoundFacts
  <2>5. reset(i) \in [Words -> SUBSET Positions]
    <3> HIDE DEF a, b
    <3>1. QED
      BY <2>2, <2>3, SoundFacts
  <2>6. QED
    BY <2>1, <2>4, <2>5, SoundFacts, FieldBy
<1>3. QED
  BY <1>1, <1>2, SoundFacts

\* clear leaves no member.
LEMMA ClearEmpties ==
  ASSUME Sound
  PROVE  IsField(clear) /\ MembersOf(clear) = {}
<1>1. clear \in [Words -> SUBSET Positions] /\ \A w \in Words : clear[w] = {}
  BY SoundFacts DEF clear
<1>2. {} \in SUBSET Indices
  OBVIOUS
<1>3. QED
  BY <1>1, <1>2, SoundFacts, FieldBy

\* The words of another bitset of the same length.
LEMMA OtherField ==
  ASSUME Sound, NEW other \in SUBSET Indices
  PROVE  /\ FieldOf(other) \in [Words -> SUBSET Positions]
         /\ \A w \in Words : \A p \in Positions :
              p \in FieldOf(other)[w] <=> IndexAt(w, p) \in other
<1>1. \A j \in other : j \in Nat /\ get_index(j).index \in Positions
  BY Located DEF Indices
<1>2. FieldOf(other) \in [Words -> SUBSET Positions]
  BY <1>1 DEF FieldOf, Words
<1>3. ASSUME NEW w \in Words, NEW p \in Positions
      PROVE  p \in FieldOf(other)[w] <=> IndexAt(w, p) \in other
  <2>1. w \in Nat \ {0}
    BY SoundFacts, WordsCover
  <2>2. FieldOf(other)[w] = {get_index(i).index : i \in {j \in other : get_index(j).word = w}}
    BY DEF FieldOf, Words
  <2>3. p \in FieldOf(other)[w] <=>
          \E j \in other : get_index(j).word = w /\ get_index(j).index = p
    BY <2>2
  <2>4. \A j \in other : (w = get_index(j).word /\ p = get_index(j).index) <=> IndexAt(w, p) = j
    BY <1>1, <2>1, OnePlace
  <2>5. QED
    BY <2>3, <2>4
<1>4. QED
  BY <1>2, <1>3

\* |= is the union.
LEMMA OrUnites ==
  ASSUME Sound, NEW other \in SUBSET Indices
  PROVE  /\ IsField(OrAssign(FieldOf(other)))
         /\ MembersOf(OrAssign(FieldOf(other))) = Members \cup other
<1> DEFINE f == OrAssign(FieldOf(other))
           M == Members \cup other
<1>1. f \in [Words -> SUBSET Positions]
      /\ \A w \in Words : f[w] = bitfield[w] \cup FieldOf(other)[w]
  BY SoundFacts, OtherField DEF OrAssign
<1>2. M \in SUBSET Indices
  BY SoundFacts
<1> HIDE DEF f
<1>3. \A w \in Words : \A p \in Positions : p \in f[w] <=> IndexAt(w, p) \in M
  BY <1>1, SoundFacts, OtherField
<1>4. IsField(f) /\ MembersOf(f) = M
  BY <1>1, <1>2, <1>3, SoundFacts, FieldBy
<1>5. QED
  BY <1>4 DEF f

\* &= is the intersection.
LEMMA AndMeets ==
  ASSUME Sound, NEW other \in SUBSET Indices
  PROVE  /\ IsField(AndAssign(FieldOf(other)))
         /\ MembersOf(AndAssign(FieldOf(other))) = Members \cap other
<1> DEFINE f == AndAssign(FieldOf(other))
           M == Members \cap other
<1>1. f \in [Words -> SUBSET Positions]
      /\ \A w \in Words : f[w] = bitfield[w] \cap FieldOf(other)[w]
  BY SoundFacts, OtherField DEF AndAssign
<1>2. M \in SUBSET Indices
  BY SoundFacts
<1> HIDE DEF f
<1>3. \A w \in Words : \A p \in Positions : p \in f[w] <=> IndexAt(w, p) \in M
  BY <1>1, SoundFacts, OtherField
<1>4. IsField(f) /\ MembersOf(f) = M
  BY <1>1, <1>2, <1>3, SoundFacts, FieldBy
<1>5. QED
  BY <1>4 DEF f
------------------------------------------------------------------------------
(* The payload: bytes and what they say of an index.                       *)

\* The positions of a byte.
BytePositions == 0..(ByteBits - 1)

\* The bit of an index is 1 in these bytes.
Says(bytes, i) == ByteBits - 1 - (i % ByteBits) \in bytes[(i \div ByteBits) + 1]

\* The byte a position of a word is in, and where in it.
LEMMA ByteOfPosition ==
  ASSUME NEW w \in Nat \ {0}, NEW p \in Positions
  PROVE  LET i == IndexAt(w, p) IN
         /\ p \div ByteBits \in 0..(BytesPerWord - 1) /\ p % ByteBits \in BytePositions
         /\ p = ByteBits * (p \div ByteBits) + (p % ByteBits)
         /\ i \div ByteBits = BytesPerWord * (w - 1) + (BytesPerWord - 1 - (p \div ByteBits))
         /\ i % ByteBits = ByteBits - 1 - (p % ByteBits)
<1> DEFINE B == ByteBits
           R == BytesPerWord
           a == p \div B
           b == p % B
           v == w - 1
<1>1. /\ B \in Nat \ {0} /\ R \in Nat \ {0} /\ WordBits = B * R /\ v \in Nat
      /\ p \in 0..(B * R - 1)
  BY Bits DEF Positions
<1>2. a \in Nat /\ b \in 0..(B - 1) /\ p = B * a + b
  <2>1. p \in Nat
    BY <1>1
  <2>2. QED
    BY <1>1, <2>1, Split
<1>3. IndexAt(w, p) = (B * R) * v + (B * R - 1 - p)
  BY <1>1 DEF IndexAt
<1> HIDE DEF B, R, a, b, v
<1>4. a < R
  <2>1. B * a < B * R
    <3>1. B * a \in Nat /\ B * R \in Nat
      BY <1>1, <1>2
    <3>2. QED
      BY <1>1, <1>2, <3>1
  <2>2. QED
    BY <1>1, <1>2, <2>1, Times
<1> DEFINE q == R * v + (R - 1 - a)
           r == B - 1 - b
<1>5. q \in Nat /\ r \in 0..(B - 1)
  <2>1. R * v \in Nat
    BY <1>1
  <2>2. QED
    BY <1>1, <1>2, <1>4, <2>1
<1>6. IndexAt(w, p) = B * q + r
  <2>1. B * q = B * (R * v) + B * (R - 1 - a)
    BY <1>1, <1>2
  <2>2. B * (R * v) = (B * R) * v
    BY <1>1
  <2>3. B * (R - 1 - a) = B * R - B - B * a
    BY <1>1, <1>2
  <2>4. B * a \in Int /\ B * R \in Int /\ (B * R) * v \in Int
    BY <1>1, <1>2
  <2> HIDE DEF q
  <2>5. QED
    BY <1>1, <1>2, <1>3, <2>1, <2>2, <2>3, <2>4
<1> HIDE DEF q, r
<1>7. IndexAt(w, p) \div B = q /\ IndexAt(w, p) % B = r
  BY <1>1, <1>5, <1>6, Joined
<1>8. a \in 0..(R - 1)
  BY <1>1, <1>2, <1>4
<1>9. QED
  BY <1>2, <1>7, <1>8 DEF B, R, a, b, v, q, r, BytePositions

\* What is in a byte that is shifted to its place.
LEMMA InShifted ==
  ASSUME NEW byte \in SUBSET BytePositions, NEW c \in 0..(BytesPerWord - 1), NEW p \in Positions
  PROVE  p \in Shifted(byte, c) <=> p \div ByteBits = c /\ p % ByteBits \in byte
<1> DEFINE B == ByteBits
           a == p \div B
           b == p % B
<1>1. B \in Nat \ {0} /\ c \in Nat /\ BytesPerWord \in Nat
  BY Bits
<1>2. a \in Nat /\ b \in 0..(B - 1) /\ p = B * a + b
  <2>1. p \in Nat
    BY Bits DEF Positions
  <2>2. QED
    BY <1>1, <2>1, Split
<1>3. \A i \in byte : i \in 0..(B - 1) /\ B * c + i = i + B * c
  <2>1. B * c \in Nat
    BY <1>1
  <2>2. QED
    BY <1>1, <2>1 DEF BytePositions
<1>4. Shifted(byte, c) = {i + B * c : i \in byte}
  BY DEF Shifted
<1> HIDE DEF B
<1>5. ASSUME NEW i \in byte, p = i + B * c PROVE a = c /\ b = i
  <2>1. (B * c + i) \div B = c /\ (B * c + i) % B = i
    BY <1>1, <1>3, Joined
  <2>2. QED
    BY <1>3, <1>5, <2>1
<1>6. ASSUME a = c, b \in byte PROVE p = b + B * c
  <2> HIDE DEF a, b
  <2>1. QED
    BY <1>1, <1>2, <1>3, <1>6
<1> HIDE DEF a, b
<1>7. QED
  BY <1>4, <1>5, <1>6 DEF a, b, B

\* The words shifted into stay words.
LEMMA ShiftedInside ==
  ASSUME NEW byte \in SUBSET BytePositions, NEW c \in 0..(BytesPerWord - 1)
  PROVE  Shifted(byte, c) \in SUBSET Positions
<1> DEFINE B == ByteBits
           R == BytesPerWord
<1>1. B \in Nat \ {0} /\ R \in Nat \ {0} /\ WordBits = B * R /\ c \in 0..(R - 1)
  BY Bits
<1> HIDE DEF B, R
<1>2. ASSUME NEW i \in byte PROVE i + B * c \in 0..(WordBits - 1)
  <2>1. i \in 0..(B - 1)
    BY DEF BytePositions, B
  <2>2. B * c \in Nat /\ B * c + B <= B * R
    BY <1>1, Times
  <2>3. B * R \in Nat
    BY <1>1
  <2>4. QED
    BY <1>1, <2>1, <2>2, <2>3
<1>3. QED
  BY <1>2 DEF Shifted, Positions, B
------------------------------------------------------------------------------
(* decode_as_payload.                                                      *)

\* The states of its loop.
DecodeStates ==
  [bitfield : [Words -> SUBSET Positions], word_offset : Nat \ {0},
   byte_offset : 0..(BytesPerWord - 1)]

\* A byte of the loop keeps its state well formed.
LEMMA DecodeTyped ==
  ASSUME NEW s \in DecodeStates, NEW byte \in SUBSET BytePositions
  PROVE  DecodeByte(s, byte) \in DecodeStates
<1> DEFINE f == [s.bitfield EXCEPT ![s.word_offset] = @ \cup Shifted(byte, s.byte_offset)]
           a == IF s.byte_offset = 0 THEN s.word_offset + 1 ELSE s.word_offset
           b == IF s.byte_offset = 0 THEN BytesPerWord - 1 ELSE s.byte_offset - 1
<1>1. /\ s.bitfield \in [Words -> SUBSET Positions] /\ s.word_offset \in Nat \ {0}
      /\ s.byte_offset \in 0..(BytesPerWord - 1)
  BY DEF DecodeStates
<1>2. Shifted(byte, s.byte_offset) \in SUBSET Positions
  BY <1>1, ShiftedInside
<1>3. f \in [Words -> SUBSET Positions]
  BY <1>1, <1>2
<1>4. a \in Nat \ {0} /\ b \in 0..(BytesPerWord - 1)
  BY <1>1, Bits
<1>5. DecodeByte(s, byte) = [bitfield |-> f, word_offset |-> a, byte_offset |-> b]
  BY DEF DecodeByte
<1> HIDE DEF f, a, b
<1>6. QED
  BY <1>3, <1>4, <1>5 DEF DecodeStates

\* The loop, byte by byte.
LEMMA DecodeRuns ==
  ASSUME NEW base \in DecodeStates, NEW bytes \in Seq(SUBSET BytePositions)
  PROVE  \E g \in [0..Len(bytes) -> DecodeStates] :
           /\ g[0] = base /\ FoldLeft(DecodeByte, base, bytes) = g[Len(bytes)]
           /\ \A k \in 1..Len(bytes) : g[k] = DecodeByte(g[k - 1], bytes[k])
<1> DEFINE n == Len(bytes)
           T == DecodeStates
           step == [x \in (1..n) \X T |-> DecodeByte(x[2], bytes[x[1]])]
           Fixed(f) ==
             f = [s \in SUBSET DOMAIN bytes |->
                   IF s = {} THEN base
                   ELSE LET x == Max(s) IN DecodeByte(f[s \ {x}], bytes[x])]
           iter == CHOOSE f : Fixed(f)
<1>1. n \in Nat /\ DOMAIN bytes = 1..n /\ \A k \in 1..n : bytes[k] \in SUBSET BytePositions
  OBVIOUS
<1>2. step \in [(1..n) \X T -> T]
  BY <1>1, DecodeTyped
<1>3. PICK f \in [SUBSET (1..n) -> T] : FoldOver(base, step, n, f)
  <2> HIDE DEF step, n, T
  <2>1. base \in T
    BY DEF T
  <2>2. QED
    BY <1>1, <1>2, <2>1, FoldExists
<1>4. FoldLeft(DecodeByte, base, bytes) = iter[DOMAIN bytes]
  BY DEF FoldLeft, MapThenFoldSet
<1> HIDE DEF n, T
<1>5. Fixed(f)
  <2>1. f = [s \in SUBSET (1..n) |->
              IF s = {} THEN base ELSE step[<<Max(s), f[s \ {Max(s)}]>>]]
    BY <1>3 DEF FoldOver
  <2>2. ASSUME NEW s \in SUBSET (1..n), s # {}
        PROVE  step[<<Max(s), f[s \ {Max(s)}]>>] = DecodeByte(f[s \ {Max(s)}], bytes[Max(s)])
    <3>1. Max(s) \in s
      BY <1>1, <2>2, MaxInside
    <3>2. <<Max(s), f[s \ {Max(s)}]>> \in (1..n) \X T
      BY <3>1
    <3>3. QED
      BY <3>2
  <2> HIDE DEF step
  <2>3. QED
    BY <1>1, <2>1, <2>2
<1>6. Fixed(iter)
  <2> HIDE DEF Fixed
  <2>1. QED
    BY <1>5, Zenon
<1> HIDE DEF iter
<1>7. iter[{}] = base
  BY <1>6
<1>8. ASSUME NEW k \in 1..n, iter[1..(k - 1)] \in T
      PROVE  iter[1..k] = step[<<k, iter[1..(k - 1)]>>]
  <2>1. Max(1..k) = k /\ (1..k) \ {k} = 1..(k - 1) /\ 1..k # {} /\ 1..k \in SUBSET (1..n)
    BY <1>1, PrefixMax
  <2>2. iter[1..k] = DecodeByte(iter[(1..k) \ {Max(1..k)}], bytes[Max(1..k)])
    BY <1>1, <1>6, <2>1
  <2>3. <<k, iter[1..(k - 1)]>> \in (1..n) \X T
    BY <1>8
  <2>4. QED
    BY <2>1, <2>2, <2>3
<1>9. PICK g : RunOfFold(base, step, n, T, iter[1..n], g)
  <2>1. base \in T /\ n \in Nat
    BY <1>1 DEF T
  <2>2. FoldsAlong(base, step, n, T, iter)
    <3> HIDE DEF step
    <3>1. QED
      BY <1>7, <1>8 DEF FoldsAlong
  <2> HIDE DEF step
  <2>3. QED
    BY <1>2, <2>1, <2>2, FoldRuns
<1>10. g \in [0..n -> T] /\ \A k \in 1..n : g[k] = DecodeByte(g[k - 1], bytes[k])
  <2>1. g \in [0..n -> T] /\ \A k \in 1..n : g[k] = step[<<k, g[k - 1]>>]
    <3> HIDE DEF step
    <3>1. QED
      BY <1>9 DEF RunOfFold
  <2>2. ASSUME NEW k \in 1..n PROVE <<k, g[k - 1]>> \in (1..n) \X T
    BY <1>1, <2>1
  <2>3. QED
    BY <2>1, <2>2
<1> HIDE DEF step
<1>11. QED
  BY <1>1, <1>4, <1>9, <1>10 DEF n, T, RunOfFold

\* The place of the k-th byte, from 0.
Reached(s, k) ==
  /\ s.word_offset = (k \div BytesPerWord) + 1
  /\ s.byte_offset = BytesPerWord - 1 - (k % BytesPerWord)

\* Each byte moves the place on by one, over the end of a word too.
LEMMA ReachedNext ==
  ASSUME NEW s \in DecodeStates, NEW k \in Nat, Reached(s, k), NEW byte
  PROVE  Reached(DecodeByte(s, byte), k + 1)
<1> DEFINE R == BytesPerWord
           q == k \div R
           r == k % R
<1>1. R \in Nat \ {0} /\ q \in Nat /\ r \in 0..(R - 1) /\ k = R * q + r
  BY Bits, Split
<1>2. s.word_offset = q + 1 /\ s.byte_offset = R - 1 - r
  BY DEF Reached
<1>3. /\ DecodeByte(s, byte).word_offset =
           IF s.byte_offset = 0 THEN s.word_offset + 1 ELSE s.word_offset
      /\ DecodeByte(s, byte).byte_offset = IF s.byte_offset = 0 THEN R - 1 ELSE s.byte_offset - 1
  BY DEF DecodeByte
<1> HIDE DEF q, r, R
<1>4. CASE r = R - 1
  <2>1. k + 1 = R * (q + 1) + 0
    BY <1>1, <1>4
  <2>2. (k + 1) \div R = q + 1 /\ (k + 1) % R = 0
    <3>1. q + 1 \in Nat /\ 0 \in 0..(R - 1)
      BY <1>1
    <3>2. (R * (q + 1) + 0) \div R = q + 1 /\ (R * (q + 1) + 0) % R = 0
      BY <1>1, <3>1, Joined
    <3>3. QED
      BY <2>1, <3>2, Zenon
  <2>3. QED
    BY <1>1, <1>2, <1>3, <1>4, <2>2 DEF Reached, R
<1>5. CASE r # R - 1
  <2>1. k + 1 = R * q + (r + 1) /\ r + 1 \in 0..(R - 1)
    BY <1>1, <1>5
  <2>2. (k + 1) \div R = q /\ (k + 1) % R = r + 1
    <3>1. (R * q + (r + 1)) \div R = q /\ (R * q + (r + 1)) % R = r + 1
      BY <1>1, <2>1, Joined
    <3>2. QED
      BY <2>1, <3>1, Zenon
  <2>3. QED
    BY <1>1, <1>2, <1>3, <1>5, <2>2 DEF Reached, R
<1>6. QED
  BY <1>4, <1>5

\* One byte sets the bits it says, and no others.
LEMMA DecodeStep ==
  ASSUME length \in Nat \ {0}, NEW s \in DecodeStates, NEW k \in Nat, Reached(s, k),
         NEW byte \in SUBSET BytePositions, NEW w \in Words, NEW p \in Positions
  PROVE  LET i == IndexAt(w, p) IN
         p \in DecodeByte(s, byte).bitfield[w] <=>
           \/ p \in s.bitfield[w]
           \/ i \div ByteBits = k /\ ByteBits - 1 - (i % ByteBits) \in byte
<1> DEFINE R == BytesPerWord
           i == IndexAt(w, p)
           a == p \div ByteBits
           b == p % ByteBits
           q == k \div R
           r == k % R
<1>1. R \in Nat \ {0} /\ q \in Nat /\ r \in 0..(R - 1) /\ k = R * q + r /\ w \in Nat \ {0}
  BY Bits, Split, WordsCover
<1>2. /\ a \in 0..(R - 1) /\ b \in BytePositions
      /\ i \div ByteBits = R * (w - 1) + (R - 1 - a)
      /\ i % ByteBits = ByteBits - 1 - b
  BY <1>1, ByteOfPosition
<1>3. ByteBits - 1 - (i % ByteBits) = b
  BY <1>2, Bits DEF BytePositions
<1>4. /\ s.bitfield \in [Words -> SUBSET Positions] /\ s.byte_offset \in 0..(R - 1)
      /\ s.word_offset = q + 1 /\ s.byte_offset = R - 1 - r
  BY DEF DecodeStates, Reached
<1>5. p \in Shifted(byte, s.byte_offset) <=> a = s.byte_offset /\ b \in byte
  BY <1>4, InShifted
<1>6. p \in DecodeByte(s, byte).bitfield[w] <=>
        p \in s.bitfield[w] \/ (w = s.word_offset /\ p \in Shifted(byte, s.byte_offset))
  <2> DEFINE x == Shifted(byte, s.byte_offset)
  <2> HIDE DEF x
  <2>1. DecodeByte(s, byte).bitfield = [s.bitfield EXCEPT ![s.word_offset] = @ \cup x]
    BY DEF DecodeByte, x
  <2>2. QED
    BY <1>4, <2>1 DEF x
<1>7. i \div ByteBits = k <=> w = q + 1 /\ a = R - 1 - r
  <2> DEFINE v == w - 1
             c == R - 1 - a
  <2>1. v \in Nat /\ c \in 0..(R - 1) /\ (w = q + 1 <=> v = q) /\ (a = R - 1 - r <=> c = r)
    BY <1>1, <1>2
  <2>2. i \div ByteBits = R * v + c
    BY <1>2
  <2> HIDE DEF v, c, q, r, R
  <2>3. (R * v + c) \div R = v /\ (R * v + c) % R = c
    BY <1>1, <2>1, Joined
  <2>4. i \div ByteBits = k => v = q /\ c = r
    BY <2>2, <2>3 DEF q, r
  <2>5. v = q /\ c = r => i \div ByteBits = k
    BY <1>1, <2>2
  <2>6. QED
    BY <2>1, <2>4, <2>5
<1> HIDE DEF R, i, a, b, q, r
<1>8. QED
  BY <1>3, <1>4, <1>5, <1>6, <1>7 DEF i

\* The loop as a whole.
LEMMA DecodedForm ==
  ASSUME Sound, NEW bytes \in Seq(SUBSET BytePositions)
  PROVE  LET f == DecodedInto(bitfield, bytes) IN
         /\ f \in [Words -> SUBSET Positions]
         /\ \A w \in Words : \A p \in Positions :
              p \in f[w] <=>
                \/ p \in bitfield[w]
                \/ IndexAt(w, p) \div ByteBits < Len(bytes) /\ Says(bytes, IndexAt(w, p))
<1> DEFINE base == [bitfield |-> bitfield, word_offset |-> 1, byte_offset |-> BytesPerWord - 1]
           n == Len(bytes)
<1>1. n \in Nat /\ \A k \in 1..n : bytes[k] \in SUBSET BytePositions
  OBVIOUS
<1>2. base \in DecodeStates
  BY SoundFacts, Bits DEF DecodeStates
<1>3. DecodedInto(bitfield, bytes) = FoldLeft(DecodeByte, base, bytes).bitfield
  BY DEF DecodedInto
<1>4. Reached(base, 0)
  <2>1. 0 = BytesPerWord * 0 + 0
    BY Bits
  <2>2. (BytesPerWord * 0 + 0) \div BytesPerWord = 0 /\ (BytesPerWord * 0 + 0) % BytesPerWord = 0
    <3>1. 0 \in Nat /\ 0 \in 0..(BytesPerWord - 1)
      BY Bits
    <3>2. QED
      BY <3>1, Bits, Joined
  <2>3. 0 \div BytesPerWord = 0 /\ 0 % BytesPerWord = 0
    BY <2>1, <2>2, Zenon
  <2>4. QED
    BY <2>3, Bits DEF Reached
<1>5. base.bitfield = bitfield
  OBVIOUS
<1> HIDE DEF base
<1>6. PICK g \in [0..n -> DecodeStates] :
        /\ g[0] = base /\ FoldLeft(DecodeByte, base, bytes) = g[n]
        /\ \A k \in 1..n : g[k] = DecodeByte(g[k - 1], bytes[k])
  BY <1>2, DecodeRuns
<1> DEFINE Form(k) ==
      \A w \in Words : \A p \in Positions :
        p \in g[k].bitfield[w] <=>
          \/ p \in bitfield[w]
          \/ IndexAt(w, p) \div ByteBits < k /\ Says(bytes, IndexAt(w, p))
    P == {k \in 0..n : Reached(g[k], k) /\ Form(k)}
<1>7. \A w \in Words : \A p \in Positions : IndexAt(w, p) \div ByteBits \in Nat
  <2> SUFFICES ASSUME NEW w \in Words, NEW p \in Positions
               PROVE  IndexAt(w, p) \div ByteBits \in Nat
    OBVIOUS
  <2>1. w \in Nat \ {0}
    BY SoundFacts, WordsCover
  <2>2. IndexAt(w, p) \in Nat
    BY <2>1, AtIndex
  <2>3. QED
    BY <2>2, Bits, Split
<1>8. 0 \in P
  <2>1. Form(0)
    <3>1. \A w \in Words : \A p \in Positions : ~(IndexAt(w, p) \div ByteBits < 0)
      BY <1>7
    <3>2. QED
      BY <1>5, <1>6, <3>1
  <2>2. QED
    BY <1>1, <1>4, <1>6, <2>1
<1>9. ASSUME NEW k \in 1..n, k - 1 \in P PROVE k \in P
  <2> DEFINE j == k - 1
             t == g[j]
  <2>1. /\ j \in Nat /\ j \in 0..n /\ k = j + 1 /\ t \in DecodeStates
        /\ Reached(t, j) /\ Form(j) /\ bytes[k] \in SUBSET BytePositions
        /\ g[k] = DecodeByte(t, bytes[k])
    BY <1>1, <1>6, <1>9
  <2> HIDE DEF j, t
  <2>2. Reached(g[k], k)
    BY <2>1, ReachedNext
  <2>3. ASSUME NEW w \in Words, NEW p \in Positions
        PROVE  p \in g[k].bitfield[w] <=>
                 \/ p \in bitfield[w]
                 \/ IndexAt(w, p) \div ByteBits < k /\ Says(bytes, IndexAt(w, p))
    <3> DEFINE i == IndexAt(w, p)
               d == i \div ByteBits
               e == ByteBits - 1 - (i % ByteBits)
    <3>1. p \in g[k].bitfield[w] <=> p \in t.bitfield[w] \/ (d = j /\ e \in bytes[k])
      <4>1. length \in Nat \ {0}
        BY SoundFacts
      <4>2. p \in DecodeByte(t, bytes[k]).bitfield[w] <=>
              p \in t.bitfield[w] \/ (d = j /\ e \in bytes[k])
        BY <2>1, <4>1, DecodeStep
      <4>3. QED
        BY <2>1, <4>2
    <3>2. p \in t.bitfield[w] <=> p \in bitfield[w] \/ (d < j /\ Says(bytes, i))
      BY <2>1 DEF t
    <3>3. Says(bytes, i) <=> e \in bytes[d + 1]
      BY DEF Says
    <3>4. d \in Nat
      BY <1>7
    <3> HIDE DEF d, e, i
    <3>5. (d = j /\ e \in bytes[k]) <=> (d = j /\ Says(bytes, i))
      BY <2>1, <3>3
    <3>6. (d < k) <=> (d < j \/ d = j)
      BY <2>1, <3>4
    <3>7. p \in g[k].bitfield[w] <=> p \in bitfield[w] \/ (d < k /\ Says(bytes, i))
      BY <3>1, <3>2, <3>5, <3>6
    <3>8. QED
      BY <3>7 DEF d, i
  <2>4. QED
    BY <1>1, <2>2, <2>3
<1>10. P = 0..n
  <2>1. P \subseteq 0..n
    OBVIOUS
  <2> HIDE DEF P, n
  <2>2. QED
    BY <1>1, <1>8, <1>9, <2>1, UpTo
<1>11. n \in P
  <2> HIDE DEF P, n
  <2>1. QED
    BY <1>1, <1>10
<1>12. DecodedInto(bitfield, bytes) = g[n].bitfield
  BY <1>3, <1>6
<1>13. g[n].bitfield \in [Words -> SUBSET Positions]
  BY <1>1, <1>6 DEF DecodeStates
<1>14. QED
  BY <1>11, <1>12, <1>13

\* Bits of the last byte beyond the length are its low ones.
LEMMA SpareBits ==
  ASSUME length \in Nat \ {0}, NEW i \in Nat, i >= length,
         i \div ByteBits < bytes_length(length)
  PROVE  /\ length % ByteBits # 0 /\ (i \div ByteBits) + 1 = bytes_length(length)
         /\ ByteBits - 1 - (i % ByteBits) \in 0..(ByteBits - (length % ByteBits) - 1)
<1> DEFINE B == ByteBits
           q == length \div B
           r == length % B
           a == i \div B
           b == i % B
<1>1. /\ B \in Nat \ {0}
      /\ q \in Nat /\ r \in 0..(B - 1) /\ length = B * q + r
      /\ a \in Nat /\ b \in 0..(B - 1) /\ i = B * a + b
  BY Bits, Split
<1>2. bytes_length(length) = q + (IF r # 0 THEN 1 ELSE 0)
  BY DEF bytes_length
<1>3. a < bytes_length(length)
  OBVIOUS
<1> HIDE DEF B, q, r, a, b
<1>4. ~(a < q)
  <2> SUFFICES ASSUME a < q PROVE FALSE
    OBVIOUS
  <2>1. B * a + B <= B * q /\ B * a \in Nat /\ B * q \in Nat
    BY <1>1, Times
  <2>2. QED
    BY <1>1, <2>1
<1>5. r # 0 /\ a = q
  BY <1>1, <1>2, <1>3, <1>4
<1>6. b >= r
  <2>1. B * q \in Nat
    BY <1>1
  <2>2. QED
    BY <1>1, <1>5, <2>1
<1>7. B - 1 - b \in 0..(B - r - 1) /\ a + 1 = bytes_length(length)
  BY <1>1, <1>2, <1>5, <1>6
<1>8. QED
  BY <1>5, <1>7 DEF B, q, r, a, b

\* The bytes hold every index.
LEMMA BytesCover ==
  ASSUME length \in Nat \ {0}
  PROVE  /\ bytes_length(length) \in Nat \ {0}
         /\ \A i \in Indices : i \in Nat /\ i \div ByteBits < bytes_length(length)
<1>1. /\ bytes_length(length) \in Nat \ {0}
      /\ \A i \in Nat : i < length => i \div ByteBits < bytes_length(length)
  BY Bits, Ceiling DEF bytes_length
<1>2. QED
  BY <1>1 DEF Indices

\* decode_as_payload adds the indices the payload names, and no bit beside.
LEMMA DecodeLoads ==
  ASSUME Sound, NEW bytes \in Seq(SUBSET BytePositions), Decodable(bytes)
  PROVE  /\ Named(bytes) \in SUBSET Indices
         /\ IsField(DecodedInto(bitfield, bytes))
         /\ MembersOf(DecodedInto(bitfield, bytes)) = Members \cup Named(bytes)
<1> DEFINE f == DecodedInto(bitfield, bytes)
           M == Members \cup Named(bytes)
           n == Len(bytes)
<1>1. n = bytes_length(length) /\ length \in Nat \ {0}
  BY SoundFacts DEF Decodable
<1>2. \A i : i \in Named(bytes) <=> i \in Indices /\ Says(bytes, i)
  BY DEF Named, Says
<1>3. M \in SUBSET Indices
  BY <1>2, SoundFacts
<1>4. ASSUME NEW i \in Nat, i \div ByteBits < n, i >= length PROVE ~Says(bytes, i)
  <2>1. /\ length % ByteBits # 0 /\ (i \div ByteBits) + 1 = n
        /\ ByteBits - 1 - (i % ByteBits) \in 0..(ByteBits - (length % ByteBits) - 1)
    BY <1>1, <1>4, SpareBits
  <2>2. Last(bytes) = bytes[n]
    BY DEF Last
  <2>3. Last(bytes) \cap 0..(ByteBits - (length % ByteBits) - 1) = {}
    BY <2>1 DEF Decodable
  <2>4. Says(bytes, i) <=> ByteBits - 1 - (i % ByteBits) \in bytes[n]
    BY <2>1 DEF Says
  <2> DEFINE e == ByteBits - 1 - (i % ByteBits)
             D == 0..(ByteBits - (length % ByteBits) - 1)
  <2> HIDE DEF e, D
  <2>5. e \in D /\ Last(bytes) \cap D = {} /\ (Says(bytes, i) <=> e \in Last(bytes))
    BY <2>1, <2>2, <2>3, <2>4 DEF e, D
  <2>6. QED
    BY <2>5
<1>5. ASSUME NEW w \in Words, NEW p \in Positions
      PROVE  p \in f[w] <=> IndexAt(w, p) \in M
  <2> DEFINE i == IndexAt(w, p)
  <2>1. i \in Nat
    BY <1>1, WordsCover, AtIndex
  <2>2. p \in f[w] <=> p \in bitfield[w] \/ (i \div ByteBits < n /\ Says(bytes, i))
    BY DecodedForm
  <2>3. p \in bitfield[w] <=> i \in Members
    BY SoundFacts
  <2>4. (i \div ByteBits < n /\ Says(bytes, i)) <=> i \in Named(bytes)
    <3> HIDE DEF i
    <3>1. i \in Indices <=> i < length
      BY <1>1, <2>1 DEF Indices
    <3>2. i \in Indices => i \div ByteBits < n
      BY <1>1, BytesCover
    <3>3. i >= length /\ i \div ByteBits < n => ~Says(bytes, i)
      BY <1>4, <2>1
    <3> DEFINE near == i \div ByteBits < n
    <3> HIDE DEF near, n
    <3>4. (i \in Indices <=> i < length) /\ (i \in Indices => near)
          /\ (i >= length /\ near => ~Says(bytes, i))
      BY <3>1, <3>2, <3>3 DEF near
    <3>5. i < length \/ i >= length
      BY <1>1, <2>1
    <3>6. near /\ Says(bytes, i) <=> i \in Named(bytes)
      BY <1>2, <3>4, <3>5, Zenon
    <3>7. QED
      BY <3>6 DEF near
  <2>5. QED
    BY <2>2, <2>3, <2>4
<1>6. f \in [Words -> SUBSET Positions]
  BY DecodedForm
<1> HIDE DEF f
<1>7. IsField(f) /\ MembersOf(f) = M
  BY <1>1, <1>3, <1>5, <1>6, FieldBy
<1>8. QED
  BY <1>3, <1>7 DEF f
------------------------------------------------------------------------------
(* The detailed specification implements the set of indices.               *)

\* Every payload that is tried consists of bytes.
LEMMA PayloadsAreBytes ==
  ASSUME NEW bytes \in Payloads
  PROVE  bytes \in Seq(SUBSET BytePositions)
<1>1. PICK n \in Nat \cap (bytes_length(length) - 1)..(bytes_length(length) + 1) :
        \E bits \in SUBSET Touched[length] : bytes = BytesOf(bits, n)
  BY Zenon DEF Payloads
<1>2. PICK bits : bytes = BytesOf(bits, n)
  BY <1>1
<1>3. n \in Nat
  OBVIOUS
<1> DEFINE At(k) == {p \in 0..(ByteBits - 1) : k * ByteBits - 1 - p \in bits}
<1>4. \A k : At(k) \in SUBSET BytePositions
  BY DEF BytePositions
<1> HIDE DEF At
<1>5. bytes = [k \in 1..n |-> At(k)]
  BY <1>2 DEF BytesOf, At
<1>6. bytes \in [1..n -> SUBSET BytePositions]
  BY <1>4, <1>5
<1>7. QED
  BY <1>3, <1>6

\* What a change makes of the set.
LEMMA ChangeMaps ==
  ASSUME Sound, NEW label, NEW field, Changed(label, field), IsField(field)
  PROVE  /\ Sound' /\ Members' = MembersOf(field) /\ op' = label /\ length' = length
         /\ low' = low \cap Members' /\ high' = high \cup Members'
         /\ UNCHANGED sending
<1>1. length' = length /\ bitfield' = field /\ op' = label
  BY DEF Changed
<1>2. Sound'
  BY <1>1 DEF Sound, IsField, Words
<1>3. Members' = MembersOf(field)
  BY <1>1, SoundFacts DEF Members, MembersOf, test, Indices
<1>4. QED
  BY <1>1, <1>2, <1>3 DEF Changed

\* What every change leaves of the bitset and of the payload begun before it.
Altered ==
  /\ Sound' /\ length' = length /\ UNCHANGED sending
  /\ low' = low \cap Members' /\ high' = high \cup Members'

\* Every change is the step of the abstract set that its label names.
LEMMA ChangeSteps ==
  ASSUME Sound, Change
  PROVE  Altered /\ Abstract!Next
<1>1. length \in Nat \ {0} /\ Touched[length] \subseteq Nat
      /\ Touched[length] \subseteq 0..(2 * length)
  BY SoundFacts, BitsAssumption DEF Sound
<1>2. CASE \E i \in Touched[length] :
             Changed(<<"set", i>>, set(i)) \/ Changed(<<"reset", i>>, reset(i))
  <2>1. PICK i \in Touched[length] :
          Changed(<<"set", i>>, set(i)) \/ Changed(<<"reset", i>>, reset(i))
    BY <1>2
  <2>2. i \in Nat /\ i \in 0..(2 * length)
    BY <1>1
  <2>3. CASE Changed(<<"set", i>>, set(i))
    <3>1. IsField(set(i)) /\ MembersOf(set(i)) = Members \cup ({i} \cap Indices)
      BY <2>2, SetInserts
    <3>2. Altered /\ Abstract!Insert(i) /\ length' = length
      BY <2>3, <3>1, ChangeMaps DEF Altered, Abstract!Insert, Abstract!Indices, Indices
    <3>3. QED
      BY <2>2, <3>2 DEF Abstract!Next
  <2>4. CASE Changed(<<"reset", i>>, reset(i))
    <3>1. IsField(reset(i)) /\ MembersOf(reset(i)) = Members \ {i}
      BY <2>2, ResetRemoves
    <3>2. Altered /\ Abstract!Remove(i) /\ length' = length
      BY <2>4, <3>1, ChangeMaps DEF Altered, Abstract!Remove
    <3>3. QED
      BY <2>2, <3>2 DEF Abstract!Next
  <2>5. QED
    BY <2>1, <2>3, <2>4
<1>3. CASE Changed(<<"clear">>, clear)
  <2>1. Altered /\ Abstract!Clear /\ length' = length
    BY <1>3, ClearEmpties, ChangeMaps DEF Altered, Abstract!Clear
  <2>2. QED
    BY <2>1 DEF Abstract!Next
<1>4. CASE \E other \in SUBSET (Touched[length] \cap Indices) :
             \/ Changed(<<"or", other>>, OrAssign(FieldOf(other)))
             \/ Changed(<<"and", other>>, AndAssign(FieldOf(other)))
  <2>1. PICK other \in SUBSET (Touched[length] \cap Indices) :
          \/ Changed(<<"or", other>>, OrAssign(FieldOf(other)))
          \/ Changed(<<"and", other>>, AndAssign(FieldOf(other)))
    BY <1>4
  <2>2. other \in SUBSET Indices /\ other \in SUBSET Abstract!Indices
    BY DEF Indices, Abstract!Indices
  <2>3. CASE Changed(<<"or", other>>, OrAssign(FieldOf(other)))
    <3>1. Altered /\ Abstract!Union(other) /\ length' = length
      BY <2>2, <2>3, OrUnites, ChangeMaps DEF Altered, Abstract!Union
    <3>2. QED
      BY <2>2, <3>1 DEF Abstract!Next
  <2>4. CASE Changed(<<"and", other>>, AndAssign(FieldOf(other)))
    <3>1. Altered /\ Abstract!Meet(other) /\ length' = length
      BY <2>2, <2>4, AndMeets, ChangeMaps DEF Altered, Abstract!Meet
    <3>2. QED
      BY <2>2, <3>1 DEF Abstract!Next
  <2>5. QED
    BY <2>1, <2>3, <2>4
<1>5. QED
  BY <1>2, <1>3, <1>4 DEF Change

\* So is a payload that is loaded or refused.
LEMMA DecodeSteps ==
  ASSUME Sound, decode_as_payload
  PROVE  Altered /\ Abstract!Next
<1>1. PICK bytes \in Payloads :
        \/ Decodable(bytes) /\ Changed(<<"decode", Named(bytes)>>, DecodedInto(bitfield, bytes))
        \/ ~Decodable(bytes) /\ Changed(<<"refused">>, bitfield)
        \/ Decodable(bytes) /\ bytes = << >> /\ Changed(<<"undefined">>, bitfield)
  BY DEF decode_as_payload
<1>2. bytes \in Seq(SUBSET BytePositions)
  BY PayloadsAreBytes
<1>3. CASE Decodable(bytes) /\ Changed(<<"decode", Named(bytes)>>, DecodedInto(bitfield, bytes))
  <2>1. /\ Named(bytes) \in SUBSET Indices
        /\ IsField(DecodedInto(bitfield, bytes))
        /\ MembersOf(DecodedInto(bitfield, bytes)) = Members \cup Named(bytes)
    BY <1>2, <1>3, DecodeLoads
  <2>2. Altered /\ Abstract!Load(Named(bytes)) /\ length' = length
    BY <1>3, <2>1, ChangeMaps DEF Altered, Abstract!Load
  <2>3. Named(bytes) \in SUBSET Abstract!Indices
    BY <2>1 DEF Indices, Abstract!Indices
  <2>4. QED
    BY <2>2, <2>3 DEF Abstract!Next
<1>4. CASE ~Decodable(bytes) /\ Changed(<<"refused">>, bitfield)
  <2>1. IsField(bitfield) /\ MembersOf(bitfield) = Members
    BY SoundFacts DEF Sound
  <2>2. Altered /\ Abstract!Refuse /\ length' = length
    BY <1>4, <2>1, ChangeMaps DEF Altered, Abstract!Refuse
  <2>3. QED
    BY <2>2 DEF Abstract!Next
<1>5. ASSUME Decodable(bytes), bytes = << >> PROVE FALSE
  <2>1. bytes_length(length) \in Nat \ {0}
    BY SoundFacts, BytesCover
  <2>2. QED
    BY <1>5, <2>1 DEF Decodable
<1>6. QED
  BY <1>1, <1>3, <1>4, <1>5

\* Producing a payload only reads.
LEMMA ReadSteps ==
  ASSUME Sound, UNCHANGED <<length, bitfield>>
  PROVE  Sound' /\ Members' = Members /\ (op' = <<"encode">> => Abstract!Next)
<1>1. Sound' /\ Members' = Members
  BY DEF Sound, IsField, Words, Positions, IndexAt, Members, test, Indices
<1>2. QED
  BY <1>1 DEF Abstract!Next, Abstract!Read

\* Every step keeps the bitset sound and is a step of the abstract set.
LEMMA SoundNext ==
  ASSUME Sound, [Next]_vars
  PROVE  Sound' /\ [Abstract!Next]_<<length, Members, op>>
<1>1. CASE Change
  BY <1>1, ChangeSteps DEF Altered
<1>2. CASE decode_as_payload
  BY <1>2, DecodeSteps DEF Altered
<1>3. CASE Begin \/ \E target \in 0..(bytes_length(length) + 1) : encode_as_payload(target)
  <2>1. UNCHANGED <<length, bitfield>> /\ op' = <<"encode">>
    BY <1>3 DEF Begin, encode_as_payload
  <2>2. QED
    BY <2>1, ReadSteps
<1>4. CASE UNCHANGED vars
  <2>1. UNCHANGED <<length, bitfield, op>>
    BY <1>4 DEF vars
  <2>2. QED
    BY <2>1, ReadSteps
<1>5. QED
  BY <1>1, <1>2, <1>3, <1>4 DEF Next

\* A new bitset is sound and empty.
LEMMA SoundInit ==
  ASSUME Init, length # 0
  PROVE  Sound /\ Members = {}
<1>1. /\ length \in Lengths /\ length \in Nat \ {0}
      /\ bitfield \in [Words -> SUBSET Positions] /\ \A w \in Words : bitfield[w] = {}
  BY BitsAssumption DEF Init, Words
<1>2. IsField(bitfield) /\ MembersOf(bitfield) = {}
  BY <1>1, FieldBy
<1>3. QED
  BY <1>1, <1>2, SoundFacts DEF Sound

\* A bitset of length 0 has no words.
Empty == length \in Lengths /\ length = 0 /\ bitfield \in [1..0 -> SUBSET Positions]

\* It has no indices, and its payload no bytes.
LEMMA EmptyFacts ==
  ASSUME length = 0
  PROVE  /\ words_length(length) = 0 /\ bytes_length(length) = 0
         /\ 0 % ByteBits = 0 /\ Indices = {} /\ Members = {}
<1>1. /\ 0 \div WordBits = 0 /\ 0 % WordBits = 0
      /\ 0 \div ByteBits = 0 /\ 0 % ByteBits = 0
  BY Bits
<1>2. Indices = {}
  BY DEF Indices
<1>3. QED
  BY <1>1, <1>2 DEF words_length, bytes_length, Members

\* What a step leaves of it.
EmptyAltered ==
  /\ Empty' /\ length' = length /\ Members' = {} /\ UNCHANGED sending
  /\ low' = {} /\ high' = high

\* A change that leaves it without words.
LEMMA EmptyChange ==
  ASSUME Empty, NEW label, NEW field \in [1..0 -> SUBSET Positions], Changed(label, field)
  PROVE  EmptyAltered /\ op' = label
<1>1. length' = length /\ bitfield' = field /\ op' = label /\ UNCHANGED sending
      /\ low' = low \cap Members' /\ high' = high \cup Members'
  BY DEF Changed
<1>2. Members' = {}
  BY <1>1 DEF Empty, Members, Indices
<1>3. QED
  BY <1>1, <1>2 DEF Empty, EmptyAltered, Positions

\* Decoding the empty payload, where the code goes on, changes nothing.
LEMMA EmptyDecode ==
  ASSUME Empty, NEW bytes \in Payloads, Decodable(bytes)
  PROVE  DecodedInto(bitfield, bytes) = bitfield
<1> DEFINE base == [bitfield |-> bitfield, word_offset |-> 1, byte_offset |-> BytesPerWord - 1]
<1>1. bytes \in Seq(SUBSET BytePositions) /\ Len(bytes) = 0
  BY PayloadsAreBytes, EmptyFacts DEF Empty, Decodable
<1>2. base \in DecodeStates
  <2>1. Words = 1..0
    BY EmptyFacts DEF Empty, Words
  <2>2. QED
    BY <2>1, Bits DEF Empty, DecodeStates
<1>3. DecodedInto(bitfield, bytes) = FoldLeft(DecodeByte, base, bytes).bitfield
  BY DEF DecodedInto
<1>4. base.bitfield = bitfield
  OBVIOUS
<1> HIDE DEF base
<1>5. FoldLeft(DecodeByte, base, bytes) = base
  <2>1. PICK g \in [0..Len(bytes) -> DecodeStates] :
          /\ g[0] = base /\ FoldLeft(DecodeByte, base, bytes) = g[Len(bytes)]
          /\ \A k \in 1..Len(bytes) : g[k] = DecodeByte(g[k - 1], bytes[k])
    BY <1>1, <1>2, DecodeRuns, Zenon
  <2>2. QED
    BY <1>1, <2>1, Zenon
<1>6. QED
  BY <1>3, <1>4, <1>5

\* Every change of it is a step of the abstract set.
LEMMA EmptySteps ==
  ASSUME Empty, Change \/ decode_as_payload
  PROVE  EmptyAltered /\ Abstract!Next
<1>1. Members = {} /\ Indices = {} /\ length = 0 /\ Abstract!Indices = {}
  BY EmptyFacts DEF Empty, Abstract!Indices
<1>2. bitfield \in [1..0 -> SUBSET Positions]
  BY DEF Empty
<1>3. CASE \E i \in Touched[length] :
             Changed(<<"set", i>>, set(i)) \/ Changed(<<"reset", i>>, reset(i))
  <2>1. PICK i \in Touched[length] :
          Changed(<<"set", i>>, set(i)) \/ Changed(<<"reset", i>>, reset(i))
    BY <1>3
  <2>2. i \in 0..(2 * length) /\ i >= length
    BY <1>1, BitsAssumption DEF Empty
  <2>3. set(i) = bitfield /\ reset(i) = bitfield
    BY <2>2 DEF set, reset
  <2>4. EmptyAltered /\ (op' = <<"set", i>> \/ op' = <<"reset", i>>)
    BY <1>2, <2>1, <2>3, EmptyChange
  <2>5. Abstract!Insert(i) \/ Abstract!Remove(i)
    BY <1>1, <2>4 DEF EmptyAltered, Abstract!Insert, Abstract!Remove
  <2>6. QED
    BY <2>2, <2>4, <2>5 DEF EmptyAltered, Abstract!Next
<1>4. CASE Changed(<<"clear">>, clear)
  <2>1. clear \in [1..0 -> SUBSET Positions]
    BY <1>2 DEF clear
  <2>2. EmptyAltered /\ op' = <<"clear">>
    BY <1>4, <2>1, EmptyChange
  <2>3. QED
    BY <2>2 DEF EmptyAltered, Abstract!Next, Abstract!Clear
<1>5. CASE \E other \in SUBSET (Touched[length] \cap Indices) :
             \/ Changed(<<"or", other>>, OrAssign(FieldOf(other)))
             \/ Changed(<<"and", other>>, AndAssign(FieldOf(other)))
  <2>1. PICK other \in SUBSET (Touched[length] \cap Indices) :
          \/ Changed(<<"or", other>>, OrAssign(FieldOf(other)))
          \/ Changed(<<"and", other>>, AndAssign(FieldOf(other)))
    BY <1>5
  <2>2. other = {} /\ other \in SUBSET Abstract!Indices
    BY <1>1
  <2>3. \A f : /\ OrAssign(f) \in [1..0 -> SUBSET Positions]
               /\ AndAssign(f) \in [1..0 -> SUBSET Positions]
    BY <1>2 DEF OrAssign, AndAssign
  <2>4. EmptyAltered /\ (op' = <<"or", other>> \/ op' = <<"and", other>>)
    BY <2>1, <2>3, EmptyChange
  <2>5. Abstract!Union(other) \/ Abstract!Meet(other)
    BY <1>1, <2>2, <2>4 DEF EmptyAltered, Abstract!Union, Abstract!Meet
  <2>6. QED
    BY <2>2, <2>4, <2>5 DEF EmptyAltered, Abstract!Next
<1>6. CASE decode_as_payload
  <2>1. PICK bytes \in Payloads :
          \/ Decodable(bytes) /\ Changed(<<"decode", Named(bytes)>>, DecodedInto(bitfield, bytes))
          \/ ~Decodable(bytes) /\ Changed(<<"refused">>, bitfield)
          \/ Decodable(bytes) /\ bytes = << >> /\ Changed(<<"undefined">>, bitfield)
    BY <1>6 DEF decode_as_payload
  <2>2. Named(bytes) = {} /\ Named(bytes) \in SUBSET Abstract!Indices
    BY <1>1 DEF Named
  <2>3. /\ EmptyAltered
        /\ \/ op' = <<"decode", Named(bytes)>>
           \/ op' = <<"refused">>
           \/ op' = <<"undefined">>
    BY <1>2, <2>1, EmptyChange, EmptyDecode
  <2>4. Abstract!Load(Named(bytes)) \/ Abstract!Refuse \/ Abstract!Undefined
    BY <1>1, <2>2, <2>3 DEF EmptyAltered, Abstract!Load, Abstract!Refuse, Abstract!Undefined
  <2>5. QED
    BY <2>2, <2>3, <2>4 DEF EmptyAltered, Abstract!Next
<1>7. QED
  BY <1>3, <1>4, <1>5, <1>6 DEF Change

\* So is every step.
LEMMA EmptyNext ==
  ASSUME Empty, [Next]_vars
  PROVE  Empty' /\ [Abstract!Next]_<<length, Members, op>>
<1>1. CASE Change \/ decode_as_payload
  BY <1>1, EmptySteps DEF EmptyAltered
<1>2. ASSUME UNCHANGED <<length, bitfield>> PROVE Empty' /\ Members' = Members
  BY <1>2 DEF Empty, Members, Indices, test, Positions
<1>3. CASE Begin \/ \E target \in 0..(bytes_length(length) + 1) : encode_as_payload(target)
  <2>1. UNCHANGED <<length, bitfield>> /\ op' = <<"encode">>
    BY <1>3 DEF Begin, encode_as_payload
  <2>2. QED
    BY <1>2, <2>1 DEF Abstract!Next, Abstract!Read
<1>4. CASE UNCHANGED vars
  BY <1>2, <1>4 DEF vars
<1>5. QED
  BY <1>1, <1>3, <1>4 DEF Next

\* A new bitset of length 0.
LEMMA EmptyInit ==
  ASSUME Init, length = 0
  PROVE  Empty /\ Members = {}
<1>1. words_length(length) = 0 /\ Members = {}
  BY EmptyFacts
<1>2. QED
  BY <1>1 DEF Init, Empty

\* The words stay a field of their length: no bit beyond it is ever set.
LEMMA AlwaysSound == Spec => [](Sound \/ Empty)
<1>1. Init => Sound \/ Empty
  BY SoundInit, EmptyInit
<1>2. (Sound \/ Empty) /\ [Next]_vars => (Sound \/ Empty)'
  BY SoundNext, EmptyNext
<1>3. QED
  BY <1>1, <1>2, PTL DEF Spec

\* The words implement the set of indices: set, reset, clear, |=, &= and decode_as_payload
\* (21-76, 168-192) each do to the indices what the abstract set does, whatever the width
\* of a word and the length.  (Of decode_as_payload with length 0 the abstract set leaves
\* open whether the program goes on.)
THEOREM Implements == Spec => SetSpec
<1>1. Init => Abstract!Init
  BY SoundInit, EmptyInit DEF Abstract!Init, Init
<1>2. (Sound \/ Empty) /\ [Next]_vars => [Abstract!Next]_<<length, Members, op>>
  BY SoundNext, EmptyNext
<1>3. QED
  BY <1>1, <1>2, AlwaysSound, PTL DEF Spec, SetSpec, Abstract!Spec, Abstract!vars
------------------------------------------------------------------------------
(* encode_as_payload.                                                      *)

\* The bytes of the whole field, from 0.
ByteAt(x) == ByteOf(bitfield[(x \div BytesPerWord) + 1], x % BytesPerWord)

\* The words hold all the bytes of the payload.
LEMMA BytesInWords ==
  ASSUME length \in Nat \ {0}
  PROVE  bytes_length(length) <= BytesPerWord * words_length(length)
<1> DEFINE B == ByteBits
           R == BytesPerWord
           n == bytes_length(length)
           m == words_length(length)
<1>1. B \in Nat \ {0} /\ R \in Nat \ {0} /\ WordBits = B * R
  BY Bits
<1>2. n \in Nat \ {0} /\ B * (n - 1) < length
  BY Bits, Ceiling DEF bytes_length
<1>3. m \in Nat \ {0} /\ length <= WordBits * m
  BY WordsCover
<1> HIDE DEF B, R, n, m
<1>4. (B * R) * m = B * (R * m) /\ R * m \in Nat /\ B * (R * m) \in Nat /\ B * (n - 1) \in Nat
  BY <1>1, <1>2, <1>3
<1>5. B * (n - 1) < B * (R * m)
  BY <1>1, <1>2, <1>3, <1>4
<1>6. n - 1 < R * m
  <2>1. n - 1 \in Nat
    BY <1>2
  <2>2. QED
    BY <1>1, <1>4, <1>5, <2>1, Times
<1>7. QED
  BY <1>2, <1>4, <1>6 DEF n, R, m

\* A byte of the field says what test says.
LEMMA ByteAtSays ==
  ASSUME Sound, NEW i \in Nat, i \div ByteBits < bytes_length(length)
  PROVE  ByteBits - 1 - (i % ByteBits) \in ByteAt(i \div ByteBits) <=> i \in Members
<1> DEFINE B == ByteBits
           R == BytesPerWord
           d == i \div B
           w == get_index(i).word
           p == get_index(i).index
           a == p \div B
           b == p % B
           e == B - 1 - (i % B)
<1>1. w \in Nat \ {0} /\ p \in Positions /\ IndexAt(w, p) = i
  BY Located
<1>2. /\ a \in 0..(R - 1) /\ b \in BytePositions /\ p = B * a + b
      /\ d = R * (w - 1) + (R - 1 - a) /\ i % B = B - 1 - b
  <2> HIDE DEF w, p
  <2>1. /\ p \div ByteBits \in 0..(BytesPerWord - 1) /\ p % ByteBits \in BytePositions
        /\ p = ByteBits * (p \div ByteBits) + (p % ByteBits)
        /\ IndexAt(w, p) \div ByteBits =
             BytesPerWord * (w - 1) + (BytesPerWord - 1 - (p \div ByteBits))
        /\ IndexAt(w, p) % ByteBits = ByteBits - 1 - (p % ByteBits)
    BY <1>1, ByteOfPosition
  <2>2. QED
    BY <1>1, <2>1
<1>3. B \in Nat \ {0} /\ R \in Nat \ {0} /\ b \in 0..(B - 1) /\ d \in Nat
  BY <1>2, Bits, Split DEF BytePositions
<1> HIDE DEF B, R, d, w, p, a, b
<1>4. e = b
  BY <1>2, <1>3
<1>5. d \div R = w - 1 /\ d % R = R - 1 - a
  <2> DEFINE v == w - 1
             c == R - 1 - a
  <2>1. v \in Nat /\ c \in 0..(R - 1) /\ d = R * v + c
    BY <1>1, <1>2, <1>3
  <2> HIDE DEF v, c
  <2>2. (R * v + c) \div R = v /\ (R * v + c) % R = c
    BY <1>3, <2>1, Joined
  <2>3. d \div R = v /\ d % R = c
    BY <2>1, <2>2, Zenon
  <2>4. QED
    BY <2>3 DEF v, c
<1>6. e + B * (R - 1 - (d % R)) = p /\ (d \div R) + 1 = w
  <2>1. R - 1 - (d % R) = a
    BY <1>2, <1>3, <1>5
  <2>2. B * a \in Nat
    BY <1>2, <1>3
  <2>3. QED
    BY <1>1, <1>2, <1>3, <1>4, <1>5, <2>1, <2>2
<1>7. e \in ByteAt(d) <=> p \in bitfield[w]
  <2>1. e \in BytePositions
    BY <1>2, <1>4
  <2>2. ByteAt(d) = {x \in BytePositions : x + B * (R - 1 - (d % R)) \in bitfield[(d \div R) + 1]}
    BY DEF ByteAt, ByteOf, BytePositions, B, R
  <2> HIDE DEF e
  <2>3. e \in ByteAt(d) <=> e + B * (R - 1 - (d % R)) \in bitfield[(d \div R) + 1]
    BY <2>1, <2>2
  <2>4. QED
    BY <1>6, <2>3
<1>8. w \in Words
  <2>1. /\ d < bytes_length(length) /\ bytes_length(length) \in Nat
        /\ words_length(length) \in Nat /\ bytes_length(length) <= R * words_length(length)
    BY SoundFacts, BytesInWords, BytesCover, WordsCover DEF d, R, B
  <2> DEFINE m == words_length(length)
             v == w - 1
             n == bytes_length(length)
  <2>2. v \in Nat /\ w = v + 1 /\ d = R * v + (R - 1 - a)
    BY <1>1, <1>2
  <2>3. m \in Nat /\ n \in Nat /\ d < n /\ n <= R * m
    BY <2>1
  <2> HIDE DEF m, v, n
  <2>4. R * v < R * m
    <3>1. R * v \in Nat /\ R * m \in Nat
      BY <1>3, <2>2, <2>3
    <3>2. QED
      BY <1>2, <1>3, <2>2, <2>3, <3>1
  <2>5. v < m
    BY <1>3, <2>2, <2>3, <2>4, Times
  <2>6. QED
    BY <2>2, <2>3, <2>5 DEF m, Words
<1>9. p \in bitfield[w] <=> i \in Members
  BY <1>1, <1>8, SoundFacts
<1>10. QED
  BY <1>7, <1>9 DEF d, B

\* The states of the loop.
EncodeStates ==
  [target : Nat, encoded : 0..bytes_length(length), byte_offset : 0..(BytesPerWord - 1),
   out : Seq(SUBSET BytePositions)]

\* The bytes one word gives.
Given(s) == Min({s.target, bytes_length(length) - s.encoded, BytesPerWord - s.byte_offset})

\* It is one of the three limits, and within each.
LEMMA GivenIs ==
  ASSUME length \in Nat \ {0}, NEW s \in EncodeStates
  PROVE  /\ Given(s) \in {s.target, bytes_length(length) - s.encoded, BytesPerWord - s.byte_offset}
         /\ Given(s) \in Nat /\ Given(s) <= s.target
         /\ Given(s) <= bytes_length(length) - s.encoded /\ Given(s) <= BytesPerWord - s.byte_offset
<1> DEFINE x == s.target
           y == bytes_length(length) - s.encoded
           z == BytesPerWord - s.byte_offset
           S == {x, y, z}
<1>1. x \in Nat /\ y \in Nat /\ z \in Nat
  BY BytesCover, Bits DEF EncodeStates
<1> HIDE DEF x, y, z
<1>2. \E m \in S : \A k \in S : m <= k
  BY <1>1
<1>3. Given(s) = Min(S)
  BY DEF Given, x, y, z
<1> HIDE DEF S
<1>4. Min(S) \in S /\ \A k \in S : Min(S) <= k
  BY <1>2, Zenon DEF Min
<1>5. QED
  BY <1>1, <1>3, <1>4 DEF S, x, y, z

\* What a word adds to the payload.
Piece(s, w) == SubSeq(WordBytes(bitfield[w]), s.byte_offset + 1, s.byte_offset + Given(s))

\* It is the bytes of the word from the offset on.
LEMMA PieceIs ==
  ASSUME Sound, NEW s \in EncodeStates, NEW w \in Words
  PROVE  /\ Piece(s, w) \in Seq(SUBSET BytePositions) /\ Len(Piece(s, w)) = Given(s)
         /\ \A j \in 1..Given(s) : Piece(s, w)[j] = ByteOf(bitfield[w], s.byte_offset + j - 1)
<1> DEFINE n == Given(s)
           b == s.byte_offset
           R == BytesPerWord
           e == WordBytes(bitfield[w])
<1>1. n \in Nat /\ b \in 0..(R - 1) /\ n <= R - b /\ R \in Nat \ {0}
  BY SoundFacts, GivenIs, Bits DEF EncodeStates
<1>2. /\ e \in [1..R -> SUBSET BytePositions]
      /\ \A k \in 1..R : e[k] = ByteOf(bitfield[w], k - 1)
  BY DEF WordBytes, ByteOf, BytePositions
<1>3. Piece(s, w) = SubSeq(e, b + 1, b + n)
  BY DEF Piece
<1> HIDE DEF n, b, R, e
<1>4. e \in Seq(SUBSET BytePositions) /\ Len(e) = R
  BY <1>1, <1>2
<1>5. b + 1 \in 1..(Len(e) + 1) /\ b + n \in b..Len(e)
  BY <1>1, <1>4
<1>6. /\ SubSeq(e, b + 1, b + n) \in Seq(SUBSET BytePositions)
      /\ Len(SubSeq(e, b + 1, b + n)) = n
      /\ \A j \in 1..n : SubSeq(e, b + 1, b + n)[j] = e[b + j]
  BY <1>1, <1>4, <1>5
<1>7. ASSUME NEW j \in 1..n PROVE e[b + j] = ByteOf(bitfield[w], b + j - 1)
  <2>1. b + j \in 1..R
    BY <1>1
  <2>2. e[b + j] = ByteOf(bitfield[w], (b + j) - 1)
    BY <1>2, <2>1
  <2>3. (b + j) - 1 = b + j - 1
    BY <1>1
  <2>4. QED
    BY <2>2, <2>3, Zenon
<1>8. QED
  BY <1>3, <1>6, <1>7 DEF n, b

\* What an iteration of the loop does that is not at its end.
LEMMA EncodeMoves ==
  ASSUME Sound, NEW s \in EncodeStates, NEW w \in Words, s.target # 0
  PROVE  LET t == EncodeWord(s, w) IN
         /\ t \in EncodeStates
         /\ t.target = s.target - Given(s) /\ t.encoded = s.encoded + Given(s)
         /\ t.byte_offset = NextOffset(s.byte_offset, Given(s)) /\ t.out = s.out \o Piece(s, w)
<1> DEFINE n == Given(s)
<1>1. EncodeWord(s, w) = [target |-> s.target - n, encoded |-> s.encoded + n,
                          byte_offset |-> NextOffset(s.byte_offset, n),
                          out |-> s.out \o Piece(s, w)]
  BY DEF EncodeWord, Given, Piece
<1>2. /\ s.target \in Nat /\ s.encoded \in 0..bytes_length(length)
      /\ s.byte_offset \in 0..(BytesPerWord - 1) /\ s.out \in Seq(SUBSET BytePositions)
  BY DEF EncodeStates
<1>3. n \in Nat /\ n <= s.target /\ n <= bytes_length(length) - s.encoded
      /\ bytes_length(length) \in Nat
  BY SoundFacts, GivenIs, BytesCover
<1> HIDE DEF n
<1>4. s.target - n \in Nat /\ s.encoded + n \in 0..bytes_length(length)
  BY <1>2, <1>3
<1>5. NextOffset(s.byte_offset, n) \in 0..(BytesPerWord - 1)
  BY <1>2, Bits DEF NextOffset
<1>6. s.out \o Piece(s, w) \in Seq(SUBSET BytePositions)
  BY <1>2, PieceIs
<1>7. QED
  BY <1>1, <1>4, <1>5, <1>6 DEF EncodeStates, n

\* A word of the loop keeps its state well formed.
LEMMA EncodeTyped ==
  ASSUME Sound, NEW s \in EncodeStates, NEW w \in Words
  PROVE  EncodeWord(s, w) \in EncodeStates
<1>1. CASE s.target = 0
  BY <1>1 DEF EncodeWord
<1>2. CASE s.target # 0
  BY <1>2, EncodeMoves
<1>3. QED
  BY <1>1, <1>2

\* The loop, word by word.
LEMMA EncodeRuns ==
  ASSUME Sound, NEW base \in EncodeStates, NEW order \in Seq(Words)
  PROVE  \E g \in [0..Len(order) -> EncodeStates] :
           /\ g[0] = base /\ FoldLeft(EncodeWord, base, order) = g[Len(order)]
           /\ \A k \in 1..Len(order) : g[k] = EncodeWord(g[k - 1], order[k])
<1> DEFINE n == Len(order)
           T == EncodeStates
           step == [x \in (1..n) \X T |-> EncodeWord(x[2], order[x[1]])]
           Fixed(f) ==
             f = [s \in SUBSET DOMAIN order |->
                   IF s = {} THEN base
                   ELSE LET x == Max(s) IN EncodeWord(f[s \ {x}], order[x])]
           iter == CHOOSE f : Fixed(f)
<1>1. n \in Nat /\ DOMAIN order = 1..n /\ \A k \in 1..n : order[k] \in Words
  OBVIOUS
<1>2. step \in [(1..n) \X T -> T]
  BY <1>1, EncodeTyped
<1>3. PICK f \in [SUBSET (1..n) -> T] : FoldOver(base, step, n, f)
  <2> HIDE DEF step, n, T
  <2>1. base \in T
    BY DEF T
  <2>2. QED
    BY <1>1, <1>2, <2>1, FoldExists
<1>4. FoldLeft(EncodeWord, base, order) = iter[DOMAIN order]
  BY DEF FoldLeft, MapThenFoldSet
<1> HIDE DEF n, T
<1>5. Fixed(f)
  <2>1. f = [s \in SUBSET (1..n) |->
              IF s = {} THEN base ELSE step[<<Max(s), f[s \ {Max(s)}]>>]]
    BY <1>3 DEF FoldOver
  <2>2. ASSUME NEW s \in SUBSET (1..n), s # {}
        PROVE  step[<<Max(s), f[s \ {Max(s)}]>>] = EncodeWord(f[s \ {Max(s)}], order[Max(s)])
    <3>1. Max(s) \in s
      BY <1>1, <2>2, MaxInside
    <3>2. <<Max(s), f[s \ {Max(s)}]>> \in (1..n) \X T
      BY <3>1
    <3>3. QED
      BY <3>2
  <2> HIDE DEF step
  <2>3. QED
    BY <1>1, <2>1, <2>2
<1>6. Fixed(iter)
  <2> HIDE DEF Fixed
  <2>1. QED
    BY <1>5, Zenon
<1> HIDE DEF iter
<1>7. iter[{}] = base
  BY <1>6
<1>8. ASSUME NEW k \in 1..n, iter[1..(k - 1)] \in T
      PROVE  iter[1..k] = step[<<k, iter[1..(k - 1)]>>]
  <2>1. Max(1..k) = k /\ (1..k) \ {k} = 1..(k - 1) /\ 1..k # {} /\ 1..k \in SUBSET (1..n)
    BY <1>1, PrefixMax
  <2>2. iter[1..k] = EncodeWord(iter[(1..k) \ {Max(1..k)}], order[Max(1..k)])
    BY <1>1, <1>6, <2>1
  <2>3. <<k, iter[1..(k - 1)]>> \in (1..n) \X T
    BY <1>8
  <2>4. QED
    BY <2>1, <2>2, <2>3
<1>9. PICK g : RunOfFold(base, step, n, T, iter[1..n], g)
  <2>1. base \in T /\ n \in Nat
    BY <1>1 DEF T
  <2>2. FoldsAlong(base, step, n, T, iter)
    <3> HIDE DEF step
    <3>1. QED
      BY <1>7, <1>8 DEF FoldsAlong
  <2> HIDE DEF step
  <2>3. QED
    BY <1>2, <2>1, <2>2, FoldRuns
<1>10. g \in [0..n -> T] /\ \A k \in 1..n : g[k] = EncodeWord(g[k - 1], order[k])
  <2>1. g \in [0..n -> T] /\ \A k \in 1..n : g[k] = step[<<k, g[k - 1]>>]
    <3> HIDE DEF step
    <3>1. QED
      BY <1>9 DEF RunOfFold
  <2>2. ASSUME NEW k \in 1..n PROVE <<k, g[k - 1]>> \in (1..n) \X T
    BY <1>1, <2>1
  <2>3. QED
    BY <2>1, <2>2
<1> HIDE DEF step
<1>11. QED
  BY <1>1, <1>4, <1>9, <1>10 DEF n, T, RunOfFold

\* The words before the one that comes after k words, begun at byte `from'.
WordsBefore(from, k) == (from \div BytesPerWord) + k

\* Where the loop is after k words, begun at byte `from' with room up to byte `upto'.
EncodedSo(s, from, upto, k) ==
  /\ s.encoded = from + Len(s.out) /\ s.encoded + s.target = upto
  /\ \A j \in 1..Len(s.out) : s.out[j] = ByteAt(from + (j - 1))
  /\ \/ s.target = 0 \/ s.encoded = bytes_length(length)
     \/ s.encoded = BytesPerWord * WordsBefore(from, k) + s.byte_offset

\* A word moves the loop on by what it gives.
LEMMA EncodeStep ==
  ASSUME Sound, NEW s \in EncodeStates, NEW from \in Nat, NEW upto \in Nat, NEW k \in Nat,
         EncodedSo(s, from, upto, k), NEW w \in Words, w = WordsBefore(from, k) + 1
  PROVE  EncodedSo(EncodeWord(s, w), from, upto, k + 1)
<1>1. CASE s.target = 0
  <2>1. EncodeWord(s, w) = s
    BY <1>1 DEF EncodeWord
  <2>2. QED
    BY <1>1, <2>1 DEF EncodedSo
<1>2. CASE s.target # 0
  <2> DEFINE t == EncodeWord(s, w)
             n == Given(s)
             R == BytesPerWord
             b == s.byte_offset
             v == WordsBefore(from, k)
             add == Piece(s, w)
             all_ == bytes_length(length)
             m == Len(s.out)
  <2>1. /\ t \in EncodeStates /\ t.target = s.target - n /\ t.encoded = s.encoded + n
        /\ t.byte_offset = NextOffset(b, n) /\ t.out = s.out \o add
    BY <1>2, EncodeMoves
  <2>2. /\ n \in {s.target, all_ - s.encoded, R - b} /\ n \in Nat /\ n <= all_ - s.encoded
        /\ n <= R - b
    BY SoundFacts, GivenIs
  <2>3. /\ s.target \in Nat /\ s.encoded \in Nat /\ b \in 0..(R - 1)
        /\ s.out \in Seq(SUBSET BytePositions) /\ all_ \in Nat /\ R \in Nat \ {0} /\ m \in Nat
    BY SoundFacts, BytesCover, Bits DEF EncodeStates
  <2>4. v \in Nat /\ w = v + 1 /\ WordsBefore(from, k + 1) = v + 1
    <3> DEFINE q == from \div BytesPerWord
    <3>1. q \in Nat
      BY Bits, Split
    <3>2. v = q + k /\ WordsBefore(from, k + 1) = q + (k + 1)
      BY DEF WordsBefore
    <3> HIDE DEF v, q
    <3>3. v \in Nat /\ q + (k + 1) = v + 1
      BY <3>1, <3>2
    <3>4. QED
      BY <3>2, <3>3 DEF v
  <2>5. /\ add \in Seq(SUBSET BytePositions) /\ Len(add) = n
        /\ \A j \in 1..n : add[j] = ByteOf(bitfield[w], b + j - 1)
    BY PieceIs
  <2>6. /\ s.encoded = from + m /\ s.encoded + s.target = upto
        /\ \A j \in 1..m : s.out[j] = ByteAt(from + (j - 1))
        /\ s.encoded = all_ \/ s.encoded = R * v + b
    BY <1>2 DEF EncodedSo
  <2> HIDE DEF t, n, b, R, v, add, all_, m
  <2>7. Len(t.out) = m + n
    <3>1. t.out = s.out \o add /\ s.out \in Seq(SUBSET BytePositions)
          /\ add \in Seq(SUBSET BytePositions)
      BY <2>1, <2>3, <2>5
    <3>2. Len(s.out) = m /\ Len(add) = n
      BY <2>5 DEF m
    <3>3. Len(s.out \o add) = Len(s.out) + Len(add)
      BY <3>1
    <3>4. QED
      BY <3>1, <3>2, <3>3
  <2>8. t.encoded = from + Len(t.out) /\ t.encoded + t.target = upto
    <3>1. t.target = s.target - n /\ t.encoded = s.encoded + n
      BY <2>1
    <3>2. n \in Nat /\ m \in Nat /\ s.target \in Nat /\ s.encoded \in Nat
      BY <2>2, <2>3
    <3>3. s.encoded = from + m /\ s.encoded + s.target = upto
      BY <2>6
    <3>4. QED
      BY <2>7, <3>1, <3>2, <3>3
  <2>9. ASSUME NEW j \in 1..Len(t.out) PROVE t.out[j] = ByteAt(from + (j - 1))
    <3>1. CASE j <= m
      <4>1. j \in 1..m
        BY <2>2, <2>3, <2>7, <3>1
      <4>2. t.out[j] = s.out[j]
        BY <2>1, <2>3, <2>5, <4>1 DEF m
      <4>3. QED
        BY <2>6, <4>1, <4>2
    <3>2. CASE j > m
      <4> DEFINE i == j - m
      <4>1. i \in 1..n /\ j = m + i
        BY <2>2, <2>3, <2>7, <3>2
      <4>2. t.out[j] = add[i]
        BY <2>1, <2>3, <2>5, <2>7, <3>2, <4>1 DEF m
      <4> HIDE DEF i
      <4>3. add[i] = ByteOf(bitfield[w], b + i - 1)
        BY <2>5, <4>1
      <4>4. s.encoded = R * v + b
        BY <2>2, <2>3, <2>6, <4>1
      <4> DEFINE c == b + i - 1
                 x == from + (j - 1)
      <4>5. c \in 0..(R - 1)
        BY <2>2, <2>3, <4>1
      <4>6. x = R * v + c
        <5>1. R * v \in Nat
          BY <2>3, <2>4
        <5>2. R * v + b = from + m /\ b \in Nat /\ m \in Nat /\ i \in Nat
          BY <2>2, <2>3, <2>6, <4>1, <4>4
        <5>3. QED
          BY <4>1, <5>1, <5>2
      <4> HIDE DEF c, x
      <4>7. (R * v + c) \div R = v /\ (R * v + c) % R = c
        BY <2>3, <2>4, <4>5, Joined
      <4>8. x \div R = v /\ x % R = c
        BY <4>6, <4>7, Zenon
      <4>9. ByteAt(x) = ByteOf(bitfield[w], c)
        <5>1. ByteAt(x) = ByteOf(bitfield[(x \div R) + 1], x % R)
          BY DEF ByteAt, R
        <5>2. QED
          BY <2>4, <4>8, <5>1
      <4>10. QED
        BY <4>2, <4>3, <4>9 DEF c, x
    <3>3. QED
      BY <2>2, <2>3, <2>7, <3>1, <3>2
  <2>10. t.target = 0 \/ t.encoded = all_ \/ t.encoded = R * (v + 1) + t.byte_offset
    <3>1. CASE s.encoded = all_
      BY <2>1, <2>2, <2>3, <3>1
    <3>2. CASE n = s.target \/ n = all_ - s.encoded
      BY <2>1, <2>2, <2>3, <3>2
    <3>3. CASE n = R - b /\ s.encoded = R * v + b
      <4>1. b + n = R
        BY <2>3, <3>3
      <4>2. t.byte_offset = 0
        BY <2>1, <4>1 DEF NextOffset, R
      <4>3. R * (v + 1) = R * v + R /\ R * v \in Nat
        BY <2>3, <2>4
      <4>4. QED
        BY <2>1, <2>3, <3>3, <4>2, <4>3
    <3>4. QED
      BY <2>2, <2>6, <3>1, <3>2, <3>3
  <2>11. WordsBefore(from, k + 1) = v + 1
    BY <2>4
  <2>12. EncodedSo(t, from, upto, k + 1)
    BY <2>8, <2>9, <2>10, <2>11 DEF EncodedSo, R, all_
  <2>13. QED
    BY <2>12 DEF t
<1>3. QED
  BY <1>1, <1>2

\* A call gives the next bytes of the field, as many as there is room for or as are left.
LEMMA EncodeForm ==
  ASSUME Sound, NEW target \in Nat, NEW encoded \in Nat, encoded < bytes_length(length)
  PROVE  LET done == Encode(target, encoded) IN
         /\ done \in EncodeStates /\ done.encoded = encoded + Len(done.out)
         /\ \A j \in 1..Len(done.out) : done.out[j] = ByteAt(encoded + (j - 1))
         /\ done.encoded = encoded + target \/ done.encoded = bytes_length(length)
<1> DEFINE R == BytesPerWord
           start == encoded \div R
           base == [target |-> target, encoded |-> encoded, byte_offset |-> encoded % R,
                    out |-> << >>]
           m == words_length(length)
           bytes == bytes_length(length)
           n == m - start
           order == [k \in 1..n |-> start + k]
           done == Encode(target, encoded)
           upto == encoded + target
<1>1. /\ R \in Nat \ {0} /\ start \in Nat /\ encoded % R \in 0..(R - 1)
      /\ encoded = R * start + (encoded % R)
  BY Bits, Split
<1>2. bytes \in Nat /\ m \in Nat /\ bytes <= R * m /\ encoded < bytes
  BY SoundFacts, BytesCover, WordsCover, BytesInWords
<1>3. Len(bitfield) = m
  BY <1>2, SoundFacts DEF Words
<1>4. done = IF target = 0 THEN base ELSE FoldLeft(EncodeWord, base, order)
  BY <1>2, <1>3 DEF Encode
<1>5. base \in EncodeStates
  BY <1>1, <1>2 DEF EncodeStates
<1>6. EncodedSo(base, encoded, upto, 0)
  <2> DEFINE r == encoded % R
  <2>1. base.out = << >> /\ Len(base.out) = 0 /\ base.encoded = encoded /\ base.target = target
        /\ base.byte_offset = r
    OBVIOUS
  <2> HIDE DEF base
  <2>2. encoded + Len(base.out) = encoded /\ 1..Len(base.out) = {}
    BY <2>1
  <2>3. encoded = R * WordsBefore(encoded, 0) + r
    <3>1. start + 0 = start
      BY <1>1
    <3>2. WordsBefore(encoded, 0) = start
      BY <3>1 DEF WordsBefore
    <3>3. QED
      BY <1>1, <3>2
  <2>4. QED
    BY <2>1, <2>2, <2>3 DEF EncodedSo
<1> HIDE DEF base, start, m, bytes, R
<1>7. start < m
  <2>1. R * start \in Nat /\ R * m \in Nat
    BY <1>1, <1>2
  <2> DEFINE r == encoded % R
  <2> HIDE DEF r
  <2>2. r \in Nat /\ encoded = R * start + r
    BY <1>1 DEF r
  <2>3. R * start < R * m
    BY <1>2, <2>1, <2>2
  <2>4. QED
    BY <1>1, <1>2, <2>3, Times
<1>8. n \in Nat /\ order \in Seq(Words) /\ Len(order) = n
  <2>1. n \in Nat
    BY <1>1, <1>2, <1>7
  <2>2. \A k \in 1..n : start + k \in Words
    BY <1>1, <1>2, <2>1 DEF Words, m
  <2>3. order \in [1..n -> Words]
    BY <2>2
  <2> HIDE DEF n, order
  <2>4. QED
    BY <2>1, <2>3
<1>9. \A k \in 1..n : order[k] = start + k
  OBVIOUS
<1> HIDE DEF n, order, done
<1>10. CASE target = 0
  <2>1. done = base
    BY <1>4, <1>10
  <2>2. base.encoded = encoded + target
    BY <1>10 DEF base
  <2>3. QED
    BY <1>5, <1>6, <2>1, <2>2 DEF EncodedSo, done
<1>11. CASE target # 0
  <2>1. PICK g \in [0..n -> EncodeStates] :
          /\ g[0] = base /\ FoldLeft(EncodeWord, base, order) = g[n]
          /\ \A k \in 1..n : g[k] = EncodeWord(g[k - 1], order[k])
    BY <1>5, <1>8, EncodeRuns
  <2> DEFINE P == {k \in 0..n : EncodedSo(g[k], encoded, upto, k)}
  <2>2. 0 \in P
    BY <1>6, <1>8, <2>1
  <2>3. ASSUME NEW k \in 1..n, k - 1 \in P PROVE k \in P
    <3> DEFINE j == k - 1
    <3>1. j \in Nat /\ j \in 0..n /\ k = j + 1 /\ g[j] \in EncodeStates
          /\ EncodedSo(g[j], encoded, upto, j) /\ g[k] = EncodeWord(g[j], order[k])
      BY <1>8, <2>1, <2>3
    <3> HIDE DEF j
    <3>2. order[k] \in Words /\ order[k] = (start + j) + 1
      BY <1>1, <1>8, <1>9, <3>1
    <3>3. upto \in Nat
      OBVIOUS
    <3> HIDE DEF upto
    <3>4. EncodedSo(EncodeWord(g[j], order[k]), encoded, upto, j + 1)
      BY <3>1, <3>2, <3>3, EncodeStep DEF WordsBefore, start, R
    <3>5. QED
      BY <3>1, <3>4
  <2>4. n \in P
    <3>1. P \subseteq 0..n
      OBVIOUS
    <3> HIDE DEF P
    <3>2. P = 0..n
      BY <1>8, <2>2, <2>3, <3>1, UpTo
    <3>3. QED
      BY <1>8, <3>2
  <2>5. done = g[n] /\ done \in EncodeStates /\ EncodedSo(done, encoded, upto, n)
    BY <1>4, <1>8, <1>11, <2>1, <2>4
  <2>6. /\ done.encoded \in 0..bytes /\ done.byte_offset \in Nat /\ done.target \in Nat
    BY <2>5, Bits DEF EncodeStates, bytes
  <2>7. done.encoded + done.target = upto
        /\ (done.target = 0 \/ done.encoded = bytes
              \/ done.encoded = R * (start + n) + done.byte_offset)
    BY <2>5 DEF EncodedSo, WordsBefore, start, R, bytes
  <2>8. start + n = m
    BY <1>1, <1>2 DEF n
  <2>9. R * m \in Nat
    BY <1>1, <1>2
  <2>10. done.encoded = upto \/ done.encoded = bytes
    BY <1>2, <2>6, <2>7, <2>8, <2>9
  <2>11. QED
    BY <2>5, <2>10 DEF EncodedSo, done, bytes
<1>12. QED
  BY <1>10, <1>11
------------------------------------------------------------------------------
(* What is produced between changes.                                       *)

\* Every bit that is produced is of an index that was a member at some time since the payload
\* was begun, and of every index that was one all along the bit is 1: of the spare bits too,
\* which are never members.
PayloadInv ==
  /\ Sound /\ low \subseteq Members /\ Members \subseteq high /\ high \subseteq Indices
  /\ payload \in Seq(SUBSET BytePositions) /\ encoded_bytes \in 0..bytes_length(length)
  /\ Len(payload) = encoded_bytes
  /\ \A i \in Nat : i \div ByteBits < encoded_bytes =>
       (i \in low => Says(payload, i)) /\ (Says(payload, i) => i \in high)

\* The invariant holds at first,
LEMMA PayloadInit ==
  ASSUME Init, length # 0
  PROVE  PayloadInv
<1>1. Sound /\ Members = {} /\ bytes_length(length) \in Nat
  BY SoundInit, SoundFacts, BytesCover
<1>2. low = {} /\ high = {} /\ payload = << >> /\ encoded_bytes = 0
  BY DEF Init
<1>3. \A i \in Nat : ~(i \div ByteBits < encoded_bytes)
  <2> SUFFICES ASSUME NEW i \in Nat PROVE ~(i \div ByteBits < 0)
    BY <1>2
  <2>1. i \div ByteBits \in Nat
    BY Bits, Split
  <2>2. QED
    BY <2>1
<1>4. payload \in Seq(SUBSET BytePositions) /\ Len(payload) = encoded_bytes
  BY <1>2
<1>5. QED
  BY <1>1, <1>2, <1>3, <1>4 DEF PayloadInv

\* is kept by a change of the set while the payload is produced,
LEMMA PayloadAltered ==
  ASSUME PayloadInv, Altered
  PROVE  PayloadInv'
<1>1. /\ Sound' /\ length' = length /\ payload' = payload /\ encoded_bytes' = encoded_bytes
      /\ low' = low \cap Members' /\ high' = high \cup Members'
  BY DEF Altered, sending
<1>2. (Members \subseteq Indices)'
  BY <1>1 DEF Members
<1>3. Indices' = Indices /\ bytes_length(length)' = bytes_length(length)
  BY <1>1 DEF Indices, bytes_length
<1>4. \A i : Says(payload, i)' <=> Says(payload, i)
  BY <1>1 DEF Says
<1>5. ASSUME NEW i \in Nat, i \div ByteBits < encoded_bytes
      PROVE  (i \in low' => Says(payload, i)') /\ (Says(payload, i)' => i \in high')
  BY <1>1, <1>4, <1>5 DEF PayloadInv
<1>6. low' \subseteq Members' /\ Members' \subseteq high' /\ high' \subseteq Indices'
  BY <1>1, <1>2, <1>3 DEF PayloadInv
<1>7. /\ payload' \in Seq(SUBSET BytePositions) /\ encoded_bytes' \in 0..bytes_length(length)'
      /\ Len(payload') = encoded_bytes' /\ BytePositions' = BytePositions
  BY <1>1, <1>3 DEF PayloadInv, BytePositions
<1>8. QED
  BY <1>1, <1>5, <1>6, <1>7 DEF PayloadInv

\* by the beginning of a payload,
LEMMA PayloadBegin ==
  ASSUME PayloadInv, Begin
  PROVE  PayloadInv'
<1>1. /\ length' = length /\ bitfield' = bitfield /\ payload' = << >> /\ encoded_bytes' = 0
      /\ low' = Members /\ high' = Members
  BY DEF Begin
<1>2. Sound' /\ Members' = Members
  BY <1>1, ReadSteps DEF PayloadInv
<1>3. Indices' = Indices /\ bytes_length(length)' \in Nat /\ Members \subseteq Indices
  BY <1>1, SoundFacts, BytesCover DEF PayloadInv, Indices, bytes_length
<1>4. \A i \in Nat : ~(i \div ByteBits < encoded_bytes')
  <2> SUFFICES ASSUME NEW i \in Nat PROVE ~(i \div ByteBits < 0)
    BY <1>1
  <2>1. i \div ByteBits \in Nat
    BY Bits, Split
  <2>2. QED
    BY <2>1
<1>5. payload' \in Seq(SUBSET BytePositions) /\ Len(payload') = encoded_bytes'
  BY <1>1
<1>6. QED
  BY <1>1, <1>2, <1>3, <1>4, <1>5 DEF PayloadInv

\* and by a call that produces more of it.
LEMMA PayloadGrows ==
  ASSUME PayloadInv, NEW target \in Nat, encode_as_payload(target)
  PROVE  PayloadInv'
<1> DEFINE done == Encode(target, encoded_bytes)
           n == encoded_bytes
           out == done.out
<1>1. /\ Sound /\ n \in Nat /\ n < bytes_length(length) /\ n = Len(payload)
      /\ payload \in Seq(SUBSET BytePositions) /\ bytes_length(length) \in Nat
  BY SoundFacts, BytesCover DEF PayloadInv, encode_as_payload
<1>2. /\ done \in EncodeStates /\ done.encoded = n + Len(out)
      /\ \A j \in 1..Len(out) : out[j] = ByteAt(n + (j - 1))
  BY <1>1, EncodeForm
<1>3. /\ payload' = payload \o out /\ encoded_bytes' = done.encoded
      /\ length' = length /\ bitfield' = bitfield /\ low' = low /\ high' = high
  BY DEF encode_as_payload
<1>4. out \in Seq(SUBSET BytePositions) /\ done.encoded \in 0..bytes_length(length)
  BY <1>2 DEF EncodeStates
<1> HIDE DEF done, n, out
<1>5. Sound' /\ Members' = Members
  BY <1>1, <1>3, ReadSteps
<1>6. /\ payload' \in Seq(SUBSET BytePositions) /\ Len(payload') = encoded_bytes'
      /\ encoded_bytes' \in 0..bytes_length(length)
      /\ \A k \in 1..n : payload'[k] = payload[k]
      /\ \A j \in 1..Len(out) : payload'[n + j] = out[j]
  <2>1. /\ payload \o out \in Seq(SUBSET BytePositions)
        /\ Len(payload \o out) = Len(payload) + Len(out)
        /\ \A k \in 1..Len(payload) : (payload \o out)[k] = payload[k]
        /\ \A j \in 1..Len(out) : (payload \o out)[Len(payload) + j] = out[j]
    <3>1. payload \in Seq(SUBSET BytePositions) /\ out \in Seq(SUBSET BytePositions)
      BY <1>1, <1>4
    <3>2. QED
      BY <3>1
  <2>2. Len(payload) = n /\ done.encoded = n + Len(out)
    BY <1>1, <1>2
  <2>3. QED
    BY <1>3, <1>4, <2>1, <2>2
<1>7. ASSUME NEW i \in Nat, i \div ByteBits < encoded_bytes'
      PROVE  (i \in low => Says(payload', i)) /\ (Says(payload', i) => i \in high)
  <2> DEFINE d == i \div ByteBits
             e == ByteBits - 1 - (i % ByteBits)
  <2>1. d \in Nat /\ d < encoded_bytes' /\ (Says(payload', i) <=> e \in payload'[d + 1])
        /\ (Says(payload, i) <=> e \in payload[d + 1])
    BY <1>7, Bits, Split DEF Says
  <2>2. d < bytes_length(length)
    BY <1>1, <1>6, <2>1
  <2>3. e \in ByteAt(d) <=> i \in Members
    BY <1>1, <2>2, ByteAtSays
  <2>4. d < n => (i \in low => Says(payload, i)) /\ (Says(payload, i) => i \in high)
    BY DEF PayloadInv, n
  <2>5. low \subseteq Members /\ Members \subseteq high
    BY DEF PayloadInv
  <2> HIDE DEF d, e
  <2>6. CASE d < n
    <3>1. d + 1 \in 1..n
      BY <1>1, <2>1, <2>6
    <3>2. payload'[d + 1] = payload[d + 1]
      BY <1>6, <3>1
    <3>3. QED
      BY <2>1, <2>4, <2>6, <3>2
  <2>7. CASE d >= n
    <3> DEFINE j == (d + 1) - n
    <3>1. Len(out) \in Nat
      BY <1>4
    <3>2. encoded_bytes' = n + Len(out)
      BY <1>2, <1>3
    <3>3. j \in 1..Len(out) /\ d + 1 = n + j /\ n + (j - 1) = d
      BY <1>1, <2>1, <2>7, <3>1, <3>2
    <3> HIDE DEF j
    <3>4. payload'[d + 1] = ByteAt(d)
      BY <1>2, <1>6, <3>3
    <3>5. QED
      BY <2>1, <2>3, <2>5, <3>4
  <2>8. QED
    BY <1>1, <2>1, <2>6, <2>7
<1>8. \A i : Says(payload, i)' <=> Says(payload', i)
  BY DEF Says
<1>9. Indices' = Indices /\ bytes_length(length)' = bytes_length(length)
      /\ BytePositions' = BytePositions
  BY <1>3 DEF Indices, bytes_length, BytePositions
<1>10. low' \subseteq Members' /\ Members' \subseteq high' /\ high' \subseteq Indices'
  BY <1>3, <1>5, <1>9 DEF PayloadInv
<1>11. QED
  BY <1>3, <1>5, <1>6, <1>7, <1>8, <1>9, <1>10 DEF PayloadInv

\* A payload that is complete is one that decode_as_payload accepts.
LEMMA PayloadComplete ==
  ASSUME PayloadInv, encoded_bytes = bytes_length(length)
  PROVE  Decodable(payload)
<1> DEFINE B == ByteBits
           q == length \div B
           r == length % B
           n == bytes_length(length)
<1>1. length \in Nat \ {0} /\ n \in Nat \ {0} /\ Len(payload) = n
      /\ payload \in Seq(SUBSET BytePositions)
  BY SoundFacts, BytesCover DEF PayloadInv
<1>2. B \in Nat \ {0} /\ q \in Nat /\ r \in 0..(B - 1) /\ length = B * q + r
  BY <1>1, Bits, Split
<1>3. n = q + (IF r # 0 THEN 1 ELSE 0)
  BY DEF bytes_length
<1>4. ASSUME r # 0, NEW p \in 0..(B - r - 1), p \in payload[n] PROVE FALSE
  <2> DEFINE c == B - 1 - p
             i == B * q + c
  <2> HIDE DEF B, q, r, n
  <2>1. n = q + 1
    BY <1>3, <1>4
  <2>2. c \in 0..(B - 1) /\ c >= r /\ B - 1 - c = p
    BY <1>2, <1>4
  <2> HIDE DEF c
  <2>3. i \in Nat /\ i \div B = q /\ i % B = c
    BY <1>2, <2>2, Joined
  <2>4. i >= length
    <3>1. B * q \in Nat
      BY <1>2
    <3>2. QED
      BY <1>2, <2>2, <3>1
  <2> HIDE DEF i
  <2>5. Says(payload, i)
    <3>1. Says(payload, i) <=> B - 1 - (i % B) \in payload[(i \div B) + 1]
      BY DEF Says, B
    <3>2. B - 1 - (i % B) = p /\ (i \div B) + 1 = n
      BY <2>1, <2>2, <2>3
    <3>3. QED
      BY <1>4, <3>1, <3>2, Zenon
  <2>6. i \div ByteBits < encoded_bytes
    <3>1. q < n
      BY <1>2, <2>1
    <3>2. QED
      BY <2>3, <3>1 DEF B, n
  <2>7. i \in high /\ high \subseteq Indices
    BY <2>3, <2>5, <2>6 DEF PayloadInv
  <2>8. QED
    BY <1>1, <2>3, <2>4, <2>7 DEF Indices
<1>5. Last(payload) = payload[n]
  BY <1>1 DEF Last
<1>6. QED
  BY <1>1, <1>4, <1>5 DEF Decodable

\* So by every step.
LEMMA PayloadNext ==
  ASSUME PayloadInv, [Next]_vars
  PROVE  PayloadInv'
<1>1. Sound
  BY DEF PayloadInv
<1>2. CASE Change
  BY <1>1, <1>2, ChangeSteps, PayloadAltered
<1>3. CASE decode_as_payload
  BY <1>1, <1>3, DecodeSteps, PayloadAltered
<1>4. CASE Begin
  BY <1>4, PayloadBegin
<1>5. CASE \E target \in 0..(bytes_length(length) + 1) : encode_as_payload(target)
  <2>1. PICK target \in 0..(bytes_length(length) + 1) : encode_as_payload(target)
    BY <1>5
  <2>2. target \in Nat
    BY <1>1, SoundFacts, BytesCover
  <2>3. QED
    BY <2>1, <2>2, PayloadGrows
<1>6. CASE UNCHANGED vars
  <2>1. UNCHANGED <<length, bitfield, payload, encoded_bytes, low, high>>
    BY <1>6 DEF vars, sending
  <2>2. Sound' /\ Members' = Members
    BY <1>1, <2>1, ReadSteps
  <2>3. QED
    BY <2>1, <2>2 DEF PayloadInv, Says, Indices, bytes_length, BytePositions
<1>7. QED
  BY <1>2, <1>3, <1>4, <1>5, <1>6 DEF Next

\* With length 0 there is nothing to produce.
EmptyInv == Empty /\ payload = << >> /\ encoded_bytes = 0 /\ low = {} /\ high = {}

LEMMA EmptyPayload ==
  ASSUME EmptyInv, [Next]_vars
  PROVE  EmptyInv'
<1>1. Empty /\ Members = {} /\ bytes_length(length) = 0
  BY EmptyFacts DEF EmptyInv, Empty
<1>2. Empty'
  BY <1>1, EmptyNext
<1>3. CASE Change \/ decode_as_payload
  BY <1>1, <1>3, EmptySteps DEF EmptyInv, EmptyAltered, sending
<1>4. CASE Begin
  BY <1>1, <1>2, <1>4 DEF EmptyInv, Begin
<1>5. ASSUME NEW target, encode_as_payload(target) PROVE FALSE
  BY <1>1, <1>5 DEF EmptyInv, encode_as_payload
<1>6. CASE UNCHANGED vars
  BY <1>2, <1>6 DEF EmptyInv, vars, sending
<1>7. QED
  BY <1>3, <1>4, <1>5, <1>6 DEF Next

\* encode_as_payload (120-150) in as many calls as room is found for, with changes of the set
\* between them: whatever the length and the width of a word, what has been produced is the
\* beginning of a payload that is acceptable and that stands between the set's changes.
THEOREM PayloadIsFaithful == Spec => []PayloadFaithful
<1>1. Init => PayloadInv \/ EmptyInv
  BY PayloadInit, EmptyInit DEF EmptyInv, Init
<1>2. (PayloadInv \/ EmptyInv) /\ [Next]_vars => (PayloadInv \/ EmptyInv)'
  BY PayloadNext, EmptyPayload
<1>3. PayloadInv => PayloadFaithful
  <2> SUFFICES ASSUME PayloadInv PROVE PayloadFaithful
    OBVIOUS
  <2>1. Len(payload) = encoded_bytes
    BY DEF PayloadInv
  <2>2. encoded_bytes = bytes_length(length) => Decodable(payload)
    BY PayloadComplete
  <2>3. ASSUME NEW i \in Indices, i \div ByteBits < encoded_bytes
        PROVE  (i \in low => Says(payload, i)) /\ (Says(payload, i) => i \in high)
    <3>1. i \in Nat
      BY DEF Indices
    <3>2. QED
      BY <2>3, <3>1 DEF PayloadInv
  <2>4. QED
    BY <2>1, <2>2, <2>3 DEF PayloadFaithful, Says
<1>4. EmptyInv => PayloadFaithful
  <2> SUFFICES ASSUME EmptyInv PROVE PayloadFaithful
    OBVIOUS
  <2>1. length = 0 /\ bytes_length(length) = 0 /\ length % ByteBits = 0 /\ Indices = {}
    BY EmptyFacts DEF EmptyInv, Empty
  <2>2. Len(payload) = 0 /\ encoded_bytes = 0
    BY DEF EmptyInv
  <2>3. QED
    BY <2>1, <2>2 DEF PayloadFaithful, Decodable
<1>5. QED
  BY <1>1, <1>2, <1>3, <1>4, PTL DEF Spec
------------------------------------------------------------------------------
(* The queries.                                                            *)

\* The field as the queries see it.
LEMMA FieldFacts ==
  ASSUME Sound
  PROVE  /\ Len(bitfield) = words_length(length) /\ Len(bitfield) \in Nat \ {0}
         /\ Words = 1..Len(bitfield) /\ DOMAIN bitfield = 1..Len(bitfield)
         /\ bitfield \in Seq(SUBSET Positions)
         /\ bitfield \in [1..Len(bitfield) -> SUBSET Positions]
         /\ length \in Nat \ {0} /\ Members \subseteq Nat
         /\ WordBits * (Len(bitfield) - 1) < length /\ length <= WordBits * Len(bitfield)
<1> DEFINE n == words_length(length)
<1>1. bitfield \in [1..n -> SUBSET Positions] /\ length \in Nat \ {0} /\ Members \subseteq Indices
  BY SoundFacts DEF Words
<1>2. n \in Nat \ {0} /\ WordBits * (n - 1) < length /\ length <= WordBits * n
  BY <1>1, WordsCover
<1>3. Words = 1..n
  BY DEF Words
<1> HIDE DEF n
<1>4. Len(bitfield) = n /\ bitfield \in Seq(SUBSET Positions) /\ DOMAIN bitfield = 1..n
  BY <1>1, <1>2
<1>5. Members \subseteq Nat
  BY <1>1 DEF Indices
<1>6. QED
  BY <1>1, <1>2, <1>3, <1>4, <1>5 DEF n

\* Where the index of a position is, by words.
LEMMA InWord ==
  ASSUME NEW w \in Nat \ {0}, NEW p \in Positions
  PROVE  /\ IndexAt(w, p) \in Nat /\ WordBits * (w - 1) <= IndexAt(w, p)
         /\ IndexAt(w, p) < WordBits * w /\ WordBits * w \in Nat /\ WordBits * (w - 1) \in Nat
         /\ WordBits * w = WordBits * (w - 1) + WordBits
         /\ IndexAt(w, p) = WordBits * (w - 1) + (WordBits - 1 - p)
<1>1. WordBits \in Nat \ {0} /\ p \in 0..(WordBits - 1)
  BY Bits DEF Positions
<1>2. WordBits * w = WordBits * (w - 1) + WordBits /\ WordBits * (w - 1) \in Nat
  BY <1>1
<1>3. IndexAt(w, p) = WordBits * (w - 1) + (WordBits - 1 - p)
  BY DEF IndexAt
<1>4. QED
  BY <1>1, <1>2, <1>3

\* A member is a position of one of the words.
LEMMA MemberPlace ==
  ASSUME Sound, NEW i \in Members
  PROVE  \E w \in 1..Len(bitfield) : \E p \in bitfield[w] : p \in Positions /\ IndexAt(w, p) = i
<1>1. i \in Nat /\ i \in Indices
  BY SoundFacts, FieldFacts
<1>2. /\ get_index(i).word \in Words /\ get_index(i).index \in Positions
      /\ IndexAt(get_index(i).word, get_index(i).index) = i
  BY <1>1, SoundFacts, WordsCover, Located
<1>3. get_index(i).index \in bitfield[get_index(i).word]
  BY <1>2, SoundFacts
<1>4. QED
  BY <1>2, <1>3, FieldFacts

\* A bit of a word is a member.
LEMMA PlaceMember ==
  ASSUME Sound, NEW w \in 1..Len(bitfield), NEW p \in bitfield[w]
  PROVE  w \in Nat \ {0} /\ p \in Positions /\ IndexAt(w, p) \in Members
<1>1. w \in Words /\ w \in Nat \ {0} /\ p \in Positions
  BY FieldFacts
<1>2. QED
  BY <1>1, SoundFacts

\* none() tells whether there is a member.
LEMMA NoneAgrees ==
  ASSUME Sound
  PROVE  none <=> Members = {}
<1>1. ASSUME none, NEW i \in Members PROVE FALSE
  BY <1>1, MemberPlace, FieldFacts DEF none, any
<1>2. ASSUME Members = {}, NEW w \in DOMAIN bitfield, bitfield[w] # {} PROVE FALSE
  <2>1. PICK p \in bitfield[w] : TRUE
    BY <1>2
  <2>2. w \in 1..Len(bitfield)
    BY FieldFacts
  <2>3. QED
    BY <1>2, <2>1, <2>2, PlaceMember
<1>3. QED
  BY <1>1, <1>2 DEF none, any

\* The leading ones of a word are counted right.
LEMMA LeadingOnes ==
  ASSUME NEW word \in SUBSET Positions, NEW r \in 1..WordBits
  PROVE  LET ones == CHOOSE n \in 0..WordBits :
                       /\ (WordBits - n)..(WordBits - 1) \subseteq word
                       /\ n < WordBits => WordBits - 1 - n \notin word
         IN  /\ ones = r => (WordBits - r)..(WordBits - 1) \subseteq word
             /\ word = (WordBits - r)..(WordBits - 1) => ones = r
<1> DEFINE W == WordBits
           Ok(n) == (W - n)..(W - 1) \subseteq word /\ (n < W => W - 1 - n \notin word)
           ones == CHOOSE n \in 0..W : Ok(n)
<1>1. W \in Nat \ {0}
  BY Bits
<1> HIDE DEF W
<1>2. \E n \in 0..W : Ok(n)
  <2> DEFINE S == {n \in 0..W : n = W \/ W - 1 - n \notin word}
  <2>1. W \in S /\ S \subseteq Nat
    BY <1>1
  <2>2. PICK n \in S : \A m \in S : n <= m
    <3> HIDE DEF S
    <3>1. QED
      BY <2>1, LeastNat
  <2>3. ASSUME NEW p \in (W - n)..(W - 1), p \notin word PROVE FALSE
    <3> DEFINE m == W - 1 - p
    <3>1. n \in 0..W
      OBVIOUS
    <3>2. m \in 0..W /\ m < n /\ W - 1 - m = p
      BY <1>1, <3>1
    <3>3. m \in S
      BY <2>3, <3>2
    <3>4. QED
      BY <2>2, <3>1, <3>2, <3>3
  <2>4. n < W => W - 1 - n \notin word
    BY <1>1
  <2>5. QED
    BY <2>3, <2>4
<1>3. ones \in 0..W /\ Ok(ones)
  <2> HIDE DEF Ok
  <2>1. QED
    BY <1>2, Zenon
<1> HIDE DEF ones
<1>4. ASSUME word = (W - r)..(W - 1) PROVE ones = r
  <2>1. r \in 1..W
    BY DEF W
  <2>2. ~(ones < r)
    <3> SUFFICES ASSUME ones < r PROVE FALSE
      OBVIOUS
    <3>1. W - 1 - ones \in (W - r)..(W - 1) /\ ones < W
      BY <1>1, <1>3, <2>1
    <3>2. QED
      BY <1>3, <1>4, <3>1
  <2>3. ~(ones > r)
    <3> SUFFICES ASSUME ones > r PROVE FALSE
      OBVIOUS
    <3>1. W - 1 - r \in (W - ones)..(W - 1) /\ W - 1 - r \notin (W - r)..(W - 1)
      BY <1>1, <1>3, <2>1
    <3>2. QED
      BY <1>3, <1>4, <3>1
  <2>4. QED
    BY <1>1, <1>3, <2>1, <2>2, <2>3
<1>5. ones = r => (W - r)..(W - 1) \subseteq word
  BY <1>3
<1>6. QED
  BY <1>4, <1>5 DEF ones, W

\* The bits of the last word that are within the length.
LEMMA LastRoom ==
  ASSUME Sound
  PROVE  LET r == IF length % WordBits # 0 THEN length % WordBits ELSE WordBits IN
         r \in 1..WordBits /\ length = WordBits * (Len(bitfield) - 1) + r
<1> DEFINE W == WordBits
           q == length \div W
           r == length % W
           n == Len(bitfield)
<1>1. W \in Nat \ {0} /\ q \in Nat /\ r \in 0..(W - 1) /\ length = W * q + r
  BY Bits, Split, FieldFacts
<1>2. n = q + (IF r # 0 THEN 1 ELSE 0)
  BY FieldFacts DEF words_length
<1> HIDE DEF W, q, r, n
<1>3. CASE r # 0
  <2>1. n - 1 = q
    BY <1>1, <1>2, <1>3
  <2>2. r \in 1..W /\ length = W * (n - 1) + r
    BY <1>1, <1>3, <2>1
  <2>3. QED
    BY <1>3, <2>2 DEF W, r, n
<1>4. CASE r = 0
  <2>1. n = q /\ W * (q - 1) + W = W * q
    BY <1>1, <1>2, <1>4
  <2>2. W \in 1..W /\ length = W * (n - 1) + W
    BY <1>1, <1>4, <2>1
  <2>3. QED
    BY <1>4, <2>2 DEF W, r, n
<1>5. QED
  BY <1>3, <1>4

\* all() tells whether every index is a member, the bits of the last word included.
LEMMA AllAgrees ==
  ASSUME Sound
  PROVE  all <=> Members = Indices
<1> DEFINE W == WordBits
           n == Len(bitfield)
           r == IF length % WordBits # 0 THEN length % WordBits ELSE WordBits
           last == bitfield[n]
           top == (W - r)..(W - 1)
           ones == CHOOSE m \in 0..WordBits :
                     /\ (WordBits - m)..(WordBits - 1) \subseteq last
                     /\ m < WordBits => WordBits - 1 - m \notin last
<1>1. W \in Nat \ {0} /\ n \in Nat \ {0} /\ r \in 1..W /\ length = W * (n - 1) + r
      /\ W * (n - 1) \in Nat
  <2>1. r \in 1..W /\ length = W * (n - 1) + r
    BY LastRoom
  <2>2. W \in Nat \ {0} /\ n \in Nat \ {0}
    BY Bits, FieldFacts
  <2>3. QED
    BY <2>1, <2>2
<1>2. last \in SUBSET Positions /\ last = Last(bitfield)
  BY <1>1, FieldFacts DEF Last
<1>3. all <=> (\A w \in 1..(n - 1) : bitfield[w] = Positions) /\ ones = r
  BY <1>2, SoundFacts DEF all
<1>4. (ones = r => top \subseteq last) /\ (last = top => ones = r)
  BY <1>1, <1>2, LeadingOnes
<1> HIDE DEF r, last, ones
<1>5. ASSUME NEW w \in 1..n, NEW p \in Positions
      PROVE  /\ p \in bitfield[w] <=> IndexAt(w, p) \in Members
             /\ IndexAt(w, p) \in Indices <=> w < n \/ p \in top
  <2>1. w \in Words /\ w \in Nat \ {0} /\ (p \in bitfield[w] <=> IndexAt(w, p) \in Members)
    BY FieldFacts, SoundFacts
  <2>2. /\ IndexAt(w, p) \in Nat /\ IndexAt(w, p) < W * w /\ W * w \in Nat
        /\ IndexAt(w, p) = W * (w - 1) + (W - 1 - p)
    BY <2>1, InWord
  <2>3. IndexAt(w, p) \in Indices <=> IndexAt(w, p) < length
    BY <1>1, <2>2 DEF Indices
  <2>4. CASE w < n
    <3>1. W * w <= W * (n - 1)
      <4>1. w < n - 1 => W * w < W * (n - 1)
        <5>1. n - 1 \in Nat /\ w \in Nat
          BY <1>1, <2>1
        <5>2. QED
          BY <1>1, <5>1, Times
      <4>2. w = n - 1 => W * w = W * (n - 1)
        OBVIOUS
      <4>3. QED
        BY <1>1, <2>1, <2>2, <2>4, <4>1, <4>2
    <3>2. IndexAt(w, p) < length
      BY <1>1, <2>2, <3>1
    <3>3. QED
      BY <2>1, <2>3, <2>4, <3>2
  <2>5. CASE w = n
    <3>1. p \in 0..(W - 1)
      BY DEF Positions
    <3>2. IndexAt(w, p) = W * (n - 1) + (W - 1 - p)
      BY <2>2, <2>5
    <3>3. IndexAt(w, p) < length <=> p \in top
      BY <1>1, <3>1, <3>2
    <3>4. QED
      BY <1>1, <2>1, <2>3, <2>5, <3>3
  <2>6. QED
    BY <1>1, <2>4, <2>5
<1>6. top \subseteq Positions
  BY <1>1 DEF Positions
<1>7. ASSUME all PROVE Members = Indices
  <2>1. Members \subseteq Indices
    BY SoundFacts
  <2>2. ASSUME NEW i \in Indices PROVE i \in Members
    <3> DEFINE w == get_index(i).word
               p == get_index(i).index
    <3>1. w \in 1..n /\ p \in Positions /\ IndexAt(w, p) = i
      <4>1. i \in Nat
        BY DEF Indices
      <4>2. QED
        BY <4>1, Located, WordsCover, SoundFacts, FieldFacts
    <3> HIDE DEF w, p, n, W, top
    <3>2. w < n \/ p \in top
      BY <1>5, <3>1
    <3>3. p \in bitfield[w]
      <4>1. CASE w < n
        <5>1. w \in 1..(n - 1)
          BY <1>1, <3>1, <4>1
        <5>2. QED
          BY <1>3, <1>7, <3>1, <5>1
      <4>2. CASE w = n /\ p \in top
        BY <1>3, <1>4, <1>7, <4>2 DEF last
      <4>3. QED
        BY <1>1, <3>1, <3>2, <4>1, <4>2
    <3>4. QED
      BY <1>5, <3>1, <3>3
  <2>3. QED
    BY <2>1, <2>2
<1>8. ASSUME Members = Indices PROVE all
  <2> HIDE DEF n, W, top
  <2>1. ASSUME NEW w \in 1..(n - 1) PROVE bitfield[w] = Positions
    <3>1. w \in 1..n /\ w < n
      BY <1>1
    <3>2. bitfield[w] \subseteq Positions
      BY <3>1, FieldFacts DEF n
    <3>3. \A p \in Positions : p \in bitfield[w]
      BY <1>5, <1>8, <3>1
    <3>4. QED
      BY <3>2, <3>3
  <2>2. last = top
    <3>1. n \in 1..n /\ ~(n < n)
      BY <1>1
    <3>2. \A p \in Positions : p \in bitfield[n] <=> p \in top
      BY <1>5, <1>8, <3>1
    <3>3. QED
      BY <1>2, <1>6, <3>2 DEF last
  <2>3. QED
    BY <1>3, <1>4, <2>1, <2>2
<1>9. QED
  BY <1>7, <1>8
------------------------------------------------------------------------------
(* The iterators of set_range_t.                                           *)

\* An iterator, whose cached bits are some of its word's.
Iterators ==
  {it \in [word_index : 1..Len(bitfield), cached_reads : SUBSET Positions] :
     it.cached_reads \subseteq bitfield[it.word_index]}

\* The members still to be read.
Rest(it) ==
  {IndexAt(it.word_index, p) : p \in it.cached_reads}
    \cup {i \in Members : i >= WordBits * it.word_index}

\* The iterator is at the end, or at a bit.
Settled(it) == it = end \/ it.cached_reads # {}

\* What is left to an iterator are members.
LEMMA IteratorFacts ==
  ASSUME Sound, NEW it \in Iterators
  PROVE  /\ it.word_index \in 1..Len(bitfield) /\ it.word_index \in Nat \ {0}
         /\ it.cached_reads \subseteq bitfield[it.word_index] /\ it.cached_reads \subseteq Positions
         /\ it = [word_index |-> it.word_index, cached_reads |-> it.cached_reads]
         /\ Rest(it) \subseteq Members
<1>1. /\ it.word_index \in 1..Len(bitfield) /\ it.cached_reads \subseteq bitfield[it.word_index]
      /\ it.cached_reads \subseteq Positions
      /\ it = [word_index |-> it.word_index, cached_reads |-> it.cached_reads]
  BY DEF Iterators
<1>2. it.word_index \in Nat \ {0}
  BY <1>1, FieldFacts
<1>3. \A p \in it.cached_reads : IndexAt(it.word_index, p) \in Members
  BY <1>1, PlaceMember
<1>4. Rest(it) \subseteq Members
  BY <1>3 DEF Rest
<1>5. QED
  BY <1>1, <1>2, <1>4

\* A member is after the words up to w if and only if its own word is.
LEMMA AfterWord ==
  ASSUME NEW v \in Nat \ {0}, NEW p \in Positions, NEW w \in Nat
  PROVE  IndexAt(v, p) >= WordBits * w <=> v > w
<1> DEFINE W == WordBits
           i == IndexAt(v, p)
           u == v - 1
<1>1. W \in Nat \ {0} /\ u \in Nat /\ v = u + 1
  BY Bits
<1>2. /\ i \in Nat /\ W * u <= i /\ i < W * v /\ W * v \in Nat /\ W * u \in Nat
  BY InWord
<1> HIDE DEF W, i, u
<1>3. W * w \in Nat
  BY <1>1
<1>4. CASE v > w
  <2>1. w < u => W * w < W * u
    BY <1>1, Times
  <2>2. w = u \/ w < u
    BY <1>1, <1>4
  <2>3. i >= W * w
    BY <1>2, <1>3, <2>1, <2>2
  <2>4. QED
    BY <1>4, <2>3 DEF W, i
<1>5. CASE v <= w
  <2>1. v < w => W * v < W * w
    BY <1>1, Times
  <2>2. v = w \/ v < w
    BY <1>5
  <2>3. ~(i >= W * w)
    BY <1>2, <1>3, <2>1, <2>2
  <2>4. QED
    BY <1>5, <2>3 DEF W, i
<1>6. QED
  BY <1>4, <1>5

\* At the end nothing is left.
LEMMA EndFacts ==
  ASSUME Sound
  PROVE  end \in Iterators /\ Rest(end) = {}
<1> DEFINE n == Len(bitfield)
<1>1. n \in Nat \ {0} /\ length \in Nat /\ length <= WordBits * n
  BY FieldFacts
<1>2. end.word_index = n /\ end.cached_reads = {} /\ end \in Iterators
  BY <1>1 DEF end, Iterators
<1>3. ASSUME NEW i \in Members PROVE ~(i >= WordBits * n)
  <2>1. i \in Nat /\ i < length
    BY SoundFacts, FieldFacts DEF Indices
  <2>2. WordBits * n \in Nat
    BY <1>1, Bits
  <2>3. QED
    BY <1>1, <2>1, <2>2
<1>4. QED
  BY <1>2, <1>3 DEF Rest

\* operator++ passes over empty words only, and stops at a bit or at the end.
LEMMA IncrementedKeeps ==
  ASSUME Sound, NEW it \in Iterators
  PROVE  /\ Incremented(it) \in Iterators /\ Settled(Incremented(it))
         /\ Rest(Incremented(it)) = Rest(it)
<1> DEFINE n == Len(bitfield)
           v == it.word_index
           later == {w \in (v + 1)..n : bitfield[w] # {} \/ w = n}
<1>1. n \in Nat \ {0} /\ v \in 1..n /\ v \in Nat \ {0}
      /\ it = [word_index |-> v, cached_reads |-> it.cached_reads]
  BY FieldFacts, IteratorFacts
<1>2. Incremented(it) = IF it.cached_reads # {} \/ later = {} THEN it
                        ELSE [word_index |-> Min(later), cached_reads |-> bitfield[Min(later)]]
  BY DEF Incremented
<1> HIDE DEF n, v, later
<1>3. CASE it.cached_reads # {}
  BY <1>2, <1>3 DEF Settled
<1>4. CASE it.cached_reads = {} /\ later = {}
  <2>1. v = n
    BY <1>1, <1>4 DEF later
  <2>2. it = end
    BY <1>1, <1>4, <2>1 DEF end, n
  <2>3. QED
    BY <1>2, <1>4, <2>2 DEF Settled
<1>5. CASE it.cached_reads = {} /\ later # {}
  <2> DEFINE m == Min(later)
             next == [word_index |-> m, cached_reads |-> bitfield[m]]
  <2>1. m \in later /\ \A y \in later : m <= y
    <3>1. later \subseteq Nat
      BY <1>1 DEF later
    <3>2. QED
      BY <1>5, <3>1, MinInside
  <2> HIDE DEF m
  <2>2. m \in 1..n /\ m \in Nat \ {0} /\ v < m /\ (bitfield[m] # {} \/ m = n)
    BY <1>1, <2>1 DEF later
  <2>3. Incremented(it) = next
    BY <1>2, <1>5 DEF m
  <2>4. next.word_index = m /\ next.cached_reads = bitfield[m]
    OBVIOUS
  <2>5. next \in Iterators
    <3>1. bitfield[m] \in SUBSET Positions
      BY <2>2, FieldFacts DEF n
    <3>2. QED
      BY <2>2, <3>1 DEF Iterators, n
  <2>6. Settled(next)
    <3>1. CASE bitfield[m] # {}
      BY <2>4, <3>1 DEF Settled
    <3>2. CASE bitfield[m] = {}
      BY <2>2, <3>2 DEF Settled, end, n
    <3>3. QED
      BY <3>1, <3>2
  <2> HIDE DEF next
  <2>7. ASSUME NEW i PROVE i \in Rest(next) <=> i \in Rest(it)
    <3>1. i \in Rest(it) <=> i \in Members /\ i >= WordBits * v
      BY <1>5 DEF Rest, v
    <3>2. i \in Rest(next) <=>
          (\E p \in bitfield[m] : i = IndexAt(m, p)) \/ (i \in Members /\ i >= WordBits * m)
      BY <2>4 DEF Rest
    <3>3. ASSUME NEW p \in bitfield[m], i = IndexAt(m, p) PROVE i \in Rest(it)
      <4>1. p \in Positions /\ IndexAt(m, p) \in Members
        BY <2>2, PlaceMember DEF n
      <4>2. IndexAt(m, p) >= WordBits * v
        BY <1>1, <2>2, <4>1, AfterWord
      <4>3. QED
        BY <3>1, <3>3, <4>1, <4>2
    <3>4. ASSUME i \in Members PROVE i \in Rest(next) <=> i \in Rest(it)
      <4>1. PICK w \in 1..n : \E p \in bitfield[w] : p \in Positions /\ IndexAt(w, p) = i
        BY <3>4, MemberPlace DEF n
      <4>2. PICK p \in bitfield[w] : p \in Positions /\ IndexAt(w, p) = i
        BY <4>1
      <4>3. w \in Nat \ {0}
        BY <1>1
      <4>4. (i >= WordBits * v <=> w > v) /\ (i >= WordBits * m <=> w > m)
        <5>1. v \in Nat /\ m \in Nat
          BY <1>1, <2>2
        <5>2. IndexAt(w, p) >= WordBits * v <=> w > v
          BY <4>2, <4>3, <5>1, AfterWord
        <5>3. IndexAt(w, p) >= WordBits * m <=> w > m
          BY <4>2, <4>3, <5>1, AfterWord
        <5>4. QED
          BY <4>2, <5>2, <5>3
      <4>5. w > v => w >= m
        <5> SUFFICES ASSUME w > v PROVE w >= m
          OBVIOUS
        <5>1. w \in later
          BY <1>1, <4>2, <4>3 DEF later
        <5>2. QED
          BY <2>1, <2>2, <4>3, <5>1
      <4>6. w > m => w > v
        BY <1>1, <2>2, <4>3
      <4>7. CASE w = m
        BY <2>2, <3>1, <3>2, <3>4, <4>2, <4>4, <4>7
      <4>8. CASE w # m
        <5>1. w > v <=> w > m
          BY <2>2, <4>3, <4>5, <4>6, <4>8
        <5>2. i \in Rest(it) => i \in Rest(next)
          BY <3>1, <3>2, <4>4, <5>1
        <5>3. i \in Rest(next) => i \in Rest(it)
          BY <3>1, <3>2, <3>3, <3>4, <4>4, <5>1
        <5>4. QED
          BY <5>2, <5>3
      <4>9. QED
        BY <4>7, <4>8
    <3>5. i \in Rest(next) \/ i \in Rest(it) => i \in Members
      BY <2>5, IteratorFacts
    <3>6. QED
      BY <3>4, <3>5
  <2>8. QED
    BY <2>3, <2>5, <2>6, <2>7
<1>6. QED
  BY <1>3, <1>4, <1>5

\* operator* is the least of what is left, and takes just that.
LEMMA DerefTakes ==
  ASSUME Sound, NEW it \in Iterators, it.cached_reads # {}
  PROVE  /\ Deref(it) \in Rest(it) /\ \A i \in Rest(it) : Deref(it) <= i
         /\ WithRead(it) \in Iterators /\ Rest(WithRead(it)) = Rest(it) \ {Deref(it)}
<1> DEFINE v == it.word_index
           S == it.cached_reads
           m == Max(S)
           d == IndexAt(v, m)
           W == WordBits
<1>1. /\ v \in 1..Len(bitfield) /\ v \in Nat \ {0}
      /\ S \subseteq bitfield[v] /\ S \subseteq Positions
      /\ it = [word_index |-> v, cached_reads |-> S] /\ Rest(it) \subseteq Members /\ S # {}
  BY IteratorFacts
<1>2. W \in Nat \ {0} /\ Positions = 0..(W - 1)
  BY Bits DEF Positions
<1>3. Deref(it) = d
  BY DEF Deref, IndexAt
<1>4. WithRead(it) = [word_index |-> v, cached_reads |-> S \ {m}]
  <2> DEFINE x == S \ {Max(S)}
  <2> HIDE DEF x
  <2>1. it \in [word_index : 1..Len(bitfield), cached_reads : SUBSET Positions]
    BY DEF Iterators
  <2>2. WithRead(it) = [it EXCEPT !.cached_reads = x]
    BY DEF WithRead, x
  <2>3. [it EXCEPT !.cached_reads = x] = [word_index |-> it.word_index, cached_reads |-> x]
    BY <2>1
  <2>4. QED
    BY <2>2, <2>3 DEF x
<1>5. \A i : i \in Rest(it) <=> (\E p \in S : i = IndexAt(v, p)) \/ (i \in Members /\ i >= W * v)
  BY DEF Rest
<1>6. m \in S /\ \A p \in S : p <= m
  <2> HIDE DEF S, W, m
  <2> DEFINE D == {W - 1 - p : p \in S}
  <2>1. D \subseteq Nat /\ D # {}
    BY <1>1, <1>2
  <2>2. PICK e \in D : \A f \in D : e <= f
    <3> HIDE DEF D
    <3>1. QED
      BY <2>1, LeastNat
  <2>3. PICK p \in S : e = W - 1 - p
    OBVIOUS
  <2>4. \A q \in S : q <= p
    <3> SUFFICES ASSUME NEW q \in S PROVE q <= p
      OBVIOUS
    <3>1. W - 1 - p <= W - 1 - q
      BY <2>2, <2>3
    <3>2. QED
      BY <1>1, <1>2, <3>1
  <2>5. S \subseteq Int /\ \A q \in S : p >= q
    BY <1>1, <1>2, <2>4
  <2>6. Max(S) = p
    BY <2>5, MaxIs
  <2>7. QED
    BY <2>4, <2>6 DEF m
<1> HIDE DEF v, S, m, W
<1>7. ASSUME NEW p \in S
      PROVE  IndexAt(v, p) \in Nat /\ d <= IndexAt(v, p) /\ (IndexAt(v, p) = d <=> p = m)
             /\ IndexAt(v, p) < W * v
  <2> DEFINE b == W * (v - 1)
  <2>1. p \in 0..(W - 1) /\ m \in 0..(W - 1) /\ p <= m
    BY <1>1, <1>2, <1>6
  <2>2. /\ IndexAt(v, p) \in Nat /\ IndexAt(v, p) < W * v /\ b \in Nat
        /\ IndexAt(v, p) = b + (W - 1 - p)
    BY <1>1, InWord DEF W
  <2>3. d = b + (W - 1 - m)
    BY <1>1, <1>6, InWord DEF W
  <2> HIDE DEF b, d
  <2>4. QED
    BY <1>2, <2>1, <2>2, <2>3
<1>8. d \in Rest(it) /\ d \in Nat /\ d < W * v /\ W * v \in Nat
  <2>1. d \in Nat /\ d < W * v
    BY <1>6, <1>7
  <2>2. W * v \in Nat
    BY <1>1, <1>2
  <2>3. QED
    BY <1>5, <1>6, <2>1, <2>2
<1> HIDE DEF d
<1>9. ASSUME NEW i \in Rest(it) PROVE d <= i
  <2>1. i \in Nat
    BY <1>1, FieldFacts
  <2>2. CASE \E p \in S : i = IndexAt(v, p)
    BY <1>7, <2>2
  <2>3. CASE i >= W * v
    BY <1>8, <2>1, <2>3
  <2>4. QED
    BY <1>5, <2>2, <2>3
<1>10. WithRead(it) \in Iterators
  <2>1. S \ {m} \in SUBSET Positions /\ S \ {m} \subseteq bitfield[v]
    BY <1>1
  <2>2. QED
    BY <1>1, <1>4, <2>1 DEF Iterators
<1>11. ASSUME NEW i PROVE i \in Rest(WithRead(it)) <=> i \in Rest(it) /\ i # d
  <2>1. i \in Rest(WithRead(it)) <=>
          (\E p \in S \ {m} : i = IndexAt(v, p)) \/ (i \in Members /\ i >= W * v)
    BY <1>4 DEF Rest, W
  <2>2. i >= W * v => i # d
    BY <1>8
  <2>3. \A p \in S : (p # m <=> IndexAt(v, p) # d)
    BY <1>7
  <2>4. QED
    BY <1>5, <2>1, <2>2, <2>3
<1>12. QED
  BY <1>3, <1>8, <1>9, <1>10, <1>11

\* A settled iterator is at the end, or at the least that is left.
LEMMA AtLeast ==
  ASSUME Sound, NEW it \in Iterators, Settled(it)
  PROVE  /\ it = end <=> Rest(it) = {}
         /\ it # end => it.cached_reads # {} /\ Deref(it) = Min(Rest(it))
<1>1. CASE it = end
  BY <1>1, EndFacts
<1>2. CASE it # end
  <2>1. it.cached_reads # {}
    BY <1>2 DEF Settled
  <2>2. Deref(it) \in Rest(it) /\ \A i \in Rest(it) : Deref(it) <= i
    BY <2>1, DerefTakes
  <2>3. Rest(it) \subseteq Nat
    BY IteratorFacts, FieldFacts
  <2>4. Min(Rest(it)) = Deref(it)
    BY <2>2, <2>3, MinIs
  <2>5. QED
    BY <1>2, <2>1, <2>2, <2>4
<1>3. QED
  BY <1>1, <1>2

\* begin() is settled, with all members to be read.
LEMMA BeginFacts ==
  ASSUME Sound
  PROVE  begin_ \in Iterators /\ Settled(begin_) /\ Rest(begin_) = Members
<1> DEFINE start == [word_index |-> 1, cached_reads |-> bitfield[1]]
<1>1. Len(bitfield) \in Nat \ {0} /\ bitfield[1] \in SUBSET Positions /\ 1 \in 1..Len(bitfield)
  BY FieldFacts
<1>2. start \in Iterators /\ start.word_index = 1 /\ start.cached_reads = bitfield[1]
  BY <1>1 DEF Iterators
<1> HIDE DEF start
<1>3. Rest(start) = Members
  <2>1. Rest(start) \subseteq Members
    BY <1>2, IteratorFacts
  <2>2. ASSUME NEW i \in Members PROVE i \in Rest(start)
    <3>1. PICK w \in 1..Len(bitfield) : \E p \in bitfield[w] : p \in Positions /\ IndexAt(w, p) = i
      BY MemberPlace
    <3>2. PICK p \in bitfield[w] : p \in Positions /\ IndexAt(w, p) = i
      BY <3>1
    <3>3. w \in Nat \ {0} /\ 1 \in Nat
      BY <1>1
    <3>4. IndexAt(w, p) >= WordBits * 1 <=> w > 1
      BY <3>2, <3>3, AfterWord
    <3>5. CASE w = 1
      BY <1>2, <3>2, <3>5 DEF Rest
    <3>6. CASE w > 1
      <4>1. i >= WordBits * start.word_index
        BY <1>2, <3>2, <3>4, <3>6
      <4>2. QED
        BY <4>1 DEF Rest
    <3>7. QED
      BY <3>3, <3>5, <3>6
  <2>3. QED
    BY <2>1, <2>2
<1>4. /\ Incremented(start) \in Iterators /\ Settled(Incremented(start))
      /\ Rest(Incremented(start)) = Members
  BY <1>2, <1>3, IncrementedKeeps
<1>5. begin_ = IF test(0) THEN start ELSE Incremented(start)
  BY SoundFacts DEF begin_, start
<1>6. ASSUME test(0) PROVE Settled(start)
  <2>1. 0 \in Nat
    OBVIOUS
  <2>2. get_index(0).index \in bitfield[get_index(0).word]
    BY <1>6 DEF test
  <2>3. get_index(0).word = 1
    <3>1. 0 \div WordBits = 0
      BY Bits
    <3>2. QED
      BY <3>1 DEF get_index
  <2>4. QED
    BY <1>2, <2>2, <2>3 DEF Settled
<1>7. QED
  BY <1>2, <1>3, <1>4, <1>5, <1>6

\* find_first returns the least member, or npos.
LEMMA FindFirstAgrees ==
  ASSUME Sound
  PROVE  find_first = IF Members = {} THEN npos ELSE Min(Members)
<1>1. (begin_ = end <=> Members = {}) /\ (begin_ # end => Deref(begin_) = Min(Members))
  BY BeginFacts, AtLeast
<1>2. QED
  BY <1>1 DEF find_first

\* find_next(i) returns the least member above i, or npos.
LEMMA FindNextAgrees ==
  ASSUME Sound, NEW i \in 0..length
  PROVE  LET After == {j \in Members : j > i} IN
         find_next(i) = IF After = {} THEN npos ELSE Min(After)
<1> DEFINE After == {j \in Members : j > i}
<1>1. length \in Nat \ {0} /\ i \in Nat
  BY FieldFacts
<1>2. CASE i >= length
  <2>1. After = {}
    BY <1>1, <1>2, SoundFacts DEF Indices
  <2>2. find_next(i) = npos
    BY <1>2 DEF find_next
  <2>3. QED
    BY <2>1, <2>2
<1>3. CASE i < length
  <2> DEFINE W == WordBits
             w == (i \div W) + 1
             r == i % W
             it == [word_index |-> w, cached_reads |-> bitfield[w] \cap Above(i)]
             next == Incremented(it)
  <2>1. i \in Indices
    BY <1>1, <1>3 DEF Indices
  <2>2. w \in 1..Len(bitfield) /\ w \in Nat \ {0}
    <3>1. get_index(i).word \in Words /\ get_index(i).word = w
      BY <2>1, SoundFacts, WordsCover DEF get_index
    <3>2. QED
      BY <3>1, FieldFacts
  <2>3. W \in Nat \ {0} /\ r \in 0..(W - 1) /\ i = W * (w - 1) + r
    <3> DEFINE q == i \div W
    <3>1. W \in Nat \ {0} /\ q \in Nat /\ r \in 0..(W - 1) /\ i = W * q + r
      BY <1>1, Bits, Split
    <3>2. w - 1 = q
      BY <3>1
    <3>3. QED
      BY <3>1, <3>2
  <2>4. Above(i) = {p \in Positions : p < W - 1 - r}
    BY DEF Above
  <2> HIDE DEF w, r, W
  <2>5. it \in Iterators /\ it.word_index = w /\ it.cached_reads = bitfield[w] \cap Above(i)
    <3>1. bitfield[w] \cap Above(i) \in SUBSET Positions
      BY <2>4
    <3>2. QED
      BY <2>2, <3>1 DEF Iterators
  <2> HIDE DEF it
  <2>6. Rest(it) = After
    <3>1. ASSUME NEW j \in Members PROVE j \in Rest(it) <=> j > i
      <4>1. PICK v \in 1..Len(bitfield) :
              \E p \in bitfield[v] : p \in Positions /\ IndexAt(v, p) = j
        BY MemberPlace
      <4>2. PICK p \in bitfield[v] : p \in Positions /\ IndexAt(v, p) = j
        BY <4>1
      <4>3. v \in Nat \ {0} /\ w \in Nat /\ j \in Nat
        BY <2>2, FieldFacts
      <4>4. j \in Rest(it) <=>
              (\E x \in bitfield[w] \cap Above(i) : j = IndexAt(w, x)) \/ j >= W * w
        BY <2>5 DEF Rest, W
      <4>5. j >= W * w <=> v > w
        BY <4>2, <4>3, AfterWord DEF W
      <4>6. /\ W * (w - 1) \in Nat /\ W * w = W * (w - 1) + W /\ W * w \in Nat
        BY <2>2, <2>3
      <4>7. CASE v > w
        <5>1. j > i
          BY <1>1, <2>3, <4>3, <4>5, <4>6, <4>7
        <5>2. QED
          BY <4>4, <4>5, <4>7, <5>1
      <4>8. CASE v = w
        <5>1. j = W * (w - 1) + (W - 1 - p) /\ p \in 0..(W - 1)
          BY <4>2, <4>8 DEF IndexAt, W, Positions
        <5>2. j > i <=> p < W - 1 - r
          BY <2>3, <4>6, <5>1
        <5>3. p \in Above(i) <=> p < W - 1 - r
          BY <2>4, <4>2
        <5>4. ASSUME NEW x \in bitfield[w] \cap Above(i), j = IndexAt(w, x) PROVE p \in Above(i)
          <6>1. x \in Positions
            BY <2>4
          <6>2. j = W * (w - 1) + (W - 1 - x) /\ x \in 0..(W - 1)
            BY <5>4, <6>1 DEF IndexAt, W, Positions
          <6>3. x = p
            BY <2>3, <4>6, <5>1, <6>2
          <6>4. QED
            BY <6>3
        <5>5. QED
          BY <4>2, <4>3, <4>4, <4>5, <4>8, <5>2, <5>3, <5>4
      <4>9. CASE v < w
        <5>1. v \in Nat \ {0} /\ w - 1 \in Nat
          BY <2>2, <4>3
        <5>2. IndexAt(v, p) >= W * (w - 1) <=> v > w - 1
          BY <4>2, <5>1, AfterWord DEF W
        <5>3. j < W * (w - 1)
          BY <4>2, <4>3, <4>6, <4>9, <5>1, <5>2
        <5>4. ~(j > i)
          BY <1>1, <2>3, <4>3, <4>6, <5>3
        <5>5. ASSUME NEW x \in bitfield[w] \cap Above(i), j = IndexAt(w, x) PROVE FALSE
          <6>1. x \in Positions
            BY <2>4
          <6>2. W * (w - 1) <= IndexAt(w, x)
            BY <2>2, <6>1, InWord DEF W
          <6>3. QED
            BY <4>3, <4>6, <5>3, <5>5, <6>2
        <5>6. QED
          BY <4>3, <4>4, <4>5, <4>9, <5>4, <5>5
      <4>10. QED
        BY <4>3, <4>7, <4>8, <4>9
    <3>2. Rest(it) \subseteq Members
      BY <2>5, IteratorFacts
    <3>3. QED
      BY <3>1, <3>2
  <2>7. next \in Iterators /\ Settled(next) /\ Rest(next) = After
    BY <2>5, <2>6, IncrementedKeeps
  <2>8. (next = end <=> After = {}) /\ (next # end => Deref(next) = Min(After))
    <3> HIDE DEF next, After
    <3>1. QED
      BY <2>7, AtLeast
  <2>9. find_next(i) = IF i >= length \/ next = end THEN npos ELSE Deref(next)
    BY DEF find_next, it, w, W
  <2> HIDE DEF next, After
  <2>10. find_next(i) = IF After = {} THEN npos ELSE Min(After)
    BY <1>1, <1>3, <2>8, <2>9
  <2>11. QED
    BY <2>10 DEF After
<1>4. QED
  BY <1>1, <1>2, <1>3

\* What the loop does after an iterator it has read.
Following(it) == IF it = end THEN end ELSE Incremented(WithRead(it))

\* One iteration reads the least that is left, and leaves the others.
LEMMA LoopStep ==
  ASSUME Sound, NEW it \in Iterators, Settled(it)
  PROVE  /\ Following(it) \in Iterators /\ Settled(Following(it))
         /\ it # end => /\ Rest(Following(it)) = Rest(it) \ {Deref(it)} /\ Deref(it) \in Rest(it)
                        /\ \A i \in Rest(Following(it)) : Deref(it) < i
<1>1. CASE it = end
  BY <1>1 DEF Following
<1>2. CASE it # end
  <2>1. /\ Deref(it) \in Rest(it) /\ \A i \in Rest(it) : Deref(it) <= i
        /\ WithRead(it) \in Iterators /\ Rest(WithRead(it)) = Rest(it) \ {Deref(it)}
    BY <1>2, DerefTakes DEF Settled
  <2>2. Following(it) = Incremented(WithRead(it))
    BY <1>2 DEF Following
  <2>3. Following(it) \in Iterators /\ Settled(Following(it)) /\ Rest(Following(it)) = Rest(it) \ {Deref(it)}
    BY <2>1, <2>2, IncrementedKeeps
  <2>4. Rest(it) \subseteq Nat
    BY IteratorFacts, FieldFacts
  <2>5. \A i \in Rest(Following(it)) : Deref(it) < i
    BY <2>1, <2>3, <2>4
  <2>6. QED
    BY <1>2, <2>1, <2>3, <2>5
<1>3. QED
  BY <1>1, <1>2

\* The iterators the loop meets.
LEMMA LoopRuns ==
  ASSUME Sound
  PROVE  \E it \in [Nat -> Iterators] :
           /\ it[0] = begin_ /\ \A k \in Nat : Settled(it[k]) /\ it[k + 1] = Following(it[k])
           /\ LET last == CHOOSE k \in 0..(length + 1) :
                            it[k] = end /\ \A j \in 0..(k - 1) : it[j] # end
              IN Walk = [k \in 1..last |-> Deref(it[k - 1])]
<1> DEFINE T == {x \in Iterators : Settled(x)}
           step == [x \in T |-> Following(x)]
           Fixed(f) == f = [k \in Nat |-> IF k = 0 THEN begin_
                              ELSE IF f[k - 1] = end THEN end
                                   ELSE Incremented(WithRead(f[k - 1]))]
           it == CHOOSE f : Fixed(f)
<1>1. begin_ \in T
  BY BeginFacts
<1>2. step \in [T -> T]
  BY LoopStep
<1>3. PICK f \in [Nat -> T] : f[0] = begin_ /\ \A k \in Nat \ {0} : f[k] = step[f[k - 1]]
  <2> HIDE DEF T, step
  <2>1. QED
    BY <1>1, <1>2, RecursionExists
<1>4. Fixed(f)
  <2>1. ASSUME NEW k \in Nat \ {0} PROVE f[k] = Following(f[k - 1])
    <3>1. k - 1 \in Nat
      OBVIOUS
    <3>2. f[k - 1] \in T
      <4> HIDE DEF T
      <4>1. QED
        BY <3>1
    <3>3. f[k] = step[f[k - 1]]
      BY <1>3
    <3> HIDE DEF T
    <3>4. QED
      BY <3>2, <3>3
  <2> HIDE DEF T, step
  <2>2. f = [k \in Nat |-> IF k = 0 THEN begin_ ELSE Following(f[k - 1])]
    BY <1>3, <2>1
  <2>3. QED
    BY <2>2 DEF Following
<1>5. Fixed(it)
  <2> HIDE DEF Fixed
  <2>1. QED
    BY <1>4, Zenon
<1>6. LET last == CHOOSE k \in 0..(length + 1) :
                    it[k] = end /\ \A j \in 0..(k - 1) : it[j] # end
      IN Walk = [k \in 1..last |-> Deref(it[k - 1])]
  BY DEF Walk
<1> HIDE DEF it
<1>7. it[0] = begin_ /\ \A k \in Nat : it[k + 1] = Following(it[k])
  <2>1. it[0] = begin_
    BY <1>5
  <2>2. ASSUME NEW k \in Nat PROVE it[k + 1] = Following(it[k])
    <3>1. k + 1 \in Nat /\ k + 1 # 0 /\ (k + 1) - 1 = k
      OBVIOUS
    <3>2. it[k + 1] = IF it[(k + 1) - 1] = end THEN end ELSE Incremented(WithRead(it[(k + 1) - 1]))
      BY <1>5, <3>1
    <3>3. QED
      BY <3>1, <3>2 DEF Following
  <2>3. QED
    BY <2>1, <2>2
<1>8. ASSUME NEW n \in Nat PROVE it[n] \in T
  <2> DEFINE P == {k \in 0..n : it[k] \in T}
  <2>1. 0 \in P /\ P \subseteq 0..n
    BY <1>1, <1>7
  <2>2. ASSUME NEW k \in 1..n, k - 1 \in P PROVE k \in P
    <3>1. k - 1 \in Nat /\ (k - 1) + 1 = k /\ it[k - 1] \in T
      BY <2>2
    <3>2. it[k] = Following(it[k - 1])
      BY <1>7, <3>1
    <3>3. QED
      BY <3>1, <3>2, LoopStep
  <2> HIDE DEF P
  <2>3. P = 0..n
    BY <2>1, <2>2, UpTo
  <2>4. n \in P
    BY <2>3
  <2>5. QED
    BY <2>4 DEF P
<1>9. DOMAIN it = Nat /\ it = [k \in Nat |-> it[k]]
  BY <1>5
<1>10. it \in [Nat -> Iterators] /\ \A k \in Nat : Settled(it[k])
  BY <1>8, <1>9
<1>11. QED
  BY <1>6, <1>7, <1>10

\* The loop reads the members in their order, each once, and ends.
LEMMA WalkAgrees ==
  ASSUME Sound
  PROVE  ToSet(Walk) = Members /\ \A j, k \in DOMAIN Walk : j < k => Walk[j] < Walk[k]
<1>1. PICK it \in [Nat -> Iterators] :
        /\ it[0] = begin_ /\ \A k \in Nat : Settled(it[k]) /\ it[k + 1] = Following(it[k])
        /\ LET last == CHOOSE k \in 0..(length + 1) :
                         it[k] = end /\ \A j \in 0..(k - 1) : it[j] # end
           IN Walk = [k \in 1..last |-> Deref(it[k - 1])]
  BY LoopRuns
<1> DEFINE Ends(k) == it[k] = end /\ \A j \in 0..(k - 1) : it[j] # end
           last == CHOOSE k \in 0..(length + 1) : Ends(k)
<1>2. length \in Nat \ {0} /\ Members \subseteq Nat /\ \A i \in Members : i < length
  BY FieldFacts, SoundFacts DEF Indices
<1>3. Walk = [k \in 1..last |-> Deref(it[k - 1])]
  BY <1>1
<1>4. \A k \in Nat : it[k] \in Iterators /\ Settled(it[k])
  BY <1>1
<1>5. ASSUME NEW k \in Nat, it[k] # end
      PROVE  /\ Rest(it[k + 1]) = Rest(it[k]) \ {Deref(it[k])} /\ Deref(it[k]) \in Rest(it[k])
             /\ \A i \in Rest(it[k + 1]) : Deref(it[k]) < i
  <2>1. it[k + 1] = Following(it[k])
    BY <1>1
  <2>2. QED
    BY <1>4, <1>5, <2>1, LoopStep
<1>6. \A k \in Nat : Rest(it[k]) \subseteq Members /\ (it[k] = end <=> Rest(it[k]) = {})
  BY <1>4, IteratorFacts, AtLeast
<1> DEFINE n == length
           P == {k \in 0..n : \A i \in Rest(it[k]) : i >= k}
<1>7. \E k \in 0..n : it[k] = end
  <2>1. 0 \in P /\ P \subseteq 0..n
    <3>1. Rest(it[0]) = Members
      BY <1>1, BeginFacts
    <3>2. ASSUME NEW i \in Rest(it[0]) PROVE i >= 0
      <4>1. i \in Nat
        BY <1>2, <3>1, Zenon
      <4>2. QED
        BY <4>1
    <3>3. 0 \in 0..n
      BY <1>2
    <3>4. QED
      BY <3>2, <3>3
  <2>2. ASSUME NEW k \in 1..n, k - 1 \in P PROVE k \in P
    <3> DEFINE m == k - 1
    <3>1. m \in Nat /\ m + 1 = k /\ \A i \in Rest(it[m]) : i >= m
      BY <2>2
    <3> HIDE DEF m
    <3>2. CASE it[m] = end
      <4>1. it[k] = end
        BY <1>1, <3>1, <3>2 DEF Following
      <4>2. Rest(it[k]) = {}
        BY <1>6, <3>1, <4>1
      <4>3. QED
        BY <4>2
    <3>3. CASE it[m] # end
      <4>1. /\ Rest(it[k]) = Rest(it[m]) \ {Deref(it[m])} /\ Deref(it[m]) \in Rest(it[m])
            /\ \A i \in Rest(it[k]) : Deref(it[m]) < i
        BY <1>5, <3>1, <3>3
      <4>2. Rest(it[m]) \subseteq Nat
        BY <1>2, <1>6, <3>1
      <4>3. \A i \in Rest(it[k]) : i >= k
        BY <3>1, <4>1, <4>2
      <4>4. QED
        BY <4>3
    <3>4. QED
      BY <3>2, <3>3
  <2> HIDE DEF P
  <2>3. P = 0..n
    BY <1>2, <2>1, <2>2, UpTo
  <2>4. n \in P
    BY <1>2, <2>3
  <2>5. \A i \in Rest(it[n]) : i >= n
    BY <2>4 DEF P
  <2>6. Rest(it[n]) = {}
    <3> SUFFICES ASSUME NEW i \in Rest(it[n]) PROVE FALSE
      OBVIOUS
    <3>1. i \in Members /\ i >= n
      BY <1>2, <1>6, <2>5
    <3>2. QED
      BY <1>2, <3>1
  <2>7. QED
    BY <1>2, <1>6, <2>6
<1>8. last \in 0..(length + 1) /\ Ends(last)
  <2> DEFINE S == {k \in 0..n : it[k] = end}
  <2>1. S \subseteq Nat /\ S # {}
    BY <1>2, <1>7
  <2>2. PICK k \in S : \A j \in S : k <= j
    <3> HIDE DEF S
    <3>1. QED
      BY <2>1, LeastNat
  <2>3. ASSUME NEW j \in 0..(k - 1) PROVE it[j] # end
    <3>1. j \in 0..n /\ j < k /\ j \in Nat /\ k \in Nat
      BY <1>2
    <3>2. QED
      BY <2>2, <3>1
  <2>4. k \in 0..(length + 1) /\ Ends(k)
    BY <1>2, <2>3
  <2> HIDE DEF Ends
  <2>5. QED
    BY <2>4, Zenon
<1> HIDE DEF last
<1>9. last \in Nat /\ it[last] = end /\ \A j \in 0..(last - 1) : it[j] # end
  BY <1>2, <1>8
<1> DEFINE D(k) == Deref(it[k])
           Read(k) == {D(j) : j \in 0..(k - 1)}
           Q == {k \in 0..last : /\ Read(k) \cup Rest(it[k]) = Members
                                  /\ \A j \in 0..(k - 1) : \A i \in Rest(it[k]) : D(j) < i}
<1>10. Q = 0..last
  <2>1. 0 \in Q
    <3>1. Read(0) = {} /\ 0..(0 - 1) = {}
      OBVIOUS
    <3>2. Rest(it[0]) = Members
      BY <1>1, BeginFacts
    <3>3. QED
      BY <1>9, <3>1, <3>2
  <2>2. ASSUME NEW k \in 1..last, k - 1 \in Q PROVE k \in Q
    <3> DEFINE m == k - 1
    <3>1. /\ m \in Nat /\ m + 1 = k /\ m \in 0..(last - 1) /\ k \in 0..last
          /\ 0..(k - 1) = 0..(m - 1) \cup {m}
      BY <1>9
    <3>2. /\ Read(m) \cup Rest(it[m]) = Members
          /\ \A j \in 0..(m - 1) : \A i \in Rest(it[m]) : D(j) < i
      BY <2>2
    <3> HIDE DEF m, D
    <3>3. it[m] # end
      BY <1>9, <3>1
    <3>4. /\ Rest(it[k]) = Rest(it[m]) \ {D(m)} /\ D(m) \in Rest(it[m])
          /\ \A i \in Rest(it[k]) : D(m) < i
      BY <1>5, <3>1, <3>3 DEF D
    <3>5. Read(k) = Read(m) \cup {D(m)}
      BY <3>1
    <3> HIDE DEF Read
    <3>6. Read(k) \cup Rest(it[k]) = Members
      BY <3>2, <3>4, <3>5
    <3>7. \A j \in 0..(k - 1) : \A i \in Rest(it[k]) : D(j) < i
      BY <3>1, <3>2, <3>4
    <3>8. QED
      BY <3>1, <3>6, <3>7
  <2>3. Q \subseteq 0..last
    OBVIOUS
  <2> HIDE DEF Q
  <2>4. QED
    BY <1>9, <2>1, <2>2, <2>3, UpTo
<1>11. ASSUME NEW k \in 0..last
       PROVE  /\ Read(k) \cup Rest(it[k]) = Members
              /\ \A j \in 0..(k - 1) : \A i \in Rest(it[k]) : D(j) < i
  <2>1. k \in Q
    <3> HIDE DEF Q
    <3>1. QED
      BY <1>10
  <2>2. QED
    BY <2>1
<1>12. Read(last) = Members
  <2> HIDE DEF Read, D
  <2>1. last \in 0..last /\ Rest(it[last]) = {}
    BY <1>6, <1>9
  <2>2. QED
    BY <1>11, <2>1
<1>13. DOMAIN Walk = 1..last /\ \A k \in 1..last : Walk[k] = D(k - 1)
  BY <1>3
<1> HIDE DEF D, Q
<1>14. ToSet(Walk) = Members
  <2>1. ToSet(Walk) = {Walk[k] : k \in 1..last}
    BY <1>13 DEF ToSet
  <2>2. \A k \in 1..last : k - 1 \in 0..(last - 1)
    BY <1>9
  <2>3. \A k \in 0..(last - 1) : k + 1 \in 1..last /\ (k + 1) - 1 = k
    BY <1>9
  <2>4. \A x : x \in ToSet(Walk) <=> x \in Read(last)
    BY <1>13, <2>1, <2>2, <2>3
  <2> HIDE DEF Read
  <2>5. QED
    BY <1>12, <2>4
<1>15. ASSUME NEW j \in 1..last, NEW k \in 1..last, j < k PROVE Walk[j] < Walk[k]
  <2>1. k - 1 \in 0..last /\ k - 1 \in 0..(last - 1) /\ j - 1 \in 0..((k - 1) - 1) /\ k - 1 \in Nat
    BY <1>9, <1>15
  <2>2. it[k - 1] # end
    BY <1>9, <2>1
  <2>3. D(k - 1) \in Rest(it[k - 1])
    BY <1>5, <2>1, <2>2 DEF D
  <2>4. D(j - 1) < D(k - 1)
    BY <1>11, <2>1, <2>3
  <2>5. QED
    BY <1>13, <2>4
<1>16. QED
  BY <1>13, <1>14, <1>15
------------------------------------------------------------------------------
(* count.                                                                  *)

\* The words have as many bits as a number says.
LEMMA WordCount ==
  ASSUME Sound, NEW w \in 1..Len(bitfield)
  PROVE  IsFiniteSet(bitfield[w]) /\ Cardinality(bitfield[w]) \in Nat
<1>1. bitfield[w] \in SUBSET Positions
  BY FieldFacts
<1>2. IsFiniteSet(Positions)
  BY Bits, FS_Interval DEF Positions
<1>3. IsFiniteSet(bitfield[w])
  BY <1>1, <1>2, FS_Subset
<1>4. QED
  BY <1>3, FS_CardinalityType

\* The loop, word by word.
LEMMA CountRuns ==
  ASSUME Sound
  PROVE  \E g \in [0..Len(bitfield) -> Nat] :
           /\ g[0] = 0 /\ count = g[Len(bitfield)]
           /\ \A k \in 1..Len(bitfield) : g[k] = g[k - 1] + Cardinality(bitfield[k])
<1> DEFINE n == Len(bitfield)
           T == Nat
           base == 0
           step == [x \in (1..n) \X T |-> x[2] + Cardinality(bitfield[x[1]])]
           Fixed(f) ==
             f = [s \in SUBSET DOMAIN bitfield |->
                   IF s = {} THEN base
                   ELSE LET x == Max(s) IN f[s \ {x}] + Cardinality(bitfield[x])]
           iter == CHOOSE f : Fixed(f)
<1>1. n \in Nat /\ DOMAIN bitfield = 1..n /\ \A k \in 1..n : Cardinality(bitfield[k]) \in Nat
  BY FieldFacts, WordCount
<1>2. step \in [(1..n) \X T -> T]
  BY <1>1
<1>3. PICK f \in [SUBSET (1..n) -> T] : FoldOver(base, step, n, f)
  <2> HIDE DEF step, n, T
  <2>1. base \in T
    BY DEF T
  <2>2. QED
    BY <1>1, <1>2, <2>1, FoldExists
<1>4. count = iter[DOMAIN bitfield]
  BY DEF count, FoldLeft, MapThenFoldSet
<1> HIDE DEF n, T
<1>5. Fixed(f)
  <2>1. f = [s \in SUBSET (1..n) |->
              IF s = {} THEN base ELSE step[<<Max(s), f[s \ {Max(s)}]>>]]
    BY <1>3 DEF FoldOver
  <2>2. ASSUME NEW s \in SUBSET (1..n), s # {}
        PROVE  step[<<Max(s), f[s \ {Max(s)}]>>] = f[s \ {Max(s)}] + Cardinality(bitfield[Max(s)])
    <3>1. Max(s) \in s
      BY <1>1, <2>2, MaxInside
    <3>2. <<Max(s), f[s \ {Max(s)}]>> \in (1..n) \X T
      BY <3>1
    <3>3. QED
      BY <3>2
  <2> HIDE DEF step
  <2>3. QED
    BY <1>1, <2>1, <2>2
<1>6. Fixed(iter)
  <2> HIDE DEF Fixed
  <2>1. QED
    BY <1>5, Zenon
<1> HIDE DEF iter
<1>7. iter[{}] = base
  BY <1>6
<1>8. ASSUME NEW k \in 1..n, iter[1..(k - 1)] \in T
      PROVE  iter[1..k] = step[<<k, iter[1..(k - 1)]>>]
  <2>1. Max(1..k) = k /\ (1..k) \ {k} = 1..(k - 1) /\ 1..k # {} /\ 1..k \in SUBSET (1..n)
    <3>1. k \in Nat \ {0} /\ n \in Nat
      BY <1>1
    <3>2. Max(1..k) = k /\ (1..k) \ {k} = 1..(k - 1) /\ 1..k # {}
      BY <3>1, PrefixMax
    <3>3. 1..k \in SUBSET (1..n)
      BY <3>1
    <3>4. QED
      BY <3>2, <3>3
  <2>2. iter[1..k] = iter[(1..k) \ {Max(1..k)}] + Cardinality(bitfield[Max(1..k)])
    <3> DEFINE s == 1..k
    <3>1. s # {} /\ s \in SUBSET DOMAIN bitfield
      BY <1>1, <2>1
    <3> HIDE DEF s
    <3>2. iter[s] = iter[s \ {Max(s)}] + Cardinality(bitfield[Max(s)])
      BY <1>6, <3>1, Zenon
    <3>3. QED
      BY <3>2 DEF s
  <2>3. <<k, iter[1..(k - 1)]>> \in (1..n) \X T
    BY <1>8
  <2>4. QED
    BY <2>1, <2>2, <2>3
<1>9. PICK g : RunOfFold(base, step, n, T, iter[1..n], g)
  <2>1. base \in T /\ n \in Nat
    BY <1>1 DEF T
  <2>2. FoldsAlong(base, step, n, T, iter)
    <3> HIDE DEF step
    <3>1. QED
      BY <1>7, <1>8 DEF FoldsAlong
  <2> HIDE DEF step
  <2>3. QED
    BY <1>2, <2>1, <2>2, FoldRuns
<1>10. g \in [0..n -> T] /\ \A k \in 1..n : g[k] = g[k - 1] + Cardinality(bitfield[k])
  <2>1. g \in [0..n -> T] /\ \A k \in 1..n : g[k] = step[<<k, g[k - 1]>>]
    <3> HIDE DEF step
    <3>1. QED
      BY <1>9 DEF RunOfFold
  <2>2. ASSUME NEW k \in 1..n PROVE <<k, g[k - 1]>> \in (1..n) \X T
    BY <1>1, <2>1
  <2>3. QED
    BY <2>1, <2>2
<1> HIDE DEF step
<1>11. QED
  BY <1>1, <1>4, <1>9, <1>10 DEF n, T, RunOfFold

\* Each word adds the members that are in it.
LEMMA CountAgrees ==
  ASSUME Sound
  PROVE  count = Cardinality(Members)
<1> DEFINE n == Len(bitfield)
           W == WordBits
           Below(k) == {i \in Members : i < W * k}
<1>1. /\ n \in Nat \ {0} /\ W \in Nat \ {0} /\ length \in Nat /\ length <= W * n
      /\ Members \subseteq Nat /\ \A i \in Members : i < length
  BY FieldFacts, SoundFacts, Bits DEF Indices
<1>2. PICK g \in [0..n -> Nat] :
        g[0] = 0 /\ count = g[n] /\ \A k \in 1..n : g[k] = g[k - 1] + Cardinality(bitfield[k])
  BY CountRuns
<1>3. IsFiniteSet(Members)
  <2>1. IsFiniteSet(Indices)
    <3>1. length - 1 \in Int /\ 0 \in Int
      BY <1>1
    <3>2. QED
      BY <3>1, FS_Interval DEF Indices
  <2>2. Members \in SUBSET Indices
    BY SoundFacts
  <2>3. QED
    BY <2>1, <2>2, FS_Subset
<1>4. \A k : IsFiniteSet(Below(k))
  <2>1. \A k : Below(k) \in SUBSET Members
    OBVIOUS
  <2> HIDE DEF Below
  <2>2. QED
    BY <1>3, <2>1, FS_Subset
<1> HIDE DEF n, W
<1>5. ASSUME NEW k \in 1..n
      PROVE  Cardinality(Below(k)) = Cardinality(Below(k - 1)) + Cardinality(bitfield[k])
  <2> DEFINE new == {IndexAt(k, p) : p \in bitfield[k]}
             place == [p \in bitfield[k] |-> IndexAt(k, p)]
  <2>1. k \in 1..Len(bitfield) /\ k \in Nat \ {0} /\ k - 1 \in Nat
    BY <1>1 DEF n
  <2>2. \A p \in bitfield[k] : p \in Positions /\ IndexAt(k, p) \in Members
    BY <2>1, PlaceMember
  <2>3. ASSUME NEW i \in Members
        PROVE  /\ i < W * k <=> i < W * (k - 1) \/ i \in new
               /\ ~(i < W * (k - 1) /\ i \in new)
    <3>1. PICK w \in 1..Len(bitfield) : \E p \in bitfield[w] : p \in Positions /\ IndexAt(w, p) = i
      BY MemberPlace
    <3>2. PICK p \in bitfield[w] : p \in Positions /\ IndexAt(w, p) = i
      BY <3>1
    <3>3. w \in Nat \ {0} /\ i \in Nat
      BY FieldFacts
    <3>4. i >= W * k <=> w > k
      <4>1. k \in Nat
        BY <2>1
      <4>2. IndexAt(w, p) >= WordBits * k <=> w > k
        BY <3>2, <3>3, <4>1, AfterWord
      <4>3. QED
        BY <3>2, <4>2 DEF W
    <3>5. i >= W * (k - 1) <=> w > k - 1
      <4>1. IndexAt(w, p) >= WordBits * (k - 1) <=> w > k - 1
        BY <2>1, <3>2, <3>3, AfterWord
      <4>2. QED
        BY <3>2, <4>1 DEF W
    <3>6. W * k \in Nat /\ W * (k - 1) \in Nat
      BY <1>1, <2>1
    <3>7. i \in new <=> w = k
      <4>1. w = k => i \in new
        BY <3>2
      <4>2. ASSUME NEW x \in bitfield[k], i = IndexAt(k, x) PROVE w = k
        <5>1. get_index(IndexAt(k, x)).word = k /\ get_index(IndexAt(w, p)).word = w
          BY <2>1, <2>2, <3>2, <3>3, AtIndex
        <5>2. QED
          BY <3>2, <4>2, <5>1
      <4>3. QED
        BY <4>1, <4>2
    <3> HIDE DEF new
    <3>8. QED
      BY <2>1, <3>3, <3>4, <3>5, <3>6, <3>7
  <2>4. Below(k) = Below(k - 1) \cup new /\ Below(k - 1) \cap new = {}
    <3>1. new \subseteq Members
      BY <2>2
    <3> HIDE DEF new
    <3>2. QED
      BY <2>3, <3>1
  <2>5. place \in Bijection(bitfield[k], new)
    <3>1. ASSUME NEW p \in bitfield[k], NEW q \in bitfield[k], IndexAt(k, p) = IndexAt(k, q)
          PROVE  p = q
      <4>1. p \in Positions /\ q \in Positions
        BY <2>2
      <4>2. get_index(IndexAt(k, p)).index = p /\ get_index(IndexAt(k, q)).index = q
        BY <2>1, <4>1, AtIndex
      <4>3. QED
        BY <3>1, <4>2
    <3>2. place \in [bitfield[k] -> new]
      OBVIOUS
    <3>3. place \in Injection(bitfield[k], new)
      <4>1. IsInjective(place)
        BY <3>1 DEF IsInjective
      <4> HIDE DEF place, new
      <4>2. QED
        BY <3>2, <4>1 DEF Injection
    <3>4. place \in Surjection(bitfield[k], new)
      BY <3>2 DEF Surjection
    <3>5. QED
      BY <3>3, <3>4 DEF Bijection
  <2>6. IsFiniteSet(bitfield[k]) /\ Cardinality(bitfield[k]) \in Nat
    BY <2>1, WordCount
  <2>7. IsFiniteSet(new) /\ Cardinality(new) = Cardinality(bitfield[k])
    <3> HIDE DEF new, place
    <3>1. ExistsBijection(bitfield[k], new)
      BY <2>5 DEF ExistsBijection
    <3>2. QED
      BY <2>6, <3>1, FS_Bijection
  <2> HIDE DEF new, place, Below
  <2>8. IsFiniteSet(Below(k - 1)) /\ Cardinality(Below(k - 1)) \in Nat
    BY <1>4, FS_CardinalityType
  <2>9. Cardinality(Below(k - 1) \cup new) =
          Cardinality(Below(k - 1)) + Cardinality(new) - Cardinality(Below(k - 1) \cap new)
    BY <2>7, <2>8, FS_Union
  <2>10. Cardinality({}) = 0
    BY FS_EmptySet
  <2> DEFINE a == Cardinality(Below(k - 1))
             b == Cardinality(new)
  <2> HIDE DEF a, b
  <2>11. a \in Nat /\ b \in Nat /\ Cardinality(Below(k)) = a + b - 0
    <3>1. a \in Nat /\ b \in Nat
      BY <2>6, <2>7, <2>8 DEF a, b
    <3>2. Cardinality(Below(k)) = Cardinality(Below(k - 1) \cup new)
      BY <2>4, Zenon
    <3>3. Cardinality(Below(k - 1) \cap new) = 0
      BY <2>4, <2>10, Zenon
    <3>4. QED
      BY <2>9, <3>1, <3>2, <3>3 DEF a, b
  <2>12. Cardinality(Below(k)) = a + b
    BY <2>11
  <2>13. QED
    BY <2>7, <2>12 DEF a, b
<1>6. Below(0) = {} /\ Below(n) = Members
  <2>1. W * 0 = 0 /\ W * n \in Nat
    BY <1>1
  <2>2. \A i \in Members : ~(i < W * 0) /\ i < W * n
    <3> SUFFICES ASSUME NEW i \in Members PROVE ~(i < W * 0) /\ i < W * n
      OBVIOUS
    <3>1. i \in Nat /\ i < length
      BY <1>1
    <3>2. QED
      BY <1>1, <2>1, <3>1
  <2>3. QED
    BY <2>2
<1> DEFINE P == {k \in 0..n : g[k] = Cardinality(Below(k))}
<1> HIDE DEF Below
<1>7. P = 0..n
  <2>1. 0 \in P /\ P \subseteq 0..n
    <3>1. Cardinality(Below(0)) = 0
      BY <1>6, FS_EmptySet, Zenon
    <3>2. 0 \in 0..n /\ g[0] = 0
      BY <1>1, <1>2
    <3>3. QED
      BY <3>1, <3>2
  <2>2. ASSUME NEW k \in 1..n, k - 1 \in P PROVE k \in P
    <3>1. g[k - 1] = Cardinality(Below(k - 1)) /\ k \in 0..n
      BY <1>1, <2>2
    <3>2. g[k] = g[k - 1] + Cardinality(bitfield[k])
      BY <1>2
    <3>3. g[k] = Cardinality(Below(k))
      BY <1>5, <3>1, <3>2
    <3>4. QED
      BY <3>1, <3>3
  <2> HIDE DEF P
  <2>3. QED
    BY <1>1, <2>1, <2>2, UpTo
<1>8. n \in P
  <2> HIDE DEF P
  <2>1. QED
    BY <1>1, <1>7
<1>9. QED
  BY <1>2, <1>6, <1>8

------------------------------------------------------------------------------
(* The queries of a bitset of length 0.                                    *)

\* Nothing is counted.
LEMMA EmptyCount ==
  ASSUME Empty
  PROVE  count = 0
<1> DEFINE Fixed(f) ==
             f = [s \in SUBSET DOMAIN bitfield |->
                   IF s = {} THEN 0
                   ELSE LET x == Max(s) IN f[s \ {x}] + Cardinality(bitfield[x])]
           iter == CHOOSE f : Fixed(f)
           zero == [s \in SUBSET DOMAIN bitfield |-> 0]
<1>1. DOMAIN bitfield = {}
  BY DEF Empty
<1>2. count = iter[DOMAIN bitfield]
  BY DEF count, FoldLeft, MapThenFoldSet
<1>3. Fixed(zero)
  <2>1. \A s \in SUBSET DOMAIN bitfield : s = {}
    BY <1>1
  <2>2. QED
    BY <2>1
<1>4. Fixed(iter)
  <2> HIDE DEF Fixed, zero
  <2>1. QED
    BY <1>3, Zenon
<1> HIDE DEF iter
<1>5. iter[{}] = 0
  BY <1>4
<1>6. QED
  BY <1>1, <1>2, <1>5

\* The loop over it ends before it reads anything.
LEMMA EmptyWalk ==
  ASSUME Empty
  PROVE  Walk = [k \in 1..0 |-> 0]
<1> DEFINE Fixed(f) == f = [k \in Nat |-> IF k = 0 THEN begin_
                              ELSE IF f[k - 1] = end THEN end
                                   ELSE Incremented(WithRead(f[k - 1]))]
           it == CHOOSE f : Fixed(f)
           Ends(k) == it[k] = end /\ \A j \in 0..(k - 1) : it[j] # end
           last == CHOOSE k \in 0..(length + 1) : Ends(k)
           ends == [k \in Nat |-> end]
<1>1. begin_ = end /\ length = 0
  BY DEF Empty, begin_
<1>2. Fixed(ends)
  <2> HIDE DEF end, begin_, Incremented, WithRead
  <2>1. \A k \in Nat \ {0} : k - 1 \in Nat
    OBVIOUS
  <2>2. QED
    BY <1>1, <2>1
<1>3. Fixed(it)
  <2> HIDE DEF Fixed, ends
  <2>1. QED
    BY <1>2, Zenon
<1>4. Walk = [k \in 1..last |-> Deref(it[k - 1])]
  BY DEF Walk
<1> HIDE DEF it
<1>5. it[0] = end
  BY <1>1, <1>3
<1>6. last = 0
  <2>1. Ends(0)
    BY <1>5
  <2>2. \A k \in 0..(length + 1) : Ends(k) => k = 0
    BY <1>1, <1>5
  <2>3. 0 \in 0..(length + 1)
    BY <1>1
  <2> HIDE DEF Ends
  <2>4. QED
    BY <2>1, <2>2, <2>3, Zenon
<1> HIDE DEF last
<1>7. QED
  BY <1>4, <1>6

\* The branches for length 0 in all (97) and begin (298) answer as the others do.
LEMMA EmptyAgrees ==
  ASSUME Empty
  PROVE  QueriesAgree
<1>1. length = 0 /\ Members = {} /\ Indices = {} /\ DOMAIN bitfield = {}
  BY EmptyFacts DEF Empty
<1>2. count = Cardinality(Members)
  BY <1>1, EmptyCount, FS_EmptySet
<1>3. (none <=> Members = {}) /\ (all <=> Members = Indices)
  BY <1>1 DEF none, any, all
<1>4. find_first = npos
  BY <1>1 DEF find_first, begin_
<1>5. \A i \in 0..length : find_next(i) = npos
  BY <1>1 DEF find_next
<1>6. ToSet(Walk) = {} /\ DOMAIN Walk = {}
  <2>1. DOMAIN Walk = {}
    BY EmptyWalk
  <2>2. QED
    BY <2>1 DEF ToSet
<1>7. \A i : {j \in Members : j > i} = {}
  BY <1>1
<1>8. QED
  BY <1>1, <1>2, <1>3, <1>4, <1>5, <1>6, <1>7 DEF QueriesAgree
------------------------------------------------------------------------------

\* The queries, which work on whole words, agree with test on all the indices: count, any and
\* all (78-117), find_first, find_next and the iteration (198-305), whatever the length and
\* the width of a word, and however the set came about.
THEOREM QueriesAlwaysAgree == Spec => []QueriesAgree
<1>1. Sound => QueriesAgree
  <2> SUFFICES ASSUME Sound PROVE QueriesAgree
    OBVIOUS
  <2>1. count = Cardinality(Members) /\ (none <=> Members = {}) /\ (all <=> Members = Indices)
    BY CountAgrees, NoneAgrees, AllAgrees
  <2>2. find_first = IF Members = {} THEN npos ELSE Min(Members)
    BY FindFirstAgrees
  <2>3. ASSUME NEW i \in 0..length
        PROVE  find_next(i) = IF {j \in Members : j > i} = {} THEN npos
                              ELSE Min({j \in Members : j > i})
    BY FindNextAgrees
  <2>4. ToSet(Walk) = Members /\ \A j, k \in DOMAIN Walk : j < k => Walk[j] < Walk[k]
    BY WalkAgrees
  <2>5. QED
    BY <2>1, <2>2, <2>3, <2>4 DEF QueriesAgree
<1>2. Empty => QueriesAgree
  BY EmptyAgrees
<1>3. QED
  BY <1>1, <1>2, AlwaysSound, PTL
==============================================================================
