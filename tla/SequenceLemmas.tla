---------------------------- MODULE SequenceLemmas ----------------------------
(***************************************************************************)
(* Facts about sequences used as stacks and queues, for the proofs: what   *)
(* a push and a pop do to the set of elements and to their being distinct; *)
(* that a set of natural numbers has a least element; and, from that, that *)
(* a fold over a sequence and a recursion on Nat obey their equations.     *)
(***************************************************************************)
EXTENDS Integers, Sequences, FiniteSets, SequencesExt, FiniteSetTheorems,
        SequenceTheorems, WellFoundedInduction, TLAPS

\* What ToSet ranges over.
LEMMA SetOfSeq ==
  ASSUME NEW T, NEW q \in Seq(T)
  PROVE  /\ ToSet(q) = {q[i] : i \in 1 .. Len(q)}
         /\ ToSet(q) \subseteq T
         /\ IsInjective(q) <=> \A i, j \in 1 .. Len(q) : q[i] = q[j] => i = j
BY DEF ToSet, IsInjective

\* A push adds its element, and keeps the elements distinct if it is new.
LEMMA PushedSet ==
  ASSUME NEW T, NEW q \in Seq(T), NEW x \in T
  PROVE  /\ ToSet(Append(q, x)) = ToSet(q) \cup {x}
         /\ IsInjective(Append(q, x)) <=> IsInjective(q) /\ x \notin ToSet(q)
<1> DEFINE r == Append(q, x)
           n == Len(q)
<1>1. /\ r \in Seq(T) /\ Len(r) = n + 1 /\ n \in Nat
      /\ \A i \in 1 .. n : r[i] = q[i]
      /\ r[n + 1] = x
  OBVIOUS
<1>2. /\ ToSet(q) = {q[i] : i \in 1 .. n} /\ ToSet(r) = {r[i] : i \in 1 .. n + 1}
      /\ IsInjective(q) <=> \A i, j \in 1 .. n : q[i] = q[j] => i = j
      /\ IsInjective(r) <=> \A i, j \in 1 .. n + 1 : r[i] = r[j] => i = j
  BY <1>1, SetOfSeq
<1> HIDE DEF r, n
<1>3. ToSet(r) = ToSet(q) \cup {x}
  BY <1>1, <1>2
<1>4. IsInjective(r) => IsInjective(q) /\ x \notin ToSet(q)
  <2> SUFFICES ASSUME IsInjective(r) PROVE IsInjective(q) /\ x \notin ToSet(q)
    OBVIOUS
  <2>1. ASSUME NEW i \in 1 .. n, NEW j \in 1 .. n, q[i] = q[j] PROVE i = j
    BY <1>1, <1>2, <2>1
  <2>2. ASSUME NEW i \in 1 .. n PROVE q[i] # x
    <3>1. i \in 1 .. n + 1 /\ n + 1 \in 1 .. n + 1 /\ i # n + 1
      BY <1>1
    <3>2. QED
      BY <1>1, <1>2, <3>1
  <2>3. QED
    BY <1>2, <2>1, <2>2
<1>5. IsInjective(q) /\ x \notin ToSet(q) => IsInjective(r)
  <2> SUFFICES ASSUME IsInjective(q), x \notin ToSet(q),
                      NEW i \in 1 .. n + 1, NEW j \in 1 .. n + 1, r[i] = r[j]
               PROVE  i = j
    BY <1>2
  <2>1. \A k \in 1 .. n : r[k] # x
    BY <1>1, <1>2
  <2>2. \A k \in 1 .. n + 1 : k \in 1 .. n \/ k = n + 1
    BY <1>1
  <2>3. QED
    BY <1>1, <1>2, <2>1, <2>2
<1>6. QED
  BY <1>3, <1>4, <1>5 DEF r

\* A stack is its top pushed on the rest.
LEMMA TopOfStack ==
  ASSUME NEW T, NEW q \in Seq(T), q # << >>
  PROVE  Last(q) \in T /\ Front(q) \in Seq(T) /\ q = Append(Front(q), Last(q))
BY DEF Front, Last

\* A pop takes the top element away, and only that if the elements are distinct.
LEMMA PoppedSet ==
  ASSUME NEW T, NEW q \in Seq(T), q # << >>
  PROVE  /\ ToSet(q) = ToSet(Front(q)) \cup {Last(q)}
         /\ IsInjective(q) => IsInjective(Front(q)) /\ Last(q) \notin ToSet(Front(q))
<1> DEFINE f == Front(q)
           x == Last(q)
<1>1. x \in T /\ f \in Seq(T) /\ q = Append(f, x)
  BY TopOfStack
<1> HIDE DEF f, x
<1>2. /\ ToSet(q) = ToSet(f) \cup {x}
      /\ IsInjective(q) <=> IsInjective(f) /\ x \notin ToSet(f)
  BY <1>1, PushedSet
<1>3. QED
  BY <1>2 DEF f, x

\* Taking the head of a queue.
LEMMA TakenSet ==
  ASSUME NEW T, NEW q \in Seq(T), q # << >>
  PROVE  /\ Head(q) \in T /\ Tail(q) \in Seq(T)
         /\ ToSet(q) = ToSet(Tail(q)) \cup {Head(q)}
         /\ IsInjective(q) => IsInjective(Tail(q)) /\ Head(q) \notin ToSet(Tail(q))
<1> DEFINE r == Tail(q)
           n == Len(q)
<1>1. /\ r \in Seq(T) /\ Len(r) = n - 1 /\ n \in Nat \ {0}
      /\ \A i \in 1 .. n - 1 : r[i] = q[i + 1]
      /\ q[1] = Head(q) /\ Head(q) \in T
  BY HeadTailProperties
<1>2. /\ ToSet(q) = {q[i] : i \in 1 .. n} /\ ToSet(r) = {r[i] : i \in 1 .. n - 1}
      /\ IsInjective(q) <=> \A i, j \in 1 .. n : q[i] = q[j] => i = j
      /\ IsInjective(r) <=> \A i, j \in 1 .. n - 1 : r[i] = r[j] => i = j
  <2>1. /\ ToSet(q) = {q[i] : i \in 1 .. n}
        /\ IsInjective(q) <=> \A i, j \in 1 .. n : q[i] = q[j] => i = j
    BY SetOfSeq
  <2>2. /\ ToSet(r) = {r[i] : i \in 1 .. Len(r)}
        /\ IsInjective(r) <=> \A i, j \in 1 .. Len(r) : r[i] = r[j] => i = j
    BY <1>1, SetOfSeq, ZenonT(40)
  <2> HIDE DEF r, n
  <2>3. QED
    BY <1>1, <2>1, <2>2
<1> HIDE DEF r, n
<1>3. ToSet(q) = ToSet(r) \cup {Head(q)}
  <2>1. \A i \in 1 .. n : i = 1 \/ (i - 1 \in 1 .. n - 1 /\ r[i - 1] = q[i])
    BY <1>1
  <2>2. \A i \in 1 .. n - 1 : i + 1 \in 1 .. n
    BY <1>1
  <2>3. 1 \in 1 .. n
    BY <1>1
  <2>4. ASSUME NEW y \in ToSet(q) PROVE y \in ToSet(r) \cup {Head(q)}
    <3>1. PICK i \in 1 .. n : y = q[i]
      BY <1>2
    <3>2. QED
      BY <1>1, <1>2, <2>1, <3>1
  <2>5. ASSUME NEW y \in ToSet(r) PROVE y \in ToSet(q)
    <3>1. PICK i \in 1 .. n - 1 : y = r[i]
      BY <1>2
    <3>2. i + 1 \in 1 .. n /\ y = q[i + 1]
      BY <1>1, <2>2, <3>1
    <3>3. QED
      BY <1>2, <3>2
  <2>6. Head(q) \in ToSet(q)
    BY <1>1, <1>2, <2>3
  <2>7. QED
    BY <2>4, <2>5, <2>6
<1>4. IsInjective(q) => IsInjective(r) /\ Head(q) \notin ToSet(r)
  <2> SUFFICES ASSUME IsInjective(q) PROVE IsInjective(r) /\ Head(q) \notin ToSet(r)
    OBVIOUS
  <2>1. ASSUME NEW i \in 1 .. n - 1, NEW j \in 1 .. n - 1, r[i] = r[j] PROVE i = j
    <3>1. i + 1 \in 1 .. n /\ j + 1 \in 1 .. n /\ q[i + 1] = q[j + 1]
      BY <1>1, <2>1
    <3>2. i + 1 = j + 1
      BY <1>2, <3>1
    <3>3. QED
      BY <3>2, <1>1
  <2>2. ASSUME NEW i \in 1 .. n - 1 PROVE r[i] # Head(q)
    <3>1. i + 1 \in 1 .. n /\ 1 \in 1 .. n /\ i + 1 # 1 /\ r[i] = q[i + 1]
      BY <1>1
    <3>2. QED
      BY <1>1, <1>2, <3>1
  <2>3. QED
    BY <1>2, <2>1, <2>2
<1>5. QED
  BY <1>1, <1>3, <1>4 DEF r

\* A sequence of distinct elements has as many of them as it is long.
LEMMA DistinctCount ==
  ASSUME NEW T, NEW q \in Seq(T), IsInjective(q)
  PROVE  IsFiniteSet(ToSet(q)) /\ Cardinality(ToSet(q)) = Len(q)
<1>1. Len(q) \in Nat /\ q \in [1 .. Len(q) -> ToSet(q)]
  <2>1. Len(q) \in Nat /\ q \in [1 .. Len(q) -> T]
    BY LenProperties
  <2>2. \A i \in 1 .. Len(q) : q[i] \in ToSet(q)
    BY SetOfSeq
  <2>3. QED
    BY <2>1, <2>2
<1>2. \A y \in ToSet(q) : \E i \in 1 .. Len(q) : q[i] = y
  BY SetOfSeq
<1>3. q \in Bijection(1 .. Len(q), ToSet(q))
  BY <1>1, <1>2 DEF Bijection, Injection, Surjection
<1>4. ExistsBijection(1 .. Len(q), ToSet(q))
  BY <1>3 DEF ExistsBijection
<1>5. QED
  BY <1>1, <1>4, FS_CountingElements, FS_NatBijection

\* Every set of natural numbers has a least element, if any.
LEMMA LeastNat ==
  ASSUME NEW S, S \subseteq Nat, S # {}
  PROVE  \E x \in S : \A y \in S : x <= y
<1> DEFINE R == OpToRel(<, Nat)
<1>1. IsWellFoundedOn(R, Nat)
  BY NatLessThanWellFounded, Zenon
<1>2. \A x, y \in Nat : <<y, x>> \in R <=> y < x
  BY DEF OpToRel
<1> HIDE DEF R
<1>3. PICK x \in S : \A y \in S : <<y, x>> \notin R
  BY <1>1, WFMin
<1>4. ASSUME NEW y \in S PROVE x <= y
  <2>1. x \in Nat /\ y \in Nat
    OBVIOUS
  <2>2. ~(y < x)
    BY <1>2, <1>3, <2>1, Zenon
  <2>3. QED
    BY <2>1, <2>2
<1>5. QED
  BY <1>4
------------------------------------------------------------------------------
(* The defining equation of a fold, and of a recursion on Nat.             *)

\* The least of a set of naturals is its Min.
LEMMA MinIs ==
  ASSUME NEW S, S \subseteq Nat, NEW m \in S, \A y \in S : m <= y
  PROVE  Min(S) = m
<1>1. \E x \in S : \A y \in S : x <= y
  OBVIOUS
<1>2. Min(S) \in S /\ \A y \in S : Min(S) <= y
  BY <1>1, Zenon DEF Min
<1>3. Min(S) <= m /\ m <= Min(S) /\ m \in Nat /\ Min(S) \in Nat
  BY <1>2
<1>4. QED
  BY <1>3

\* A set of naturals that is not empty has its Min in it.
LEMMA MinInside ==
  ASSUME NEW S, S \subseteq Nat, S # {}
  PROVE  Min(S) \in S /\ \A y \in S : Min(S) <= y
<1>1. \E x \in S : \A y \in S : x <= y
  BY LeastNat
<1>2. QED
  BY <1>1, Zenon DEF Min

\* The greatest of a set of numbers is its Max.
LEMMA MaxIs ==
  ASSUME NEW S, S \subseteq Int, NEW m \in S, \A y \in S : m >= y
  PROVE Max(S) = m
<1>1. \E x \in S : \A y \in S : x >= y
  OBVIOUS
<1>2. Max(S) \in S /\ \A y \in S : Max(S) >= y
  BY <1>1, Zenon DEF Max
<1>3. Max(S) >= m /\ m >= Max(S) /\ m \in Int /\ Max(S) \in Int
  BY <1>2
<1>4. QED
  BY <1>3

\* A set of numbers up to n that is not empty has its Max in it.
LEMMA MaxInside ==
  ASSUME NEW n \in Nat, NEW S \in SUBSET (1..n), S # {}
  PROVE  Max(S) \in S /\ \A y \in S : Max(S) >= y
<1> DEFINE D == {n - x : x \in S}
<1>1. D \subseteq Nat /\ D # {}
  <2>1. PICK x \in S : TRUE
    OBVIOUS
  <2>2. n - x \in D
    OBVIOUS
  <2>3. QED
    BY <2>2
<1>2. PICK d \in D : \A e \in D : d <= e
  <2> HIDE DEF D
  <2>1. QED
    BY <1>1, LeastNat
<1>3. PICK x \in S : d = n - x
  BY <1>2
<1>4. ASSUME NEW y \in S PROVE x >= y
  <2>1. n - y \in D
    OBVIOUS
  <2>2. d <= n - y /\ x \in Int /\ y \in Int
    BY <1>2, <2>1
  <2>3. QED
    BY <1>3, <2>2
<1>5. QED
  BY <1>4, Zenon DEF Max

\* The order in which a fold takes the positions of a sequence: the last one is on top.
LEMMA PrefixMax ==
  ASSUME NEW k \in Nat \ {0}
  PROVE  Max(1..k) = k /\ (1..k) \ {k} = 1..(k - 1) /\ 1..k # {}
<1>1. 1..k \subseteq Int /\ k \in 1..k /\ \A y \in 1..k : k >= y
  OBVIOUS
<1>2. Max(1..k) = k
  BY <1>1, MaxIs
<1>3. QED
  BY <1>1, <1>2

\* A counterexample to what holds of all numbers up to n has a first one.
LEMMA UpTo ==
  ASSUME NEW n \in Nat, NEW P, P \subseteq 0..n, 0 \in P,
         \A k \in 1..n : k - 1 \in P => k \in P
  PROVE P = 0..n
<1> SUFFICES ASSUME P # 0..n PROVE FALSE
  OBVIOUS
<1> DEFINE S == (0..n) \ P
<1>1. S \subseteq Nat /\ S # {}
  <2>1. \E k \in 0..n : k \notin P
    BY Zenon
  <2>2. QED
    BY <2>1
<1>2. PICK x \in S : \A y \in S : x <= y
  <2> HIDE DEF S
  <2> QED
    BY <1>1, LeastNat
<1>3. x \in 1..n /\ x - 1 \in P
  BY <1>2
<1> QED
  BY <1>2, <1>3

\* f folds step over every set of positions up to n, from base.
FoldOver(base, step, n, f) ==
  f = [s \in SUBSET (1..n) |->
        IF s = {} THEN base ELSE step[<<Max(s), f[s \ {Max(s)}]>>]]

\* There is such a function, so the one that a fold chooses is one.
LEMMA FoldExists ==
  ASSUME NEW n \in Nat, NEW T, NEW base \in T, NEW step \in [(1..n) \X T -> T]
  PROVE  \E f \in [SUBSET (1..n) -> T] : FoldOver(base, step, n, f)
<1> DEFINE P == {k \in 0..n : \E f \in [SUBSET (1..k) -> T] : FoldOver(base, step, k, f)}
<1>1. 0 \in P
  <2> DEFINE f == [s \in SUBSET (1..0) |-> base]
  <2>1. 1..0 = {}
    OBVIOUS
  <2>2. f \in [SUBSET (1..0) -> T] /\ \A s \in SUBSET (1..0) : s = {}
    BY <2>1
  <2>3. FoldOver(base, step, 0, f)
    BY <2>2 DEF FoldOver
  <2>4. QED
    BY <2>2, <2>3
<1>2. ASSUME NEW k \in 1..n, k - 1 \in P PROVE k \in P
  <2>1. PICK f \in [SUBSET (1..(k - 1)) -> T] : FoldOver(base, step, k - 1, f)
    BY <1>2
  <2> DEFINE g == [s \in SUBSET (1..k) |->
                    IF k \in s THEN step[<<k, f[s \ {k}]>>] ELSE f[s]]
  <2>2. \A s \in SUBSET (1..k) : s \ {k} \in SUBSET (1..(k - 1))
    OBVIOUS
  <2>3. \A s \in SUBSET (1..k) : k \notin s => s \in SUBSET (1..(k - 1))
    OBVIOUS
  <2>4. g \in [SUBSET (1..k) -> T]
    <3>1. ASSUME NEW s \in SUBSET (1..k)
          PROVE (IF k \in s THEN step[<<k, f[s \ {k}]>>] ELSE f[s]) \in T
      <4>1. CASE k \in s
        <5>1. f[s \ {k}] \in T
          BY <2>1, <2>2
        <5>2. <<k, f[s \ {k}]>> \in (1..n) \X T
          BY <5>1
        <5>3. QED
          BY <4>1, <5>2
      <4>2. CASE k \notin s
        BY <4>2, <2>1, <2>3
      <4> QED
        BY <4>1, <4>2
    <3> QED
      BY <3>1
  <2>5. ASSUME NEW s \in SUBSET (1..k)
        PROVE g[s] = IF s = {} THEN base ELSE step[<<Max(s), g[s \ {Max(s)}]>>]
    <3>1. CASE k \in s
      <4>1. Max(s) = k
        <5>1. s \subseteq Int /\ \A y \in s : k >= y
          OBVIOUS
        <5>2. QED
          BY <3>1, <5>1, MaxIs
      <4>2. s \ {k} \in SUBSET (1..k) /\ k \notin s \ {k}
        OBVIOUS
      <4>3. g[s \ {k}] = f[s \ {k}]
        BY <4>2
      <4>4. g[s] = step[<<k, f[s \ {k}]>>] /\ s # {}
        BY <3>1
      <4> HIDE DEF g
      <4> QED
        BY <4>1, <4>3, <4>4
    <3>2. CASE k \notin s
      <4>1. s \in SUBSET (1..(k - 1)) /\ g[s] = f[s]
        BY <3>2, <2>3
      <4>2. f[s] = IF s = {} THEN base ELSE step[<<Max(s), f[s \ {Max(s)}]>>]
        BY <2>1, <4>1 DEF FoldOver
      <4>3. s \ {Max(s)} \in SUBSET (1..k) /\ k \notin s \ {Max(s)}
        BY <3>2
      <4>4. g[s \ {Max(s)}] = f[s \ {Max(s)}]
        BY <4>3
      <4> HIDE DEF g
      <4> QED
        BY <4>1, <4>2, <4>4
    <3> QED
      BY <3>1, <3>2
  <2>6. FoldOver(base, step, k, g)
    <3> DEFINE h == [s \in SUBSET (1..k) |->
                      IF s = {} THEN base ELSE step[<<Max(s), g[s \ {Max(s)}]>>]]
    <3>1. \A s \in SUBSET (1..k) : g[s] = h[s]
      BY <2>5
    <3>2. DOMAIN g = SUBSET (1..k) /\ g = [s \in SUBSET (1..k) |-> g[s]]
      OBVIOUS
    <3>3. g = h
      <4> HIDE DEF g
      <4> QED
        BY <3>1, <3>2
    <3> QED
      BY <3>3 DEF FoldOver
  <2> HIDE DEF g
  <2> QED
    BY <2>4, <2>6
<1>3. P = 0..n
  <2>1. P \subseteq 0..n
    OBVIOUS
  <2> HIDE DEF P
  <2> QED
    BY <1>1, <1>2, <2>1, UpTo
<1>4. n \in P
  <2> HIDE DEF P
  <2>1. QED
    BY <1>3
<1> QED
  BY <1>4

\* iter does what a fold does, as long as it stays in T.
FoldsAlong(base, step, n, T, iter) ==
  /\ iter[{}] = base
  /\ \A k \in 1..n : iter[1..(k - 1)] \in T => iter[1..k] = step[<<k, iter[1..(k - 1)]>>]

\* g has the values of a fold up to each number.
RunOfFold(base, step, n, T, last, g) ==
  /\ g \in [0..n -> T] /\ g[0] = base /\ g[n] = last
  /\ \A k \in 1..n : g[k] = step[<<k, g[k - 1]>>]

\* What a fold returns is reached in steps, one for each position.
LEMMA FoldRuns ==
  ASSUME NEW n \in Nat, NEW T, NEW base \in T, NEW step \in [(1..n) \X T -> T], NEW iter,
         FoldsAlong(base, step, n, T, iter)
  PROVE  \E g : RunOfFold(base, step, n, T, iter[1..n], g)
<1> USE DEF FoldsAlong
<1> DEFINE g == [k \in 0..n |-> iter[1..k]]
           P == {k \in 0..n : g[k] \in T}
<1>1. 1..0 = {}
  OBVIOUS
<1>2. g[0] = base /\ g[n] = iter[1..n]
  BY <1>1
<1>3. \A k \in 1..n : k \in 0..n /\ k - 1 \in 0..n
  OBVIOUS
<1>4. \A k \in 1..n : g[k - 1] \in T => g[k] = step[<<k, g[k - 1]>>]
  BY <1>3
<1>5. g = [k \in 0..n |-> g[k]]
  OBVIOUS
<1> HIDE DEF g
<1>6. ASSUME NEW k \in 1..n, k - 1 \in P PROVE k \in P
  BY <1>3, <1>4, <1>6
<1>7. 0 \in P /\ P \subseteq 0..n
  BY <1>2
<1>8. P = 0..n
  <2> HIDE DEF P
  <2>1. QED
    BY <1>6, <1>7, UpTo
<1>9. \A k \in 0..n : g[k] \in T
  BY <1>8
<1>10. g \in [0..n -> T]
  BY <1>5, <1>9
<1>11. \A k \in 1..n : g[k] = step[<<k, g[k - 1]>>]
  BY <1>3, <1>4, <1>9
<1>12. RunOfFold(base, step, n, T, iter[1..n], g)
  BY <1>2, <1>10, <1>11 DEF RunOfFold
<1>13. QED
  BY <1>12

\* A function on the natural numbers may be defined by recursion.
LEMMA RecursionExists ==
  ASSUME NEW T, NEW base \in T, NEW step \in [T -> T]
  PROVE  \E f \in [Nat -> T] : f[0] = base /\ \A k \in Nat \ {0} : f[k] = step[f[k - 1]]
<1> DEFINE Run(n, g) == g[0] = base /\ \A k \in 1..n : g[k] = step[g[k - 1]]
<1>1. ASSUME NEW n \in Nat PROVE \E g \in [0..n -> T] : Run(n, g)
  <2> DEFINE P == {k \in 0..n : \E g \in [0..k -> T] : Run(k, g)}
  <2>1. 0 \in P
    <3> DEFINE g == [k \in 0..0 |-> base]
    <3>1. g \in [0..0 -> T] /\ Run(0, g)
      OBVIOUS
    <3> HIDE DEF g, Run
    <3>2. QED
      BY <3>1
  <2>2. ASSUME NEW k \in 1..n, k - 1 \in P PROVE k \in P
    <3>1. PICK g \in [0..(k - 1) -> T] : Run(k - 1, g)
      BY <2>2
    <3> DEFINE h == [j \in 0..k |-> IF j = k THEN step[g[k - 1]] ELSE g[j]]
    <3>2. h \in [0..k -> T]
      OBVIOUS
    <3>3. h[0] = base /\ \A j \in 1..k : h[j] = step[h[j - 1]]
      BY <3>1
    <3> HIDE DEF h
    <3>4. Run(k, h)
      BY <3>3
    <3> HIDE DEF Run
    <3>5. QED
      BY <3>2, <3>4
  <2>3. P = 0..n
    <3>1. P \subseteq 0..n
      OBVIOUS
    <3> HIDE DEF P
    <3>2. QED
      BY <2>1, <2>2, <3>1, UpTo
  <2>4. n \in P
    <3> HIDE DEF P
    <3>1. QED
      BY <2>3
  <2> HIDE DEF Run
  <2>5. QED
    BY <2>4
<1>2. ASSUME NEW m \in Nat, NEW n \in Nat, NEW g \in [0..m -> T], NEW h \in [0..n -> T],
             Run(m, g), Run(n, h), NEW j \in 0..m, j <= n
      PROVE  g[j] = h[j]
  <2> DEFINE P == {k \in 0..j : g[k] = h[k]}
  <2>1. 0 \in P /\ P \subseteq 0..j
    BY <1>2
  <2>2. ASSUME NEW k \in 1..j, k - 1 \in P PROVE k \in P
    BY <1>2, <2>2
  <2>3. P = 0..j
    <3>1. j \in Nat
      OBVIOUS
    <3> HIDE DEF P, Run
    <3>2. QED
      BY <2>1, <2>2, <3>1, UpTo
  <2>4. j \in P
    <3> HIDE DEF P
    <3>1. QED
      BY <2>3
  <2>5. QED
    BY <2>4
<1> DEFINE Of(n) == CHOOSE g \in [0..n -> T] : Run(n, g)
<1>3. \A n \in Nat : Of(n) \in [0..n -> T] /\ Run(n, Of(n))
  <2> HIDE DEF Run
  <2>1. QED
    BY <1>1
<1> DEFINE f == [n \in Nat |-> Of(n)[n]]
<1> HIDE DEF Of
<1>4. f \in [Nat -> T]
  BY <1>3
<1>5. f[0] = base
  <2>1. 0 \in Nat
    OBVIOUS
  <2>2. Of(0)[0] = base
    BY <1>3, <2>1
  <2>3. QED
    BY <2>2
<1>6. ASSUME NEW k \in Nat \ {0} PROVE f[k] = step[f[k - 1]]
  <2>1. k - 1 \in Nat /\ k \in Nat /\ k \in 1..k /\ k - 1 \in 0..(k - 1)
    OBVIOUS
  <2>2. Of(k)[k] = step[Of(k)[k - 1]]
    BY <1>3, <2>1
  <2>3. Of(k - 1)[k - 1] = Of(k)[k - 1]
    <3> HIDE DEF Run
    <3>1. /\ Of(k - 1) \in [0..(k - 1) -> T] /\ Run(k - 1, Of(k - 1))
          /\ Of(k) \in [0..k -> T] /\ Run(k, Of(k)) /\ k - 1 <= k
      BY <1>3, <2>1
    <3>2. QED
      BY <1>2, <2>1, <3>1
  <2>4. QED
    BY <2>1, <2>2, <2>3
<1> HIDE DEF f
<1>7. QED
  BY <1>4, <1>5, <1>6
==============================================================================
