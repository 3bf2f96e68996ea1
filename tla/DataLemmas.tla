------------------------------ MODULE DataLemmas ------------------------------
(***************************************************************************)
(* Facts about numbers, sequences and sums that the proofs of several      *)
(* modules rest on.                                                        *)
(***************************************************************************)
EXTENDS Integers, Sequences, SequencesExt, SequenceTheorems, FiniteSetTheorems,
        WellFoundedInduction, TLAPS

(* A set of naturals that is not empty has a least element.                *)
LEMMA LeastNatural ==
  ASSUME NEW T, T \subseteq Nat, T # {}
  PROVE  \E x \in T : \A y \in T : x <= y
<1> DEFINE Less == {pair \in Nat \X Nat : pair[1] < pair[2]}
<1>1. IsWellFoundedOn(Less, Nat)
  <2>1. Less = OpToRel(<, Nat)
    BY DEF OpToRel
  <2> QED
    BY <2>1, NatLessThanWellFounded
<1>2. \A x, y \in Nat : <<y, x>> \in Less <=> y < x
  OBVIOUS
<1> HIDE DEF Less
<1>3. \E x \in T : \A y \in T : <<y, x>> \notin Less
  BY <1>1, WFMin
<1>4. PICK x \in T : \A y \in T : <<y, x>> \notin Less
  BY <1>3
<1>5. \A y \in T : x \in Nat /\ y \in Nat /\ ~(y < x)
  BY <1>2, <1>4
<1> QED
  BY <1>5

(* Induction over the naturals, on the set of the numbers that have the    *)
(* property.                                                               *)
LEMMA EveryNatural ==
  ASSUME NEW T, 0 \in T, \A n \in Nat : n \in T => n + 1 \in T
  PROVE  \A n \in Nat : n \in T
<1> DEFINE missing == Nat \ T
<1>1. CASE missing = {}
  BY <1>1
<1>2. CASE missing # {}
  <2>1. PICK x \in missing : \A y \in missing : x <= y
    BY <1>2, LeastNatural
  <2>2. x # 0 /\ x - 1 \in Nat /\ x - 1 \notin missing
    BY <2>1
  <2>3. x \in T
    BY <2>2
  <2> QED
    BY <2>1, <2>3
<1> QED
  BY <1>1, <1>2

(* The helpers for the least of two numbers and for the greatest of a      *)
(* bounded set.                                                            *)
LEMMA LesserOfTwo ==
  ASSUME NEW a \in Int, NEW b \in Int
  PROVE  Min({a, b}) = IF a <= b THEN a ELSE b
  BY DEF Min

LEMMA GreatestOfBounded ==
  ASSUME NEW n \in Nat, NEW T, T \subseteq 0 .. n, T # {}
  PROVE  Max(T) \in T /\ Max(T) \in 0 .. n
<1> DEFINE mirrored == {n - x : x \in T}
<1>1. \A x \in T : x \in Int /\ n - x \in Nat
  OBVIOUS
<1>2. PICK y \in mirrored : \A z \in mirrored : y <= z
  <2>1. mirrored \subseteq Nat /\ mirrored # {}
    BY <1>1
  <2> QED
    BY <2>1, LeastNatural
<1>3. PICK x \in T : y = n - x
  BY <1>2
<1>4. \A z \in T : n - x <= n - z
  BY <1>2, <1>3
<1>5. \A z \in T : x >= z
  BY <1>1, <1>4
<1> QED
  BY <1>5 DEF Max

(* A prefix and what follows it.                                           *)
LEMMA PrefixProperties ==
  ASSUME NEW S, NEW s \in Seq(S), NEW n \in 0 .. Len(s)
  PROVE  /\ SubSeq(s, 1, n) \in Seq(S)
         /\ Len(SubSeq(s, 1, n)) = n
         /\ \A i \in 1 .. n : SubSeq(s, 1, n)[i] = s[i]
<1>1. Len(s) \in Nat /\ \A i \in 1 .. Len(s) : s[i] \in S
  BY LenProperties, ElementOfSeq
<1>2. \A i \in 1 .. n : s[i] \in S
  BY <1>1
<1> QED
  BY <1>1, <1>2, SubSeqProperties

LEMMA PieceProperties ==
  ASSUME NEW S, NEW s \in Seq(S), NEW n \in Nat, NEW m \in Nat, n + m <= Len(s)
  PROVE  /\ SubSeq(s, n + 1, n + m) \in Seq(S)
         /\ Len(SubSeq(s, n + 1, n + m)) = m
         /\ \A i \in 1 .. m : SubSeq(s, n + 1, n + m)[i] = s[n + i]
<1>1. Len(s) \in Nat /\ \A i \in 1 .. Len(s) : s[i] \in S
  BY LenProperties, ElementOfSeq
<1>2. \A i \in n + 1 .. n + m : s[i] \in S
  BY <1>1
<1>3. /\ SubSeq(s, n + 1, n + m) \in Seq(S)
      /\ Len(SubSeq(s, n + 1, n + m)) = IF n + 1 <= n + m THEN n + m - (n + 1) + 1 ELSE 0
      /\ \A i \in 1 .. n + m - (n + 1) + 1 : SubSeq(s, n + 1, n + m)[i] = s[n + 1 + i - 1]
  BY <1>1, <1>2, SubSeqProperties
<1> QED
  BY <1>3

LEMMA SuffixProperties ==
  ASSUME NEW S, NEW s \in Seq(S), NEW n \in 0 .. Len(s)
  PROVE  /\ SubSeq(s, n + 1, Len(s)) \in Seq(S)
         /\ Len(SubSeq(s, n + 1, Len(s))) = Len(s) - n
         /\ \A i \in 1 .. Len(s) - n : SubSeq(s, n + 1, Len(s))[i] = s[n + i]
<1>1. Len(s) \in Nat /\ \A i \in 1 .. Len(s) : s[i] \in S
  BY LenProperties, ElementOfSeq
<1>2. \A i \in n + 1 .. Len(s) : s[i] \in S
  BY <1>1
<1>3. /\ SubSeq(s, n + 1, Len(s)) \in Seq(S)
      /\ Len(SubSeq(s, n + 1, Len(s))) = IF n + 1 <= Len(s) THEN Len(s) - (n + 1) + 1 ELSE 0
      /\ \A i \in 1 .. Len(s) - (n + 1) + 1 : SubSeq(s, n + 1, Len(s))[i] = s[n + 1 + i - 1]
  BY <1>1, <1>2, SubSeqProperties
<1> QED
  BY <1>1, <1>3

(* RemoveAt (removeNode of orderbook.c) takes out exactly the element at    *)
(* that position, and the others keep their relative order.                *)
LEMMA RemoveAtProperties ==
  ASSUME NEW S, NEW s \in Seq(S), NEW i \in 1 .. Len(s)
  PROVE  /\ RemoveAt(s, i) \in Seq(S)
         /\ Len(RemoveAt(s, i)) = Len(s) - 1
         /\ \A j \in 1 .. Len(s) - 1 :
              RemoveAt(s, i)[j] = IF j < i THEN s[j] ELSE s[j + 1]
<1> DEFINE front == SubSeq(s, 1, i - 1)
           back == SubSeq(s, i + 1, Len(s))
<1>1. Len(s) \in Nat /\ i \in Nat /\ i >= 1 /\ i <= Len(s)
  BY LenProperties
<1>2. front \in Seq(S) /\ Len(front) = i - 1 /\ \A j \in 1 .. i - 1 : front[j] = s[j]
  BY <1>1, SubSeqProperties
<1>3. back \in Seq(S) /\ Len(back) = Len(s) - i
      /\ \A j \in 1 .. Len(s) - i : back[j] = s[i + j]
  BY <1>1, SubSeqProperties
<1> HIDE DEF front, back
<1>4. front \o back \in Seq(S) /\ Len(front \o back) = Len(s) - 1
  <2>1. front \o back \in Seq(S) /\ Len(front \o back) = Len(front) + Len(back)
    BY <1>2, <1>3, ConcatProperties, Zenon
  <2> QED
    BY <2>1, <1>1, <1>2, <1>3
<1>5. ASSUME NEW j \in 1 .. Len(s) - 1
      PROVE  (front \o back)[j] = IF j < i THEN s[j] ELSE s[j + 1]
  <2>1. CASE j < i
    BY <2>1, <1>1, <1>2, <1>3, ConcatProperties
  <2>2. CASE ~(j < i)
    <3>1. (front \o back)[j] = back[j - (i - 1)]
      BY <2>2, <1>1, <1>2, <1>3, ConcatProperties
    <3>2. j - (i - 1) \in 1 .. Len(s) - i
      BY <2>2, <1>1
    <3> QED
      BY <3>1, <3>2, <2>2, <1>1, <1>3
  <2> QED
    BY <2>1, <2>2
<1>6. RemoveAt(s, i) = front \o back
  BY DEF RemoveAt, front, back
<1> QED
  BY <1>4, <1>5, <1>6

(* What the elements of a sequence are after it grows, is cut in two, or   *)
(* is put behind another.                                                  *)
LEMMA SeqElements ==
  ASSUME NEW S, NEW s \in Seq(S)
  PROVE  ToSet(s) = {s[i] : i \in 1 .. Len(s)} /\ ToSet(s) \subseteq S
<1>1. Len(s) \in Nat /\ DOMAIN s = 1 .. Len(s) /\ \A i \in 1 .. Len(s) : s[i] \in S
  BY LenProperties, ElementOfSeq
<1> QED
  BY <1>1 DEF ToSet

LEMMA AppendElements ==
  ASSUME NEW S, NEW s \in Seq(S), NEW e \in S
  PROVE  ToSet(Append(s, e)) = ToSet(s) \cup {e}
<1>1. /\ Append(s, e) \in Seq(S) /\ Len(Append(s, e)) = Len(s) + 1 /\ Len(s) \in Nat
      /\ \A i \in 1 .. Len(s) : Append(s, e)[i] = s[i]
      /\ Append(s, e)[Len(s) + 1] = e
  BY AppendProperties, LenProperties
<1>2. 1 .. Len(s) + 1 = (1 .. Len(s)) \cup {Len(s) + 1}
  BY <1>1
<1>3. /\ ToSet(s) = {s[i] : i \in 1 .. Len(s)}
      /\ ToSet(Append(s, e)) = {Append(s, e)[i] : i \in 1 .. Len(s) + 1}
  BY <1>1, SeqElements
<1> QED
  BY <1>1, <1>2, <1>3

LEMMA CutElements ==
  ASSUME NEW S, NEW s \in Seq(S), NEW n \in 0 .. Len(s)
  PROVE  ToSet(s) = ToSet(SubSeq(s, 1, n)) \cup ToSet(SubSeq(s, n + 1, Len(s)))
<1> DEFINE front == SubSeq(s, 1, n)
           back == SubSeq(s, n + 1, Len(s))
<1>1. /\ front \in Seq(S) /\ Len(front) = n /\ \A i \in 1 .. n : front[i] = s[i]
      /\ back \in Seq(S) /\ Len(back) = Len(s) - n
      /\ \A i \in 1 .. Len(s) - n : back[i] = s[n + i]
  BY PrefixProperties, SuffixProperties
<1>2. Len(s) \in Nat /\ n \in Nat /\ n <= Len(s)
  BY LenProperties
<1> HIDE DEF front, back
<1>3. /\ ToSet(s) = {s[i] : i \in 1 .. Len(s)}
      /\ ToSet(front) = {front[i] : i \in 1 .. n}
      /\ ToSet(back) = {back[i] : i \in 1 .. Len(s) - n}
  BY <1>1, SeqElements
<1>4. \A i \in 1 .. Len(s) : i \in 1 .. n \/ (i - n \in 1 .. Len(s) - n /\ i = n + (i - n))
  BY <1>2
<1>5. \A i \in 1 .. n : i \in 1 .. Len(s)
  BY <1>2
<1>6. \A i \in 1 .. Len(s) - n : n + i \in 1 .. Len(s)
  BY <1>2
<1>7. \A x \in ToSet(s) : x \in ToSet(front) \cup ToSet(back)
  BY <1>1, <1>3, <1>4
<1>8. \A x \in ToSet(front) \cup ToSet(back) : x \in ToSet(s)
  BY <1>1, <1>3, <1>5, <1>6
<1> QED
  BY <1>7, <1>8 DEF front, back

LEMMA ConcatElements ==
  ASSUME NEW S, NEW s \in Seq(S), NEW t \in Seq(S)
  PROVE  s \o t \in Seq(S) /\ ToSet(s \o t) = ToSet(s) \cup ToSet(t)
<1>1. /\ s \o t \in Seq(S) /\ Len(s \o t) = Len(s) + Len(t)
      /\ Len(s) \in Nat /\ Len(t) \in Nat
      /\ \A i \in 1 .. Len(s) + Len(t) :
           (s \o t)[i] = IF i <= Len(s) THEN s[i] ELSE t[i - Len(s)]
  BY ConcatProperties, LenProperties
<1> DEFINE st == s \o t
<1>2. /\ ToSet(s) = {s[i] : i \in 1 .. Len(s)}
      /\ ToSet(t) = {t[i] : i \in 1 .. Len(t)}
      /\ ToSet(st) = {st[i] : i \in 1 .. Len(s) + Len(t)}
  BY <1>1, SeqElements
<1> HIDE DEF st
<1>3. \A i \in 1 .. Len(s) : i \in 1 .. Len(s) + Len(t) /\ st[i] = s[i]
  BY <1>1 DEF st
<1>4. \A i \in 1 .. Len(t) : i + Len(s) \in 1 .. Len(s) + Len(t) /\ st[i + Len(s)] = t[i]
  BY <1>1 DEF st
<1>5. \A i \in 1 .. Len(s) + Len(t) : i \in 1 .. Len(s) \/ i - Len(s) \in 1 .. Len(t)
  BY <1>1
<1>6. \A i \in 1 .. Len(s) + Len(t) : st[i] \in ToSet(s) \cup ToSet(t)
  <2> TAKE i \in 1 .. Len(s) + Len(t)
  <2>1. CASE i \in 1 .. Len(s)
    BY <1>2, <1>3, <2>1
  <2>2. CASE i - Len(s) \in 1 .. Len(t)
    <3>1. (i - Len(s)) + Len(s) = i
      BY <1>1
    <3> QED
      BY <1>2, <1>4, <2>2, <3>1
  <2> QED
    BY <1>5, <2>1, <2>2
<1>7. \A x \in ToSet(s) \cup ToSet(t) : x \in ToSet(st)
  BY <1>2, <1>3, <1>4
<1>8. \A x \in ToSet(st) : x \in ToSet(s) \cup ToSet(t)
  BY <1>2, <1>6
<1> QED
  BY <1>1, <1>7, <1>8 DEF st

-----------------------------------------------------------------------------
(* Sums *)

(* Induction over the subsets of a finite set, on the set of the subsets   *)
(* that have the property.                                                 *)
LEMMA EveryFiniteSet ==
  ASSUME NEW U, IsFiniteSet(U), NEW T, {} \in T,
         \A s \in SUBSET U : \A x \in U \ s : s \in T => s \cup {x} \in T
  PROVE  U \in T
<1> DEFINE sizes == {n \in Nat : \A s \in SUBSET U : Cardinality(s) = n => s \in T}
<1>1. \A s \in SUBSET U : IsFiniteSet(s) /\ Cardinality(s) \in Nat
  BY FS_Subset, FS_CardinalityType
<1>2. 0 \in sizes
  BY <1>1, FS_EmptySet
<1>3. ASSUME NEW n \in Nat, n \in sizes
      PROVE  n + 1 \in sizes
  <2> SUFFICES ASSUME NEW s \in SUBSET U, Cardinality(s) = n + 1 PROVE s \in T
    OBVIOUS
  <2>1. PICK x : x \in s
    <3>1. s # {}
      BY <1>1, FS_EmptySet
    <3> QED
      BY <3>1
  <2>2. PICK rest \in SUBSET U : rest = s \ {x}
    OBVIOUS
  <2>3. Cardinality(rest) = n
    <3>1. Cardinality(s \ {x}) = Cardinality(s) - 1
      BY <1>1, <2>1, FS_RemoveElement
    <3> QED
      BY <2>2, <3>1
  <2>4. rest \in T /\ x \in U \ rest /\ rest \cup {x} = s
    BY <1>3, <2>1, <2>2, <2>3
  <2> QED
    BY <2>4
<1> HIDE DEF sizes
<1>4. \A n \in Nat : n \in sizes
  BY <1>2, <1>3, EveryNatural
<1> QED
  BY <1>1, <1>4 DEF sizes

(* The order in which a sum takes the elements of a set.                   *)
Sums(f, S, g) ==
  g = [s \in SUBSET S |->
         IF s = {} THEN 0 ELSE f[CHOOSE x \in s : TRUE] + g[s \ {CHOOSE x \in s : TRUE}]]

LEMMA SumUnfolded ==
  ASSUME NEW f, NEW S
  PROVE  SumFunctionOnSet(f, S) = (CHOOSE g : Sums(f, S, g))[S]
  BY DEF SumFunctionOnSet, FoldFunctionOnSet, MapThenFoldSet, Sums

LEMMA SumExists ==
  ASSUME NEW f, NEW S, IsFiniteSet(S)
  PROVE  \E g : Sums(f, S, g)
<1> DEFINE pick(s) == CHOOSE x \in s : TRUE
           Until(g, n) == \A s \in SUBSET S : Cardinality(s) <= n =>
                            g[s] = IF s = {} THEN 0 ELSE f[pick(s)] + g[s \ {pick(s)}]
           T == {n \in Nat : \E g : g = [s \in SUBSET S |-> g[s]] /\ Until(g, n)}
<1>1. \A s \in SUBSET S : IsFiniteSet(s) /\ Cardinality(s) \in Nat
  BY FS_Subset, FS_CardinalityType
<1>2. \A s \in SUBSET S : s # {} => /\ s \ {pick(s)} \in SUBSET S
                                    /\ Cardinality(s \ {pick(s)}) = Cardinality(s) - 1
  <2> SUFFICES ASSUME NEW s \in SUBSET S, s # {}
               PROVE  Cardinality(s \ {pick(s)}) = Cardinality(s) - 1
    OBVIOUS
  <2>1. pick(s) \in s
    OBVIOUS
  <2> QED
    BY <1>1, <2>1, FS_RemoveElement
<1>3. 0 \in T
  <2>1. PICK g : g = [s \in SUBSET S |-> 0]
    OBVIOUS
  <2>2. \A s \in SUBSET S : Cardinality(s) <= 0 => s = {}
    BY <1>1, FS_EmptySet
  <2>3. g = [s \in SUBSET S |-> g[s]] /\ Until(g, 0)
    BY <2>1, <2>2
  <2> QED
    BY <2>3
<1>4. ASSUME NEW n \in Nat, n \in T
      PROVE  n + 1 \in T
  <2>1. PICK g : Until(g, n)
    BY <1>4
  <2>2. PICK h : h = [s \in SUBSET S |->
                        IF s = {} THEN 0 ELSE f[pick(s)] + g[s \ {pick(s)}]]
    OBVIOUS
  <2>3. \A s \in SUBSET S : Cardinality(s) <= n => h[s] = g[s]
    BY <2>1, <2>2
  <2>4. ASSUME NEW s \in SUBSET S, Cardinality(s) <= n + 1
        PROVE  h[s] = IF s = {} THEN 0 ELSE f[pick(s)] + h[s \ {pick(s)}]
    <3>1. s # {} => s \ {pick(s)} \in SUBSET S /\ Cardinality(s \ {pick(s)}) <= n
      BY <1>1, <1>2, <2>4
    <3>2. s # {} => h[s \ {pick(s)}] = g[s \ {pick(s)}]
      BY <2>3, <3>1
    <3> QED
      BY <2>2, <3>2
  <2>5. Until(h, n + 1)
    BY <2>4
  <2>6. h = [s \in SUBSET S |-> h[s]]
    BY <2>2
  <2> HIDE DEF Until
  <2> QED
    BY <2>5, <2>6
<1>5. PICK g : g = [s \in SUBSET S |-> g[s]] /\ Until(g, Cardinality(S))
  <2> HIDE DEF T
  <2>1. Cardinality(S) \in T
    BY <1>1, <1>3, <1>4, EveryNatural
  <2> QED
    BY <2>1 DEF T
<1>6. \A s \in SUBSET S : Cardinality(s) <= Cardinality(S)
  BY FS_Subset
<1>7. g = [s \in SUBSET S |->
             IF s = {} THEN 0 ELSE f[pick(s)] + g[s \ {pick(s)}]]
  BY <1>5, <1>6
<1> QED
  BY <1>7 DEF Sums

LEMMA SumUnique ==
  ASSUME NEW f, NEW S, IsFiniteSet(S), NEW A \in SUBSET S,
         NEW g, Sums(f, A, g), NEW h, Sums(f, S, h)
  PROVE  g[A] = h[A]
<1> DEFINE pick(s) == CHOOSE x \in s : TRUE
           T == {n \in Nat : \A s \in SUBSET A : Cardinality(s) <= n => g[s] = h[s]}
<1>1. \A s \in SUBSET A : /\ s \in SUBSET S
                          /\ g[s] = IF s = {} THEN 0 ELSE f[pick(s)] + g[s \ {pick(s)}]
                          /\ h[s] = IF s = {} THEN 0 ELSE f[pick(s)] + h[s \ {pick(s)}]
  BY DEF Sums
<1>2. \A s \in SUBSET A : IsFiniteSet(s) /\ Cardinality(s) \in Nat
  BY FS_Subset, FS_CardinalityType
<1>3. \A s \in SUBSET A : s # {} => Cardinality(s \ {pick(s)}) = Cardinality(s) - 1
  <2> SUFFICES ASSUME NEW s \in SUBSET A, s # {}
               PROVE  Cardinality(s \ {pick(s)}) = Cardinality(s) - 1
    OBVIOUS
  <2>1. pick(s) \in s
    OBVIOUS
  <2> QED
    BY <1>2, <2>1, FS_RemoveElement
<1>4. 0 \in T
  <2>1. \A s \in SUBSET A : Cardinality(s) <= 0 => s = {}
    BY <1>2, FS_EmptySet
  <2> QED
    BY <1>1, <2>1
<1>5. ASSUME NEW n \in Nat, n \in T
      PROVE  n + 1 \in T
  <2> SUFFICES ASSUME NEW s \in SUBSET A, Cardinality(s) <= n + 1, s # {} PROVE g[s] = h[s]
    BY <1>1
  <2>1. s \ {pick(s)} \in SUBSET A /\ Cardinality(s \ {pick(s)}) <= n
    BY <1>2, <1>3
  <2>2. g[s \ {pick(s)}] = h[s \ {pick(s)}]
    BY <1>5, <2>1
  <2> QED
    BY <1>1, <2>2
<1> HIDE DEF T
<1>6. Cardinality(A) \in T
  BY <1>2, <1>4, <1>5, EveryNatural
<1> QED
  BY <1>2, <1>6 DEF T

(* The sum over the empty set, and the first element a sum takes.          *)
LEMMA SumRecursion ==
  ASSUME NEW f, NEW S, IsFiniteSet(S)
  PROVE  /\ SumFunctionOnSet(f, {}) = 0
         /\ S # {} => \E x \in S : SumFunctionOnSet(f, S) = f[x] + SumFunctionOnSet(f, S \ {x})
<1>1. \A A \in SUBSET S : \E g : Sums(f, A, g) /\ SumFunctionOnSet(f, A) = g[A]
  <2> SUFFICES ASSUME NEW A \in SUBSET S
               PROVE  \E g : Sums(f, A, g) /\ SumFunctionOnSet(f, A) = g[A]
    OBVIOUS
  <2>1. IsFiniteSet(A)
    BY FS_Subset
  <2>2. PICK g : g = CHOOSE h : Sums(f, A, h)
    OBVIOUS
  <2>3. Sums(f, A, g)
    BY <2>1, <2>2, SumExists
  <2>4. SumFunctionOnSet(f, A) = g[A]
    BY <2>2, SumUnfolded
  <2> QED
    BY <2>3, <2>4
<1>2. PICK h : Sums(f, S, h)
  BY SumExists
<1>3. \A A \in SUBSET S : SumFunctionOnSet(f, A) = h[A]
  BY <1>1, <1>2, SumUnique
<1>4. \A s \in SUBSET S : h[s] = IF s = {} THEN 0 ELSE f[CHOOSE x \in s : TRUE]
                                                       + h[s \ {CHOOSE x \in s : TRUE}]
  BY <1>2 DEF Sums
<1>5. SumFunctionOnSet(f, {}) = 0
  BY <1>3, <1>4
<1>6. CASE S # {}
  <2>1. PICK x : x = CHOOSE y \in S : TRUE
    OBVIOUS
  <2>2. x \in S /\ S \ {x} \in SUBSET S
    BY <1>6, <2>1
  <2>3. h[S] = f[x] + h[S \ {x}]
    BY <1>4, <1>6, <2>1
  <2>4. SumFunctionOnSet(f, S) = f[x] + SumFunctionOnSet(f, S \ {x})
    BY <1>3, <2>2, <2>3
  <2> QED
    BY <1>5, <2>2, <2>4
<1> QED
  BY <1>5, <1>6

(* A sum of naturals is a natural, and takes its elements in any order.    *)
LEMMA SumType ==
  ASSUME NEW S, IsFiniteSet(S), NEW f, \A x \in S : f[x] \in Nat
  PROVE  SumFunctionOnSet(f, S) \in Nat
<1> DEFINE T == {n \in Nat : \A s \in SUBSET S : Cardinality(s) = n => SumFunctionOnSet(f, s) \in Nat}
<1>1. \A s \in SUBSET S : IsFiniteSet(s) /\ Cardinality(s) \in Nat
  BY FS_Subset, FS_CardinalityType
<1>2. 0 \in T
  <2>1. \A s \in SUBSET S : Cardinality(s) = 0 => s = {}
    BY <1>1, FS_EmptySet
  <2>2. SumFunctionOnSet(f, {}) = 0
    BY SumRecursion
  <2> QED
    BY <2>1, <2>2
<1>3. ASSUME NEW n \in Nat, n \in T
      PROVE  n + 1 \in T
  <2> SUFFICES ASSUME NEW s \in SUBSET S, Cardinality(s) = n + 1
               PROVE  SumFunctionOnSet(f, s) \in Nat
    OBVIOUS
  <2>1. s # {}
    BY FS_EmptySet
  <2>2. PICK x \in s : SumFunctionOnSet(f, s) = f[x] + SumFunctionOnSet(f, s \ {x})
    BY <1>1, <2>1, SumRecursion
  <2>3. s \ {x} \in SUBSET S /\ Cardinality(s \ {x}) = n
    <3>1. Cardinality(s \ {x}) = Cardinality(s) - 1
      BY <1>1, FS_RemoveElement
    <3> QED
      BY <3>1
  <2>4. SumFunctionOnSet(f, s \ {x}) \in Nat
    BY <1>3, <2>3
  <2> QED
    BY <2>2, <2>4
<1> HIDE DEF T
<1>4. Cardinality(S) \in T
  BY <1>1, <1>2, <1>3, EveryNatural
<1> QED
  BY <1>1, <1>4 DEF T

LEMMA SumAdded ==
  ASSUME NEW S, IsFiniteSet(S), NEW f, \A y \in S : f[y] \in Nat,
         NEW x \in S
  PROVE  SumFunctionOnSet(f, S) = SumFunctionOnSet(f, S \ {x}) + f[x]
<1> DEFINE Sum(s) == SumFunctionOnSet(f, s)
           T == {n \in Nat : \A s \in SUBSET S : Cardinality(s) = n =>
                               \A a \in s : Sum(s) = Sum(s \ {a}) + f[a]}
<1>1. \A s \in SUBSET S : IsFiniteSet(s) /\ Cardinality(s) \in Nat /\ Sum(s) \in Nat
  <2>1. \A s \in SUBSET S : IsFiniteSet(s) /\ Cardinality(s) \in Nat
    BY FS_Subset, FS_CardinalityType
  <2>2. \A s \in SUBSET S : \A y \in s : f[y] \in Nat
    OBVIOUS
  <2> QED
    BY <2>1, <2>2, SumType
<1>2. 0 \in T
  <2>1. \A s \in SUBSET S : Cardinality(s) = 0 => s = {}
    BY <1>1, FS_EmptySet
  <2> QED
    BY <2>1
<1>3. ASSUME NEW n \in Nat, n \in T
      PROVE  n + 1 \in T
  <2> SUFFICES ASSUME NEW s \in SUBSET S, Cardinality(s) = n + 1, NEW a \in s
               PROVE  Sum(s) = Sum(s \ {a}) + f[a]
    OBVIOUS
  <2>1. PICK b \in s : Sum(s) = f[b] + Sum(s \ {b})
    BY <1>1, SumRecursion
  <2>2. f[a] \in Nat /\ f[b] \in Nat
    OBVIOUS
  <2>3. Sum(s \ {b}) \in Nat /\ Sum(s \ {a}) \in Nat
    BY <1>1
  <2>4. CASE a = b
    BY <2>1, <2>2, <2>3, <2>4
  <2>5. CASE a # b
    <3>1. PICK less \in SUBSET S : less = s \ {a}
      OBVIOUS
    <3>2. PICK fewer \in SUBSET S : fewer = s \ {b}
      OBVIOUS
    <3>3. Cardinality(less) = n /\ Cardinality(fewer) = n
      <4>1. Cardinality(s \ {a}) = Cardinality(s) - 1 /\ Cardinality(s \ {b}) = Cardinality(s) - 1
        BY <1>1, FS_RemoveElement
      <4> QED
        BY <3>1, <3>2, <4>1
    <3>4. b \in less /\ a \in fewer /\ less \ {b} = fewer \ {a}
      BY <2>5, <3>1, <3>2
    <3>5. Sum(less) = Sum(less \ {b}) + f[b] /\ Sum(fewer) = Sum(fewer \ {a}) + f[a]
      BY <1>3, <3>3, <3>4
    <3>6. Sum(less \ {b}) \in Nat
      BY <1>1
    <3>7. Sum(s) = f[b] + Sum(fewer)
      BY <2>1, <3>2
    <3>8. Sum(s) = Sum(less) + f[a]
      <4> HIDE DEF Sum
      <4> QED
        BY <2>2, <3>4, <3>5, <3>6, <3>7
    <3> QED
      BY <3>1, <3>8
  <2> QED
    BY <2>4, <2>5
<1> HIDE DEF T
<1>4. Cardinality(S) \in T
  BY <1>1, <1>2, <1>3, EveryNatural
<1> QED
  BY <1>4 DEF T

(* A sum depends on the values at its elements only.                       *)
LEMMA SumSame ==
  ASSUME NEW S, IsFiniteSet(S), NEW f, \A x \in S : f[x] \in Nat,
         NEW g, \A x \in S : g[x] = f[x]
  PROVE  SumFunctionOnSet(g, S) = SumFunctionOnSet(f, S)
<1> DEFINE T == {s \in SUBSET S : SumFunctionOnSet(g, s) = SumFunctionOnSet(f, s)}
<1>1. {} \in T
  BY FS_EmptySet, SumRecursion
<1>2. ASSUME NEW s \in SUBSET S, NEW x \in S \ s, s \in T
      PROVE  s \cup {x} \in T
  <2>1. PICK more \in SUBSET S : more = s \cup {x}
    OBVIOUS
  <2>2. IsFiniteSet(more) /\ more \ {x} = s /\ x \in more
    BY <2>1, FS_Subset
  <2>3. \A y \in more : f[y] \in Nat /\ g[y] \in Nat
    OBVIOUS
  <2>4. /\ SumFunctionOnSet(f, more) = SumFunctionOnSet(f, s) + f[x]
        /\ SumFunctionOnSet(g, more) = SumFunctionOnSet(g, s) + g[x]
    BY <2>2, <2>3, SumAdded
  <2> QED
    BY <1>2, <2>1, <2>4
<1> HIDE DEF T
<1>3. S \in T
  BY <1>1, <1>2, EveryFiniteSet
<1> QED
  BY <1>3 DEF T

(* An element that may or may not be in the set.                           *)
LEMMA SumMaybe ==
  ASSUME NEW S, IsFiniteSet(S), NEW f, \A y \in S : f[y] \in Nat,
         NEW x, x \notin S, f[x] \in Nat, NEW more, more = S \/ more = S \cup {x}
  PROVE  /\ IsFiniteSet(more)
         /\ \A y \in more : f[y] \in Nat
         /\ SumFunctionOnSet(f, more) =
              SumFunctionOnSet(f, S) + (IF x \in more THEN f[x] ELSE 0)
<1>1. SumFunctionOnSet(f, S) \in Nat
  BY SumType
<1>2. CASE more = S
  BY <1>1, <1>2
<1>3. CASE more = S \cup {x}
  <2>1. IsFiniteSet(more) /\ more \ {x} = S /\ x \in more /\ \A y \in more : f[y] \in Nat
    BY <1>3, FS_AddElement
  <2>2. SumFunctionOnSet(f, more) = SumFunctionOnSet(f, S) + f[x]
    BY <2>1, SumAdded
  <2> QED
    BY <2>1, <2>2
<1> QED
  BY <1>2, <1>3

(* A function that is zero but at two points.                              *)
LEMMA SumOfZeros ==
  ASSUME NEW S, IsFiniteSet(S), NEW f, \A x \in S : f[x] = 0
  PROVE  SumFunctionOnSet(f, S) = 0
<1> DEFINE T == {s \in SUBSET S : SumFunctionOnSet(f, s) = 0}
<1>1. {} \in T
  BY FS_EmptySet, SumRecursion
<1>2. ASSUME NEW s \in SUBSET S, NEW x \in S \ s, s \in T
      PROVE  s \cup {x} \in T
  <2>1. PICK more \in SUBSET S : more = s \cup {x}
    OBVIOUS
  <2>2. IsFiniteSet(more) /\ more \ {x} = s /\ x \in more /\ \A y \in more : f[y] \in Nat
    BY <2>1, FS_Subset
  <2>3. SumFunctionOnSet(f, more) = SumFunctionOnSet(f, s) + f[x]
    BY <2>2, SumAdded
  <2> QED
    BY <1>2, <2>1, <2>3
<1> HIDE DEF T
<1>3. S \in T
  BY <1>1, <1>2, EveryFiniteSet
<1> QED
  BY <1>3 DEF T

LEMMA SumOfTwo ==
  ASSUME NEW S, IsFiniteSet(S), NEW f, \A x \in S : f[x] \in Nat,
         NEW a, NEW b, a # b, \A x \in S : x # a /\ x # b => f[x] = 0
  PROVE  SumFunctionOnSet(f, S) =
           (IF a \in S THEN f[a] ELSE 0) + (IF b \in S THEN f[b] ELSE 0)
<1>1. PICK rest : rest = S \ {a, b}
  OBVIOUS
<1>2. PICK half : half = S \ {b}
  OBVIOUS
<1>3. IsFiniteSet(rest) /\ IsFiniteSet(half)
  BY <1>1, <1>2, FS_Subset
<1>4. SumFunctionOnSet(f, rest) = 0
  BY <1>1, <1>3, SumOfZeros
<1>5. SumFunctionOnSet(f, half) = IF a \in S THEN f[a] ELSE 0
  <2>1. CASE a \in S
    <3>1. a \in half /\ half \ {a} = rest /\ \A x \in half : f[x] \in Nat
      BY <2>1, <1>1, <1>2
    <3>2. SumFunctionOnSet(f, half) = SumFunctionOnSet(f, rest) + f[a]
      BY <1>3, <3>1, SumAdded
    <3> QED
      BY <1>4, <2>1, <3>2
  <2>2. CASE a \notin S
    BY <1>1, <1>2, <1>4, <2>2
  <2> QED
    BY <2>1, <2>2
<1>6. SumFunctionOnSet(f, half) \in Nat
  BY <1>2, <1>3, SumType
<1>7. CASE b \in S
  <2>1. SumFunctionOnSet(f, S) = SumFunctionOnSet(f, half) + f[b]
    BY <1>2, <1>7, SumAdded
  <2> QED
    BY <1>5, <1>7, <2>1
<1>8. CASE b \notin S
  <2>1. half = S
    BY <1>2, <1>8
  <2> QED
    BY <1>5, <1>6, <1>8, <2>1
<1> QED
  BY <1>7, <1>8

(* What a list of amounts comes to when one more is appended.              *)
LEMMA SumAppended ==
  ASSUME NEW R, NEW s \in Seq(R), NEW e \in R, \A r \in R : r.quantity \in Nat,
         NEW f, f = [i \in DOMAIN s |-> s[i].quantity],
         NEW g, g = [i \in DOMAIN Append(s, e) |-> Append(s, e)[i].quantity]
  PROVE  /\ SumFunction(f) \in Nat
         /\ SumFunction(g) = SumFunction(f) + e.quantity
<1>1. /\ Len(s) \in Nat /\ DOMAIN s = 1 .. Len(s) /\ \A i \in 1 .. Len(s) : s[i] \in R
  BY LenProperties, ElementOfSeq
<1>2. /\ DOMAIN Append(s, e) = 1 .. Len(s) + 1
      /\ \A i \in 1 .. Len(s) : Append(s, e)[i] = s[i]
      /\ Append(s, e)[Len(s) + 1] = e
  BY <1>1, AppendProperties
<1>3. PICK n \in Nat : n = Len(s)
  BY <1>1
<1>4. /\ DOMAIN f = 1 .. n /\ DOMAIN g = 1 .. n + 1
      /\ \A i \in 1 .. n : f[i] \in Nat /\ g[i] = f[i]
      /\ g[n + 1] = e.quantity /\ e.quantity \in Nat
  BY <1>1, <1>2, <1>3
<1>5. PICK old, new, last : old = 1 .. n /\ new = 1 .. n + 1 /\ last = n + 1
  OBVIOUS
<1>6. /\ IsFiniteSet(old) /\ IsFiniteSet(new)
      /\ last \in new /\ new \ {last} = old
      /\ \A i \in old : f[i] \in Nat /\ g[i] = f[i]
      /\ \A i \in new : g[i] \in Nat
      /\ g[last] = e.quantity
  <2>1. IsFiniteSet(old) /\ IsFiniteSet(new)
    BY <1>5, FS_Interval
  <2> QED
    BY <1>4, <1>5, <2>1
<1>7. SumFunctionOnSet(f, old) \in Nat /\ SumFunctionOnSet(g, old) = SumFunctionOnSet(f, old)
  BY ONLY <1>6, SumType, SumSame
<1>8. SumFunctionOnSet(g, new) = SumFunctionOnSet(g, old) + g[last]
  BY ONLY <1>6, SumAdded
<1>9. SumFunction(f) = SumFunctionOnSet(f, old) /\ SumFunction(g) = SumFunctionOnSet(g, new)
  BY <1>4, <1>5 DEF SumFunction
<1> QED
  BY <1>6, <1>7, <1>8, <1>9
=============================================================================
