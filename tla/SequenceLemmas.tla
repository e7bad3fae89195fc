---------------------------- MODULE SequenceLemmas ----------------------------
(***************************************************************************)
(* What the proofs need to know of numbers and of sequences of sequences   *)
(* one behind the other, as the mappings of a report and the TLVs of a     *)
(* frame are.                                                              *)
(***************************************************************************)
EXTENDS Naturals, SequencesExt, WellFoundedInduction, SequenceTheorems, TLAPS

\* Every set of numbers has a smallest: whatever fails for a number fails for a
\* first one.
LEMMA NatMin == \A T : T \subseteq Nat /\ T # {} => \E x \in T : \A y \in T : ~(y < x)
<1> TAKE T
<1> HAVE T \subseteq Nat /\ T # {}
<1>1. PICK x \in T : \A y \in T : ~(<<y, x>> \in OpToRel(<, Nat))
  BY NatLessThanWellFounded, WFMin
<1>2. \A y \in T : y < x => <<y, x>> \in OpToRel(<, Nat)
  BY DEF OpToRel
<1> QED
  BY <1>1, <1>2

\* The smallest of a set of numbers, and the largest of a set that has a bound.
LEMMA MinOf ==
  ASSUME NEW T, T \subseteq Nat, T # {}
  PROVE  Min(T) \in T /\ \A y \in T : Min(T) <= y
<1>1. PICK x \in T : \A y \in T : ~(y < x)
  BY NatMin
<1>2. \A y \in T : x <= y
  BY <1>1
<1> QED
  BY <1>2 DEF Min

LEMMA MaxOf ==
  ASSUME NEW n \in Nat, NEW T, T \subseteq 0..n, T # {}
  PROVE  Max(T) \in T /\ \A y \in T : Max(T) >= y
<1> DEFINE bounds == {b \in Nat : \A y \in T : y <= b}
<1>1. n \in bounds
  OBVIOUS
<1>2. PICK b \in bounds : \A c \in bounds : ~(c < b)
  BY <1>1, NatMin
<1>3. b \in T
  <2> SUFFICES ASSUME b \notin T PROVE FALSE
    OBVIOUS
  <2>1. PICK y \in T : TRUE
    OBVIOUS
  <2>2. \A z \in T : z \in Nat /\ z <= b /\ z # b
    OBVIOUS
  <2>3. b - 1 \in Nat /\ \A z \in T : z <= b - 1
    BY <2>1, <2>2
  <2> QED
    BY <1>2, <2>3
<1>4. b \in T /\ \A y \in T : b >= y
  BY <1>3
<1> QED
  BY <1>4 DEF Max

LEMMA MinTwo ==
  ASSUME NEW a \in Nat, NEW b \in Nat
  PROVE  Min({a, b}) = IF a <= b THEN a ELSE b
<1>1. {a, b} \subseteq Nat /\ {a, b} # {}
  OBVIOUS
<1>2. Min({a, b}) \in {a, b} /\ \A y \in {a, b} : Min({a, b}) <= y
  BY <1>1, MinOf
<1> QED
  BY <1>2

-----------------------------------------------------------------------------
(* Parts of sequences.                                                      *)

\* An element in front of a sequence.
LEMMA InFront ==
  ASSUME NEW T, NEW e \in T, NEW rest \in Seq(T)
  PROVE  /\ <<e>> \o rest \in Seq(T) /\ Len(<<e>> \o rest) = 1 + Len(rest)
         /\ (<<e>> \o rest)[1] = e
         /\ \A n \in 1..Len(rest) : (<<e>> \o rest)[1 + n] = rest[n]
<1>1. <<e>> \in Seq(T) /\ Len(<<e>>) = 1 /\ Len(rest) \in Nat
  OBVIOUS
<1>2. /\ <<e>> \o rest \in Seq(T) /\ Len(<<e>> \o rest) = 1 + Len(rest)
      /\ \A i \in 1..1 + Len(rest) :
            (<<e>> \o rest)[i] = IF i <= 1 THEN <<e>>[i] ELSE rest[i - 1]
  BY <1>1, ConcatProperties
<1> DEFINE both == <<e>> \o rest
<1>3. 1 \in 1..1 + Len(rest) /\ 1 <= 1
  BY <1>1
<1>4. ASSUME NEW n \in 1..Len(rest)
      PROVE  1 + n \in 1..1 + Len(rest) /\ ~(1 + n <= 1) /\ (1 + n) - 1 = n
  BY <1>1
<1> HIDE DEF both
<1>5. \A i \in 1..1 + Len(rest) : both[i] = IF i <= 1 THEN <<e>>[i] ELSE rest[i - 1]
  BY <1>2 DEF both
<1>6. both[1] = e
  BY <1>3, <1>5
<1>7. ASSUME NEW n \in 1..Len(rest) PROVE both[1 + n] = rest[n]
  <2> DEFINE q == 1 + n
  <2>1. q \in 1..1 + Len(rest) /\ ~(q <= 1) /\ q - 1 = n
    BY <1>4
  <2> HIDE DEF q
  <2>2. both[q] = rest[n]
    BY <1>5, <2>1
  <2> QED
    BY <2>2 DEF q
<1> QED
  BY <1>2, <1>6, <1>7 DEF both

\* A part of a sequence.
LEMMA Slice ==
  ASSUME NEW S, NEW s \in Seq(S), NEW k \in Nat, NEW n \in Nat, k <= n, n <= Len(s)
  PROVE  /\ SubSeq(s, k + 1, n) \in Seq(S) /\ Len(SubSeq(s, k + 1, n)) = n - k
         /\ \A j \in 1..n - k : SubSeq(s, k + 1, n)[j] = s[k + j] /\ k + j \in 1..n
<1>1. \A j \in k + 1..n : s[j] \in S
  OBVIOUS
<1>2. /\ SubSeq(s, k + 1, n) \in Seq(S)
      /\ Len(SubSeq(s, k + 1, n)) = IF k + 1 <= n THEN n - (k + 1) + 1 ELSE 0
      /\ \A j \in 1..n - (k + 1) + 1 : SubSeq(s, k + 1, n)[j] = s[(k + 1) + j - 1]
  <2>1. k + 1 \in Int /\ n \in Int
    OBVIOUS
  <2> QED
    BY <1>1, <2>1, SubSeqProperties
<1>3. /\ (IF k + 1 <= n THEN n - (k + 1) + 1 ELSE 0) = n - k /\ n - (k + 1) + 1 = n - k
      /\ \A j \in 1..n - k : (k + 1) + j - 1 = k + j /\ k + j \in 1..n
  OBVIOUS
<1> DEFINE sub == SubSeq(s, k + 1, n)
<1> HIDE DEF sub
<1>4. /\ sub \in Seq(S) /\ Len(sub) = n - k
      /\ \A j \in 1..n - k : sub[j] = s[k + j]
  BY <1>2, <1>3 DEF sub
<1> QED
  BY <1>3, <1>4 DEF sub

\* A prefix has the same elements.
LEMMA PrefixIs ==
  ASSUME NEW S, NEW s \in Seq(S), NEW t \in Seq(S), IsPrefix(s, t)
  PROVE  /\ Len(s) \in Nat /\ Len(t) \in Nat /\ Len(s) <= Len(t)
         /\ \A j \in 1..Len(s) : s[j] = t[j]
         /\ Len(s) = Len(t) => s = t
<1>1. Len(s) \in Nat /\ Len(t) \in Nat /\ Len(s) <= Len(t)
  BY DEF IsPrefix
<1>2. ASSUME NEW r \in Seq(S), Len(s) <= Len(r), NEW j \in 1..Len(s)
      PROVE  SubSeq(r, 1, Len(s))[j] = r[j]
  <2>1. \A k \in 1..Len(s) - 0 : SubSeq(r, 0 + 1, Len(s))[k] = r[0 + k]
    BY <1>1, <1>2, Slice
  <2>2. 0 + 1 = 1 /\ Len(s) - 0 = Len(s) /\ 0 + j = j
    BY <1>1
  <2> QED
    BY <2>1, <2>2
<1>3. ASSUME NEW j \in 1..Len(s) PROVE s[j] = t[j]
  <2>1. SubSeq(s, 1, Len(s))[j] = s[j] /\ SubSeq(t, 1, Len(s))[j] = t[j]
    BY <1>1, <1>2
  <2> QED
    BY <2>1 DEF IsPrefix
<1>4. Len(s) = Len(t) => s = t
  BY <1>3, SeqEqual
<1> QED
  BY <1>1, <1>3, <1>4

-----------------------------------------------------------------------------
(* FlattenSeq.                                                              *)

\* f[i] is the first i sequences one behind the other.
IsFlat(f, seqs, n) == f = [i \in 1..n |-> IF i = 1 THEN seqs[i] ELSE f[i - 1] \o seqs[i]]

LEMMA FlatExists ==
  ASSUME NEW seqs, NEW n \in Nat \ {0}
  PROVE  \E f : IsFlat(f, seqs, n)
<1> SUFFICES ASSUME NEW T, T = {m \in Nat \ {0} : ~\E f : IsFlat(f, seqs, m)}, T # {}
             PROVE  FALSE
  OBVIOUS
<1>1. PICK m \in T : \A k \in T : ~(k < m)
  BY NatMin
<1>2. CASE m = 1
  <2>1. IsFlat([i \in 1..1 |-> seqs[i]], seqs, 1)
    BY DEF IsFlat
  <2> QED
    BY <1>1, <1>2, <2>1
<1>3. CASE m # 1
  <2>1. m \in Nat /\ m - 1 \in Nat \ {0} /\ m - 1 < m
    BY <1>3
  <2>2. PICK f : IsFlat(f, seqs, m - 1)
    BY <1>1, <2>1
  <2> DEFINE g == [i \in 1..m |-> IF i = m THEN f[m - 1] \o seqs[m] ELSE f[i]]
  <2>3. \A i \in 1..m : g[i] = IF i = 1 THEN seqs[i] ELSE g[i - 1] \o seqs[i]
    <3> SUFFICES ASSUME NEW i \in 1..m
                 PROVE  g[i] = IF i = 1 THEN seqs[i] ELSE g[i - 1] \o seqs[i]
      OBVIOUS
    <3>1. CASE i = m
      <4>1. m - 1 \in 1..m /\ m - 1 # m /\ m \in 1..m
        BY <2>1
      <4>2. g[m - 1] = f[m - 1] /\ g[m] = f[m - 1] \o seqs[m]
        BY <4>1
      <4> QED
        BY <1>3, <3>1, <4>2
    <3>2. CASE i # m
      <4>1. i \in 1..m - 1 /\ g[i] = f[i] /\ (i # 1 => g[i - 1] = f[i - 1])
        BY <3>2, <2>1
      <4>2. f[i] = IF i = 1 THEN seqs[i] ELSE f[i - 1] \o seqs[i]
        BY <2>2, <4>1 DEF IsFlat
      <4> QED
        BY <4>1, <4>2
    <3> QED
      BY <3>1, <3>2
  <2>4. IsFlat(g, seqs, m)
    BY <2>3 DEF IsFlat
  <2> QED
    BY <1>1, <2>4
<1> QED
  BY <1>2, <1>3

LEMMA FlattenDef ==
  ASSUME NEW seqs, Len(seqs) \in Nat, Len(seqs) # 0
  PROVE  \E f : IsFlat(f, seqs, Len(seqs)) /\ FlattenSeq(seqs) = f[Len(seqs)]
<1>1. \E f : IsFlat(f, seqs, Len(seqs))
  BY FlatExists
<1> DEFINE g == CHOOSE f : IsFlat(f, seqs, Len(seqs))
<1>2. IsFlat(g, seqs, Len(seqs))
  BY <1>1
<1>3. FlattenSeq(seqs) = g[Len(seqs)]
  BY DEF FlattenSeq, IsFlat
<1> QED
  BY <1>2, <1>3

\* flat is the first n sequences one behind the other, the i-th from start[i] on.
Places(start, seqs, n, flat) ==
    /\ start \in [1..n + 1 -> Nat]
    /\ start[1] = 0 /\ \A i \in 1..n : start[i + 1] = start[i] + Len(seqs[i])
    /\ Len(flat) = start[n + 1]
    /\ \A i \in 1..n : \A j \in 1..Len(seqs[i]) : flat[start[i] + j] = seqs[i][j]
    /\ \A i, k \in 1..n : i < k => start[i + 1] <= start[k]
    /\ \A p \in 1..Len(flat) : \E i \in 1..n : \E j \in 1..Len(seqs[i]) : p = start[i] + j

\* Where a place of one of the sequences is in the flat one.
LEMMA PlaceIn ==
  ASSUME NEW S, NEW seqs \in Seq(Seq(S)), NEW n \in Nat, n <= Len(seqs),
         NEW start, NEW flat \in Seq(S), Places(start, seqs, n, flat),
         NEW i \in 1..n
  PROVE  /\ start[i] \in Nat /\ start[i + 1] \in Nat /\ start[i + 1] <= Len(flat)
         /\ \A j \in 1..Len(seqs[i]) : start[i] + j \in 1..Len(flat)
<1>t. /\ i \in Nat /\ seqs[i] \in Seq(S) /\ Len(seqs[i]) \in Nat /\ Len(flat) \in Nat
      /\ i \in 1..n + 1 /\ i + 1 \in 1..n + 1 /\ n + 1 \in 1..n + 1
  <2>1. i \in 1..Len(seqs)
    BY Len(seqs) \in Nat
  <2> QED
    BY <2>1
<1>1. /\ start[i] \in Nat /\ start[i + 1] \in Nat /\ start[n + 1] \in Nat
      /\ start[i + 1] = start[i] + Len(seqs[i]) /\ Len(flat) = start[n + 1]
  BY <1>t DEF Places
<1>2. start[i + 1] <= start[n + 1]
  <2>1. CASE i = n
    BY <1>1, <2>1
  <2>2. CASE i # n
    <3>1. i < n /\ n \in 1..n /\ n \in 1..n + 1 /\ n \in 1..Len(seqs)
      BY <2>2
    <3>2. start[i + 1] <= start[n] /\ start[n + 1] = start[n] + Len(seqs[n])
      BY <3>1 DEF Places
    <3>3. start[n] \in Nat /\ Len(seqs[n]) \in Nat
      <4>1. start[n] \in Nat
        BY <3>1 DEF Places
      <4>2. seqs[n] \in Seq(S)
        BY <3>1
      <4> QED
        BY <4>1, <4>2
    <3> QED
      BY <1>1, <3>2, <3>3
  <2> QED
    BY <2>1, <2>2
<1>3. ASSUME NEW j \in 1..Len(seqs[i]) PROVE start[i] + j \in 1..Len(flat)
  <2>1. \A a, b, c, d, e \in Nat : b = a + e /\ b <= c /\ d >= 1 /\ d <= e => a + d \in 1..c
    OBVIOUS
  <2>2. j \in Nat /\ j >= 1 /\ j <= Len(seqs[i])
    BY <1>t
  <2>3. start[i + 1] <= Len(flat)
    BY <1>1, <1>2
  <2> QED
    BY <1>t, <1>1, <2>1, <2>2, <2>3, Zenon
<1> QED
  BY <1>1, <1>2, <1>3

LEMMA NextPlace ==
  ASSUME NEW S, NEW seqs \in Seq(Seq(S)), NEW n \in Nat, n + 1 \in 1..Len(seqs),
         NEW start, NEW flat \in Seq(S), Places(start, seqs, n, flat)
  PROVE  \E next : Places(next, seqs, n + 1, flat \o seqs[n + 1])
<1> DEFINE new == seqs[n + 1]
           both == flat \o new
           next == [i \in 1..n + 2 |-> IF i = n + 2 THEN start[n + 1] + Len(new) ELSE start[i]]
<1>t. /\ \A i \in 1..n + 1 : seqs[i] \in Seq(S) /\ Len(seqs[i]) \in Nat /\ i \in 1..Len(seqs)
      /\ new \in Seq(S) /\ Len(new) \in Nat /\ Len(flat) \in Nat /\ both \in Seq(S)
      /\ \A i \in 1..n + 1 : start[i] \in Nat
  <2>1. \A i \in 1..n + 1 : start[i] \in Nat
    BY DEF Places
  <2>2. ASSUME NEW i \in 1..n + 1 PROVE i \in 1..Len(seqs) /\ seqs[i] \in Seq(S)
    BY Len(seqs) \in Nat
  <2>3. new \in Seq(S) /\ n + 1 \in 1..n + 1
    BY <2>2
  <2>4. both \in Seq(S)
    BY <2>3, ConcatProperties
  <2> HIDE DEF both, new
  <2> QED
    BY <2>1, <2>2, <2>3, <2>4
<1>l. Len(both) = Len(flat) + Len(new) /\ Len(flat) = start[n + 1]
  <2>1. Len(flat) = start[n + 1]
    BY DEF Places
  <2>2. Len(flat \o new) = Len(flat) + Len(new)
    BY <1>t, ConcatProperties
  <2> QED
    BY <2>1, <2>2
<1>c. /\ \A p \in 1..Len(flat) : both[p] = flat[p]
      /\ \A j \in 1..Len(new) : both[Len(flat) + j] = new[j]
  <2>1. ASSUME NEW p \in 1..Len(flat) PROVE p \in 1..Len(flat) + Len(new)
    BY <1>t
  <2>2. ASSUME NEW j \in 1..Len(new)
        PROVE  /\ Len(flat) + j \in 1..Len(flat) + Len(new) /\ ~(Len(flat) + j <= Len(flat))
               /\ (Len(flat) + j) - Len(flat) = j
    BY <1>t
  <2>3. \A p \in 1..Len(flat) + Len(new) :
           both[p] = IF p <= Len(flat) THEN flat[p] ELSE new[p - Len(flat)]
    BY <1>t, ConcatProperties
  <2> HIDE DEF both, new
  <2>4. \A p \in 1..Len(flat) : both[p] = flat[p]
    BY <1>t, <2>1, <2>3
  <2>5. ASSUME NEW j \in 1..Len(new) PROVE both[Len(flat) + j] = new[j]
    <3> DEFINE q == Len(flat) + j
    <3>1. q \in 1..Len(flat) + Len(new) /\ ~(q <= Len(flat)) /\ q - Len(flat) = j
      BY <2>2
    <3> HIDE DEF q
    <3>2. both[q] = new[j]
      BY <2>3, <3>1
    <3> QED
      BY <3>2 DEF q
  <2> QED
    BY <2>4, <2>5
<1>n. /\ \A i \in 1..n + 1 : next[i] = start[i]
      /\ next[n + 2] = start[n + 1] + Len(new)
      /\ next \in [1..n + 2 -> Nat]
  BY <1>t
<1> HIDE DEF both, next
<1>1. next[1] = 0 /\ \A i \in 1..n + 1 : next[i + 1] = next[i] + Len(seqs[i])
  <2>1. ASSUME NEW i \in 1..n + 1 PROVE next[i + 1] = next[i] + Len(seqs[i])
    <3>1. CASE i = n + 1
      <4>1. i \in 1..n + 1 /\ i + 1 = n + 2
        BY <3>1
      <4> QED
        BY <1>n, <3>1, <4>1
    <3>2. CASE i # n + 1
      <4>1. i \in 1..n /\ i + 1 \in 1..n + 1 /\ i \in 1..n + 1
        BY <3>2
      <4> QED
        BY <1>n, <4>1 DEF Places
    <3> QED
      BY <3>1, <3>2
  <2> QED
    BY <1>n, <2>1 DEF Places
<1>2. Len(both) = next[n + 2]
  BY <1>l, <1>n
<1>3. ASSUME NEW i \in 1..n + 1, NEW j \in 1..Len(seqs[i])
      PROVE  both[next[i] + j] = seqs[i][j] /\ next[i] + j \in 1..Len(both)
  <2>0. i \in Nat /\ j \in Nat /\ j >= 1 /\ j <= Len(seqs[i])
    BY <1>t
  <2>1. CASE i = n + 1
    <3>1. next[i] = Len(flat) /\ seqs[i] = new
      BY <1>n, <1>l, <2>1
    <3> HIDE DEF new
    <3>2. Len(flat) + j \in 1..Len(both)
      BY <1>t, <1>l, <2>0, <3>1
    <3> QED
      BY <1>c, <3>1, <3>2
  <2>2. CASE i # n + 1
    <3>1. i \in 1..n
      BY <2>2
    <3>3. start[i] + j \in 1..Len(flat)
      <4>1. n <= Len(seqs)
        BY Len(seqs) \in Nat
      <4> QED
        BY <3>1, <4>1, PlaceIn
    <3>4. flat[start[i] + j] = seqs[i][j]
      BY <3>1 DEF Places
    <3>5. Len(both) \in Nat /\ Len(flat) <= Len(both)
      BY <1>t, <1>l
    <3> QED
      BY <1>c, <1>n, <1>l, <1>t, <3>3, <3>4, <3>5
  <2> QED
    BY <2>1, <2>2
<1>4. ASSUME NEW i \in 1..n + 1, NEW k \in 1..n + 1, i < k PROVE next[i + 1] <= next[k]
  <2>1. i \in 1..n /\ i + 1 \in 1..n + 1
    BY <1>4
  <2>2. CASE k \in 1..n
    BY <1>4, <1>n, <2>1, <2>2 DEF Places
  <2>3. CASE k = n + 1 /\ i = n
    BY <1>t, <1>n, <2>1, <2>3
  <2>4. CASE k = n + 1 /\ i # n
    <3>1. n \in 1..n /\ i < n /\ n \in 1..n + 1 /\ n + 1 \in 1..n + 1
      BY <2>1, <2>4
    <3>2. start[i + 1] <= start[n] /\ start[n + 1] = start[n] + Len(seqs[n])
      BY <2>1, <3>1 DEF Places
    <3> QED
      BY <1>t, <1>n, <2>1, <2>4, <3>1, <3>2
  <2> QED
    BY <2>2, <2>3, <2>4
<1>5. ASSUME NEW p \in 1..Len(both)
      PROVE  \E i \in 1..n + 1 : \E j \in 1..Len(seqs[i]) : p = next[i] + j
  <2>1. CASE p \in 1..Len(flat)
    <3>1. PICK i \in 1..n : \E j \in 1..Len(seqs[i]) : p = start[i] + j
      BY <2>1 DEF Places
    <3>2. i \in 1..n + 1 /\ next[i] = start[i]
      BY <1>n
    <3> QED
      BY <3>1, <3>2
  <2>2. CASE p \notin 1..Len(flat)
    <3>1. p - Len(flat) \in 1..Len(new) /\ p = Len(flat) + (p - Len(flat))
      BY <1>t, <1>l, <2>2
    <3>2. n + 1 \in 1..n + 1 /\ next[n + 1] = Len(flat)
      BY <1>l, <1>n
    <3> QED
      BY <3>1, <3>2
  <2> QED
    BY <2>1, <2>2
<1>6. 1..(n + 1) + 1 = 1..n + 2 /\ (n + 1) + 1 = n + 2
  OBVIOUS
<1> HIDE DEF new
<1>7. Places(next, seqs, n + 1, both)
  BY <1>n, <1>1, <1>2, <1>3, <1>4, <1>5, <1>6 DEF Places
<1> QED
  BY <1>7 DEF both, new

\* All sequences of a sequence are in the flat one, each at its place, and nothing else.
LEMMA Flatten ==
  ASSUME NEW S, NEW seqs \in Seq(Seq(S))
  PROVE  /\ FlattenSeq(seqs) \in Seq(S)
         /\ \E start : Places(start, seqs, Len(seqs), FlattenSeq(seqs))
<1>1. CASE Len(seqs) = 0
  <2>1. seqs = <<>> /\ FlattenSeq(seqs) = <<>>
    BY <1>1 DEF FlattenSeq
  <2>2. Places([i \in 1..1 |-> 0], seqs, 0, <<>>)
    BY <2>1 DEF Places
  <2> QED
    <3>1. <<>> \in Seq(S)
      OBVIOUS
    <3>2. \E start : Places(start, seqs, Len(seqs), FlattenSeq(seqs))
      BY <1>1, <2>1, <2>2, Zenon
    <3> QED
      BY <2>1, <3>1, <3>2, Zenon
<1>2. CASE Len(seqs) # 0
  <2>1. Len(seqs) \in Nat
    OBVIOUS
  <2>2. PICK f : IsFlat(f, seqs, Len(seqs)) /\ FlattenSeq(seqs) = f[Len(seqs)]
    BY <1>2, <2>1, FlattenDef
  <2>3. \A i \in 1..Len(seqs) : f[i] = IF i = 1 THEN seqs[i] ELSE f[i - 1] \o seqs[i]
    BY <2>2 DEF IsFlat
  <2> DEFINE Good(n) == f[n] \in Seq(S) /\ \E start : Places(start, seqs, n, f[n])
  <2>4. \A n \in 1..Len(seqs) : Good(n)
    <3> SUFFICES ASSUME NEW T, T = {n \in 1..Len(seqs) : ~Good(n)}, T # {} PROVE FALSE
      OBVIOUS
    <3>1. PICK n \in T : \A k \in T : ~(k < n)
      <4>1. T \subseteq Nat
        BY <2>1
      <4> QED
        BY <4>1, NatMin
    <3>2. n \in 1..Len(seqs) /\ n \in Nat /\ seqs[n] \in Seq(S)
      BY <2>1
    <3>3. CASE n = 1
      <4>1. f[1] = seqs[1]
        BY <2>3, <3>2, <3>3
      <4>2. <<>> \in Seq(S) /\ <<>> \o seqs[1] = seqs[1] /\ 0 + 1 \in 1..Len(seqs)
        BY <3>2, <3>3, ConcatEmptySeq
      <4>3. Places([i \in 1..1 |-> 0], seqs, 0, <<>>)
        BY DEF Places
      <4>4. \E start : Places(start, seqs, 0 + 1, <<>> \o seqs[0 + 1])
        BY <4>2, <4>3, NextPlace
      <4> QED
        BY <3>1, <3>2, <3>3, <4>1, <4>2, <4>4
    <3>4. CASE n # 1
      <4>1. n - 1 \in Nat /\ n - 1 \in 1..Len(seqs) /\ n - 1 < n /\ (n - 1) + 1 = n
        BY <3>2, <3>4
      <4>2. Good(n - 1)
        BY <3>1, <4>1
      <4>3. f[n] = f[n - 1] \o seqs[n] /\ f[n] \in Seq(S)
        <5>1. f[n] = f[n - 1] \o seqs[n] /\ f[n - 1] \in Seq(S)
          BY <2>3, <3>2, <3>4, <4>2
        <5> HIDE DEF Good
        <5> QED
          BY <3>2, <5>1, ConcatProperties
      <4>4. \E start : Places(start, seqs, (n - 1) + 1, f[n - 1] \o seqs[(n - 1) + 1])
        BY <3>2, <4>1, <4>2, NextPlace
      <4> QED
        BY <3>1, <4>1, <4>3, <4>4
    <3> QED
      BY <3>3, <3>4
  <2> QED
    BY <1>2, <2>1, <2>2, <2>4
<1> QED
  BY <1>1, <1>2
=============================================================================
