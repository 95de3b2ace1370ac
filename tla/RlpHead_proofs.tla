--------------------------- MODULE RlpHead_proofs ---------------------------
(***************************************************************************)
(* Facts about sizes, integers and headers in RLP, for every integer and   *)
(* every content, and about the sequences that they are made of.           *)
(***************************************************************************)
EXTENDS RlpHead, SequenceTheorems, WellFoundedInduction, TLAPS

-----------------------------------------------------------------------------
(* Induction over sets of numbers.                                         *)

LEMMA LeastIn ==
  ASSUME NEW T, T \subseteq Nat, T # {}
  PROVE  \E n \in T : \A m \in T : n <= m
<1>1. PICK n \in T : \A m \in T : <<m, n>> \notin OpToRel(<, Nat)
  BY NatLessThanWellFounded, WFMin
<1>2. ASSUME NEW m \in T PROVE n <= m
  <2>1. m \in Nat /\ n \in Nat
    BY <1>2
  <2>2. CASE m < n
    <3>1. <<m, n>> \in OpToRel(<, Nat)
      BY <2>1, <2>2 DEF OpToRel
    <3> QED
      BY <1>1, <3>1
  <2> QED
    BY <2>1, <2>2
<1> QED
  BY <1>2

LEMMA SetInduction ==
  ASSUME NEW A, \A n \in Nat : (\A m \in 0..(n - 1) : m \in A) => n \in A
  PROVE  Nat \subseteq A
<1> DEFINE T == {n \in Nat : n \notin A}
<1> SUFFICES ASSUME T # {} PROVE FALSE
  OBVIOUS
<1>1. PICK n \in T : \A m \in T : n <= m
  <2>1. T \subseteq Nat
    OBVIOUS
  <2> HIDE DEF T
  <2> QED
    BY <2>1, LeastIn
<1>2. ASSUME NEW m \in 0..(n - 1) PROVE m \in A
  <2>1. m \in Nat /\ ~(n <= m)
    BY <1>1
  <2> QED
    BY <1>1, <2>1
<1> QED
  BY <1>1, <1>2

-----------------------------------------------------------------------------
(* Functions of an integer i outside stop that recurse on a smaller one,    *)
(* smaller[i]: g is one, for the integers up to m.                         *)

Recursive(base, step, stop, smaller, m, g) ==
  g = [i \in 0..m |-> IF i \in stop THEN base[i] ELSE step[i][g[smaller[i]]]]

Down(stop, smaller) == \A i \in Nat : i \notin stop => smaller[i] \in 0..(i - 1)

LEMMA Quotient ==
  ASSUME NEW i \in Nat, i >= 256
  PROVE  i \div 256 \in 0..(i - 1) /\ i \div 256 \in Nat
OBVIOUS

LEMMA RecursiveAgree ==
  ASSUME NEW base, NEW step, NEW stop, NEW smaller, Down(stop, smaller), NEW m \in Nat, NEW n \in Nat, NEW g, NEW h,
         Recursive(base, step, stop, smaller, m, g), Recursive(base, step, stop, smaller, n, h)
  PROVE  \A i \in Nat : i <= m /\ i <= n => g[i] = h[i]
<1> DEFINE A == {i \in Nat : i <= m /\ i <= n => g[i] = h[i]}
<1>1. ASSUME NEW i \in Nat, \A j \in 0..(i - 1) : j \in A PROVE i \in A
  <2> SUFFICES ASSUME i <= m, i <= n PROVE g[i] = h[i]
    OBVIOUS
  <2>1. /\ g[i] = IF i \in stop THEN base[i] ELSE step[i][g[smaller[i]]]
        /\ h[i] = IF i \in stop THEN base[i] ELSE step[i][h[smaller[i]]]
    <3>1. i \in 0..m /\ i \in 0..n
      OBVIOUS
    <3> QED
      BY <3>1 DEF Recursive
  <2>2. CASE i \notin stop
    <3>1. PICK j \in 0..(i - 1) : j = smaller[i]
      BY <2>2 DEF Down
    <3>2. j \in Nat /\ j <= m /\ j <= n
      OBVIOUS
    <3>3. g[j] = h[j]
      BY <1>1, <3>2
    <3> QED
      BY <2>1, <3>1, <3>3
  <2> QED
    BY <2>1, <2>2
<1>2. Nat \subseteq A
  <2> HIDE DEF A
  <2> QED
    BY <1>1, SetInduction
<1> QED
  BY <1>2

LEMMA RecursiveExist ==
  ASSUME NEW base, NEW step, NEW stop, NEW smaller, Down(stop, smaller), NEW m \in Nat
  PROVE  \E g : Recursive(base, step, stop, smaller, m, g)
<1> DEFINE A == {n \in Nat : \E g : Recursive(base, step, stop, smaller, n, g)}
<1>1. ASSUME NEW n \in Nat, \A j \in 0..(n - 1) : j \in A PROVE n \in A
  <2>1. CASE n = 0
    <3>1. 0 \in stop
      BY DEF Down
    <3>2. Recursive(base, step, stop, smaller, 0, [i \in 0..0 |-> base[i]])
      BY <3>1 DEF Recursive
    <3> QED
      BY <2>1, <3>2
  <2>2. CASE n # 0
    <3>1. n - 1 \in Nat /\ n - 1 \in 0..(n - 1)
      BY <2>2
    <3>2. PICK h : Recursive(base, step, stop, smaller, n - 1, h)
      BY <1>1, <3>1
    <3> DEFINE g == [i \in 0..n |-> IF i < n THEN h[i]
                                    ELSE IF i \in stop THEN base[i] ELSE step[i][h[smaller[i]]]]
    <3>3. ASSUME NEW i \in 0..n
          PROVE  g[i] = IF i \in stop THEN base[i] ELSE step[i][g[smaller[i]]]
      <4>1. i \notin stop => smaller[i] \in 0..(i - 1)
        BY DEF Down
      <4>2. i \notin stop => g[smaller[i]] = h[smaller[i]]
        <5>1. \A j \in 0..(i - 1) : g[j] = h[j]
          OBVIOUS
        <5> QED
          BY <4>1, <5>1
      <4>3. CASE i < n
        <5>1. i \in 0..(n - 1)
          BY <4>3
        <5>2. h[i] = IF i \in stop THEN base[i] ELSE step[i][h[smaller[i]]]
          BY <3>2, <5>1 DEF Recursive
        <5> QED
          BY <4>2, <4>3, <5>2
      <4>4. CASE ~(i < n)
        BY <4>2, <4>4
      <4> QED
        BY <4>3, <4>4
    <3>4. g = [i \in 0..n |-> IF i \in stop THEN base[i] ELSE step[i][g[smaller[i]]]]
      BY <3>3
    <3> HIDE DEF g
    <3> QED
      BY <3>4 DEF Recursive
  <2> QED
    BY <2>1, <2>2
<1>2. Nat \subseteq A
  <2> HIDE DEF A
  <2> QED
    BY <1>1, SetInduction
<1> QED
  BY <1>2

LEMMA Diagonal == ASSUME NEW p PROVE \E g : g = [i \in Nat |-> p[i][i]] /\ g = [i \in Nat |-> g[i]]
OBVIOUS

RecursiveAll(base, step, stop, smaller, g) ==
  /\ g = [i \in Nat |-> g[i]]
  /\ \A i \in Nat : g[i] = IF i \in stop THEN base[i] ELSE step[i][g[smaller[i]]]

LEMMA RecursiveOnNat ==
  ASSUME NEW base, NEW step, NEW stop, NEW smaller, Down(stop, smaller)
  PROVE  \E g : RecursiveAll(base, step, stop, smaller, g)
<1> DEFINE p == [i \in Nat |-> CHOOSE g : Recursive(base, step, stop, smaller, i, g)]
<1>1. \A i \in Nat : Recursive(base, step, stop, smaller, i, p[i])
  BY RecursiveExist
<1> HIDE DEF p
<1>2. PICK G : G = [i \in Nat |-> p[i][i]] /\ G = [i \in Nat |-> G[i]]
  BY Diagonal
<1>3. ASSUME NEW i \in Nat PROVE G[i] = IF i \in stop THEN base[i] ELSE step[i][G[smaller[i]]]
  <2>1. Recursive(base, step, stop, smaller, i, p[i]) /\ G[i] = p[i][i]
    BY <1>1, <1>2
  <2>2. p[i][i] = IF i \in stop THEN base[i] ELSE step[i][p[i][smaller[i]]]
    <3>1. PICK g : g = p[i]
      OBVIOUS
    <3>2. Recursive(base, step, stop, smaller, i, g) /\ i \in 0..i
      BY <2>1, <3>1
    <3>3. g[i] = IF i \in stop THEN base[i] ELSE step[i][g[smaller[i]]]
      BY <3>2 DEF Recursive
    <3> QED
      BY <3>1, <3>3
  <2>3. CASE i \notin stop
    <3>1. PICK j \in Nat : j = smaller[i] /\ j <= i
      <4>1. smaller[i] \in 0..(i - 1)
        BY <2>3 DEF Down
      <4> QED
        BY <4>1
    <3>2. Recursive(base, step, stop, smaller, j, p[j]) /\ G[j] = p[j][j]
      BY <1>1, <1>2
    <3>3. p[i][j] = p[j][j]
      BY <2>1, <3>1, <3>2, RecursiveAgree
    <3> QED
      BY <2>1, <2>2, <2>3, <3>1, <3>2, <3>3
  <2> QED
    BY <2>1, <2>2, <2>3
<1> QED
  BY <1>2, <1>3 DEF RecursiveAll

-----------------------------------------------------------------------------
(* The number of bytes of an integer.                                      *)

LEMMA IntsizeUnfolds ==
  ASSUME NEW n \in Nat
  PROVE  intsize[n] = IF n < 256 THEN 1 ELSE 1 + intsize[n \div 256]
<1> DEFINE E(g) == g = [i \in Nat |-> IF i < 256 THEN 1 ELSE 1 + g[i \div 256]]
           base == [i \in Nat |-> 1]
           stop == 0..255
           smaller == [i \in Nat |-> i \div 256]
           step == [i \in Nat |-> [k \in Nat |-> 1 + k]]
<1>1. PICK G : /\ G = [i \in Nat |-> G[i]]
               /\ \A i \in Nat : G[i] = IF i < 256 THEN base[i] ELSE step[i][G[i \div 256]]
  <2>1. Down(stop, smaller)
    BY Quotient DEF Down
  <2>2. PICK g : RecursiveAll(base, step, stop, smaller, g)
    <3> HIDE DEF base, step, stop, smaller
    <3> QED
      BY <2>1, RecursiveOnNat
  <2>3. \A i \in Nat : (i \in stop <=> i < 256) /\ smaller[i] = i \div 256
    OBVIOUS
  <2> HIDE DEF base, step, stop, smaller
  <2> QED
    BY <2>2, <2>3 DEF RecursiveAll
<1>2. \A i \in Nat : G[i] \in Nat
  <2> DEFINE A == {i \in Nat : G[i] \in Nat}
  <2>1. ASSUME NEW i \in Nat, \A j \in 0..(i - 1) : j \in A PROVE i \in A
    <3>1. G[i] = IF i < 256 THEN base[i] ELSE step[i][G[i \div 256]]
      BY <1>1
    <3>2. i >= 256 => G[i \div 256] \in Nat
      BY <2>1, Quotient
    <3>3. \A k \in Nat : step[i][k] \in Nat
      OBVIOUS
    <3>4. base[i] \in Nat
      OBVIOUS
    <3> HIDE DEF base, step
    <3> QED
      BY <3>1, <3>2, <3>3, <3>4
  <2> HIDE DEF A
  <2>2. Nat \subseteq A
    BY <2>1, SetInduction
  <2> QED
    BY <2>2 DEF A
<1>3. E(G)
  <2>1. ASSUME NEW i \in Nat PROVE G[i] = IF i < 256 THEN 1 ELSE 1 + G[i \div 256]
    <3>1. G[i] = IF i < 256 THEN base[i] ELSE step[i][G[i \div 256]]
      BY <1>1
    <3>2. i >= 256 => G[i \div 256] \in Nat
      BY <1>2, Quotient
    <3>3. \A k \in Nat : step[i][k] = 1 + k
      OBVIOUS
    <3>4. base[i] = 1
      OBVIOUS
    <3> HIDE DEF base, step
    <3> QED
      BY <3>1, <3>2, <3>3, <3>4
  <2>2. G = [i \in Nat |-> G[i]]
    BY <1>1
  <2> QED
    BY <2>1, <2>2
<1>4. intsize = CHOOSE g : E(g)
  BY DEF intsize
<1>5. E(intsize)
  <2> HIDE DEF E
  <2> QED
    BY <1>3, <1>4
<1> QED
  BY <1>5

LEMMA IntsizeType == ASSUME NEW n \in Nat PROVE intsize[n] \in Nat \ {0}
<1> DEFINE A == {i \in Nat : intsize[i] \in Nat \ {0}}
<1>1. ASSUME NEW i \in Nat, \A j \in 0..(i - 1) : j \in A PROVE i \in A
  <2>1. intsize[i] = IF i < 256 THEN 1 ELSE 1 + intsize[i \div 256]
    BY IntsizeUnfolds
  <2>2. i >= 256 => intsize[i \div 256] \in Nat \ {0}
    BY <1>1, Quotient
  <2> QED
    BY <2>1, <2>2
<1>2. Nat \subseteq A
  <2> HIDE DEF A
  <2> QED
    BY <1>1, SetInduction
<1> QED
  BY <1>2

-----------------------------------------------------------------------------
(* Sequences.                                                              *)

LEMMA SubType ==
  ASSUME NEW S, NEW s \in Seq(S), NEW m \in Nat \ {0}, NEW n \in Nat, n <= Len(s)
  PROVE  SubSeq(s, m, n) \in Seq(S) /\ Len(SubSeq(s, m, n)) = IF m <= n THEN n - m + 1 ELSE 0
<1>1. \A i \in m..n : s[i] \in S
  BY ElementOfSeq
<1> QED
  BY <1>1, SubSeqProperties

(* What is cut from the front of a sequence that grows.                    *)
LEMMA CutGrown ==
  ASSUME NEW S, NEW s \in Seq(S), NEW t \in Seq(S), NEW m \in Nat \ {0}, NEW n \in Nat, n <= Len(s)
  PROVE  SubSeq(s \o t, m, n) = SubSeq(s, m, n)
<1>1. CASE m <= n
  <2>1. m \in 1..Len(s) /\ n \in 1..Len(s)
    BY <1>1
  <2> QED
    BY <2>1, SubSeqOfConcat1
<1>2. CASE n < m
  BY <1>2, SubSeqEmpty
<1> QED
  BY <1>1, <1>2

(* What is cut from a place to the end of a sequence that grows.           *)
LEMMA CutToEnd ==
  ASSUME NEW S, NEW s \in Seq(S), NEW t \in Seq(S), NEW m \in 1..(Len(s) + 1)
  PROVE  SubSeq(s \o t, m, Len(s \o t)) = SubSeq(s, m, Len(s)) \o t
<1> DEFINE u == s \o t
<1>1. /\ u \in Seq(S) /\ Len(u) = Len(s) + Len(t)
      /\ \A i \in 1..(Len(s) + Len(t)) : u[i] = IF i <= Len(s) THEN s[i] ELSE t[i - Len(s)]
  BY ConcatProperties
<1>2. Len(s) \in Nat /\ Len(t) \in Nat
  OBVIOUS
<1>3. m \in 1..(Len(u) + 1) /\ Len(s) \in (m - 1)..Len(u) /\ Len(u) \in Len(s)..Len(u)
  BY <1>1, <1>2
<1>4. SubSeq(u, m, Len(s)) \o SubSeq(u, Len(s) + 1, Len(u)) = SubSeq(u, m, Len(u))
  <2> HIDE DEF u
  <2> QED
    BY <1>1, <1>3, ConcatAdjacentSubSeq
<1>5. SubSeq(u, m, Len(s)) = SubSeq(s, m, Len(s))
  BY <1>2, CutGrown
<1>6. SubSeq(u, Len(s) + 1, Len(u)) = t
  <2> DEFINE v == SubSeq(u, Len(s) + 1, Len(u))
  <2>1. v \in Seq(S) /\ Len(v) = IF Len(s) + 1 <= Len(u) THEN Len(u) - (Len(s) + 1) + 1 ELSE 0
    <3> HIDE DEF u
    <3> QED
      BY <1>1, <1>2, SubType
  <2>2. Len(v) = Len(t)
    BY <1>1, <1>2, <2>1
  <2>3. ASSUME NEW i \in 1..Len(v) PROVE v[i] = t[i]
    <3>1. v[i] = u[Len(s) + 1 + i - 1]
      <4> HIDE DEF u
      <4>1. \A j \in (Len(s) + 1)..Len(u) : u[j] \in S
        BY <1>1, <1>2, ElementOfSeq
      <4>2. \A k \in 1..(Len(u) - (Len(s) + 1) + 1) : v[k] = u[Len(s) + 1 + k - 1]
        BY <1>1, <1>2, <4>1, SubSeqProperties
      <4>3. i \in 1..(Len(u) - (Len(s) + 1) + 1)
        BY <1>1, <1>2, <2>2
      <4> QED
        BY <4>2, <4>3
    <3>2. Len(s) + 1 + i - 1 = Len(s) + i /\ Len(s) + i \in 1..(Len(s) + Len(t)) /\ ~(Len(s) + i <= Len(s))
          /\ Len(s) + i - Len(s) = i
      BY <1>2, <2>2
    <3> HIDE DEF u, v
    <3> QED
      BY <1>1, <3>1, <3>2
  <2> HIDE DEF v
  <2> QED
    BY <2>1, <2>2, <2>3, SeqEqual
<1> QED
  BY <1>4, <1>5, <1>6

-----------------------------------------------------------------------------
(* The bytes of integers and headers.                                      *)

Byte == 0..255

LEMMA PutintUnfolds ==
  ASSUME NEW n \in Nat
  PROVE  /\ putint[n] = IF n < 256 THEN <<n>> ELSE Append(putint[n \div 256], n % 256)
         /\ putint[n] \in Seq(Byte)
<1> DEFINE E(g) == g = [i \in Nat |-> IF i < 256 THEN <<i>> ELSE Append(g[i \div 256], i % 256)]
           base == [i \in Nat |-> <<i>>]
           stop == 0..255
           smaller == [i \in Nat |-> i \div 256]
           step == [i \in Nat |-> [s \in Seq(Byte) |-> Append(s, i % 256)]]
<1>1. PICK G : /\ G = [i \in Nat |-> G[i]]
               /\ \A i \in Nat : G[i] = IF i < 256 THEN base[i] ELSE step[i][G[i \div 256]]
  <2>1. Down(stop, smaller)
    BY Quotient DEF Down
  <2>2. PICK g : RecursiveAll(base, step, stop, smaller, g)
    <3> HIDE DEF base, step, stop, smaller
    <3> QED
      BY <2>1, RecursiveOnNat
  <2>3. \A i \in Nat : (i \in stop <=> i < 256) /\ smaller[i] = i \div 256
    OBVIOUS
  <2> HIDE DEF base, step, stop, smaller
  <2> QED
    BY <2>2, <2>3 DEF RecursiveAll
<1>2. \A i \in Nat : G[i] \in Seq(Byte)
  <2> DEFINE A == {i \in Nat : G[i] \in Seq(Byte)}
  <2>1. ASSUME NEW i \in Nat, \A j \in 0..(i - 1) : j \in A PROVE i \in A
    <3>1. G[i] = IF i < 256 THEN base[i] ELSE step[i][G[i \div 256]]
      BY <1>1, ZenonT(80)
    <3>2. i >= 256 => G[i \div 256] \in Seq(Byte)
      BY <2>1, Quotient
    <3>3. \A s \in Seq(Byte) : step[i][s] \in Seq(Byte)
      <4>1. i % 256 \in Byte
        BY DEF Byte
      <4> QED
        BY <4>1
    <3>4. i < 256 => base[i] \in Seq(Byte)
      BY DEF Byte
    <3> HIDE DEF base, step
    <3> QED
      BY <3>1, <3>2, <3>3, <3>4
  <2> HIDE DEF A
  <2>2. Nat \subseteq A
    BY <2>1, SetInduction
  <2> QED
    BY <2>2 DEF A
<1>3. E(G)
  <2>1. ASSUME NEW i \in Nat PROVE G[i] = IF i < 256 THEN <<i>> ELSE Append(G[i \div 256], i % 256)
    <3>1. G[i] = IF i < 256 THEN base[i] ELSE step[i][G[i \div 256]]
      BY <1>1, ZenonT(80)
    <3>2. i >= 256 => G[i \div 256] \in Seq(Byte)
      BY <1>2, Quotient
    <3>3. \A s \in Seq(Byte) : step[i][s] = Append(s, i % 256)
      OBVIOUS
    <3>4. base[i] = <<i>>
      OBVIOUS
    <3> HIDE DEF base, step
    <3>5. CASE i >= 256
      <4>1. PICK v \in Seq(Byte) : v = G[i \div 256]
        BY <3>2, <3>5
      <4>2. G[i] = step[i][v]
        BY <3>1, <3>5, <4>1
      <4>3. step[i][v] = Append(v, i % 256)
        BY <3>3
      <4> QED
        BY <3>5, <4>1, <4>2, <4>3
    <3> QED
      BY <3>1, <3>4, <3>5
  <2>2. G = [i \in Nat |-> G[i]]
    BY <1>1
  <2> HIDE DEF base, step
  <2> QED
    BY <2>1, <2>2
<1>4. \A g : E(g) => g = G
  <2> SUFFICES ASSUME NEW g, E(g) PROVE g = G
    OBVIOUS
  <2> DEFINE A == {i \in Nat : g[i] = G[i]}
  <2>1. ASSUME NEW i \in Nat, \A j \in 0..(i - 1) : j \in A PROVE i \in A
    <3>1. /\ g[i] = IF i < 256 THEN <<i>> ELSE Append(g[i \div 256], i % 256)
          /\ G[i] = IF i < 256 THEN <<i>> ELSE Append(G[i \div 256], i % 256)
      BY <1>3, ZenonT(80)
    <3>2. i >= 256 => g[i \div 256] = G[i \div 256]
      BY <2>1, Quotient
    <3> QED
      BY <3>1, <3>2
  <2>2. Nat \subseteq A
    <3> HIDE DEF A, E
    <3> QED
      BY <2>1, SetInduction
  <2>3. g = [i \in Nat |-> g[i]] /\ G = [i \in Nat |-> G[i]]
    BY <1>3
  <2> QED
    BY <2>2, <2>3
<1>5. putint = CHOOSE g : E(g)
  BY DEF putint
<1>6. E(putint) /\ putint = G
  <2> HIDE DEF E
  <2> QED
    BY <1>3, <1>4, <1>5
<1> QED
  BY <1>2, <1>6

LEMMA PutintStep ==
  ASSUME NEW n \in Nat, n >= 256
  PROVE  putint[n] = Append(putint[n \div 256], n % 256)
<1>1. putint[n] = IF n < 256 THEN <<n>> ELSE Append(putint[n \div 256], n % 256)
  BY PutintUnfolds
<1>2. ~(n < 256)
  OBVIOUS
<1> QED
  BY <1>1, <1>2, Zenon

LEMMA PutintType == ASSUME NEW n \in Nat PROVE putint[n] \in Seq(Byte) /\ Len(putint[n]) = intsize[n]
<1> DEFINE A == {i \in Nat : Len(putint[i]) = intsize[i]}
<1>1. ASSUME NEW i \in Nat, \A j \in 0..(i - 1) : j \in A PROVE i \in A
  <2>1. putint[i] = IF i < 256 THEN <<i>> ELSE Append(putint[i \div 256], i % 256)
    BY PutintUnfolds
  <2>2. intsize[i] = IF i < 256 THEN 1 ELSE 1 + intsize[i \div 256]
    BY IntsizeUnfolds
  <2>3. CASE i >= 256
    <3>1. i \div 256 \in A /\ i \div 256 \in Nat
      BY <1>1, <2>3, Quotient
    <3>2. PICK s \in Seq(Byte) : s = putint[i \div 256]
      BY <3>1, PutintUnfolds, ZenonT(80)
    <3>3. Len(Append(s, i % 256)) = Len(s) + 1 /\ Len(s) \in Nat
      OBVIOUS
    <3>4. Len(putint[i]) = Len(s) + 1 /\ Len(s) = intsize[i \div 256]
      BY <2>1, <2>3, <3>1, <3>2, <3>3
    <3> QED
      BY <2>2, <2>3, <3>3, <3>4
  <2>4. CASE i < 256
    <3>1. Len(<<i>>) = 1
      OBVIOUS
    <3> QED
      BY <2>1, <2>2, <2>4, <3>1
  <2> QED
    BY <2>3, <2>4
<1>2. Nat \subseteq A
  <2> HIDE DEF A
  <2> QED
    BY <1>1, SetInduction
<1> QED
  BY <1>2, PutintUnfolds

(* A header is as long as headsize says, and never empty.                  *)
LEMMA PutheadType ==
  ASSUME NEW a \in Int, NEW b \in Int, NEW n \in Nat
  PROVE  /\ puthead(a, b, n) \in Seq(Int)
         /\ Len(puthead(a, b, n)) = headsize(n)
         /\ headsize(n) \in Nat \ {0}
<1>1. intsize[n] \in Nat \ {0}
  BY IntsizeType
<1>2. CASE n < 56
  <2>1. <<a + n>> \in Seq(Int) /\ Len(<<a + n>>) = 1
    OBVIOUS
  <2> QED
    BY <1>2, <2>1 DEF puthead, headsize
<1>3. CASE ~(n < 56)
  <2>1. <<b + intsize[n]>> \in Seq(Int) /\ Len(<<b + intsize[n]>>) = 1
    BY <1>1
  <2>2. putint[n] \in Seq(Int) /\ Len(putint[n]) = intsize[n]
    <3>1. Byte \subseteq Int
      BY DEF Byte
    <3> QED
      BY <3>1, PutintType, SeqMonotonic
  <2>3. /\ <<b + intsize[n]>> \o putint[n] \in Seq(Int)
        /\ Len(<<b + intsize[n]>> \o putint[n]) = 1 + intsize[n]
    BY <2>1, <2>2, ConcatProperties
  <2>4. puthead(a, b, n) = <<b + intsize[n]>> \o putint[n] /\ headsize(n) = 1 + intsize[n]
    BY <1>3 DEF puthead, headsize
  <2> QED
    BY <1>1, <2>3, <2>4
<1> QED
  BY <1>2, <1>3

-----------------------------------------------------------------------------
(* BigEndian is the inverse of putint, for integers of up to eight bytes.  *)

(* The byte of b that counts 256^(k - 1).                                  *)
ByteAt(b, k) == IF k <= Len(b) THEN b[Len(b) + 1 - k] ELSE 0

LEMMA BigEndianIs ==
  ASSUME NEW b
  PROVE  BigEndian(b) =
           ByteAt(b, 1) + 256 * (ByteAt(b, 2) + 256 * (ByteAt(b, 3) + 256 * (ByteAt(b, 4)
             + 256 * (ByteAt(b, 5) + 256 * (ByteAt(b, 6) + 256 * (ByteAt(b, 7) + 256 * ByteAt(b, 8)))))))
BY DEF BigEndian, ByteAt

LEMMA ByteAtType == ASSUME NEW b \in Seq(Byte), NEW k \in 1..8 PROVE ByteAt(b, k) \in Byte
<1>1. CASE k <= Len(b)
  <2>1. Len(b) + 1 - k \in 1..Len(b)
    BY <1>1
  <2>2. b[Len(b) + 1 - k] \in Byte
    BY <2>1, ElementOfSeq
  <2> QED
    BY <1>1, <2>2 DEF ByteAt
<1>2. CASE ~(k <= Len(b))
  BY <1>2 DEF ByteAt, Byte
<1> QED
  BY <1>1, <1>2

LEMMA BytesAre ==
  ASSUME NEW b \in Seq(Byte)
  PROVE  /\ ByteAt(b, 1) \in Nat /\ ByteAt(b, 2) \in Nat /\ ByteAt(b, 3) \in Nat /\ ByteAt(b, 4) \in Nat
         /\ ByteAt(b, 5) \in Nat /\ ByteAt(b, 6) \in Nat /\ ByteAt(b, 7) \in Nat /\ ByteAt(b, 8) \in Nat
<1>1. \A k \in 1..8 : ByteAt(b, k) \in Byte
  BY ByteAtType
<1>2. \A k \in 1..8 : ByteAt(b, k) \in Nat
  <2>1. Byte \subseteq Nat
    BY DEF Byte
  <2> QED
    BY <1>1, <2>1
<1> QED
  BY <1>2

LEMMA BigEndianType == ASSUME NEW b \in Seq(Byte) PROVE BigEndian(b) \in Nat
<1>1. /\ ByteAt(b, 1) \in Nat /\ ByteAt(b, 2) \in Nat /\ ByteAt(b, 3) \in Nat /\ ByteAt(b, 4) \in Nat
      /\ ByteAt(b, 5) \in Nat /\ ByteAt(b, 6) \in Nat /\ ByteAt(b, 7) \in Nat /\ ByteAt(b, 8) \in Nat
  BY BytesAre
<1>2. \A x, y \in Nat : x + 256 * y \in Nat
  OBVIOUS
<1>3. PICK s7 \in Nat : s7 = ByteAt(b, 7) + 256 * ByteAt(b, 8)
  BY <1>1, <1>2
<1>4. PICK s6 \in Nat : s6 = ByteAt(b, 6) + 256 * s7
  BY <1>1, <1>2
<1>5. PICK s5 \in Nat : s5 = ByteAt(b, 5) + 256 * s6
  BY <1>1, <1>2
<1>6. PICK s4 \in Nat : s4 = ByteAt(b, 4) + 256 * s5
  BY <1>1, <1>2
<1>7. PICK s3 \in Nat : s3 = ByteAt(b, 3) + 256 * s4
  BY <1>1, <1>2
<1>8. PICK s2 \in Nat : s2 = ByteAt(b, 2) + 256 * s3
  BY <1>1, <1>2
<1>9. BigEndian(b) = ByteAt(b, 1) + 256 * s2
  BY <1>3, <1>4, <1>5, <1>6, <1>7, <1>8, BigEndianIs, SMTT(60)
<1> QED
  BY <1>1, <1>2, <1>9, SMTT(80)

LEMMA AppendElements ==
  ASSUME NEW S, NEW b \in Seq(S), NEW x \in S
  PROVE  /\ Append(b, x) \in Seq(S) /\ Len(Append(b, x)) = Len(b) + 1
         /\ Append(b, x)[Len(b) + 1] = x
         /\ \A k \in 1..Len(b) : Append(b, x)[k] = b[k]
OBVIOUS

LEMMA BigEndianAppend ==
  ASSUME NEW b \in Seq(Byte), Len(b) <= 7, NEW x \in Byte
  PROVE  BigEndian(Append(b, x)) = x + 256 * BigEndian(b)
<1>1. PICK c \in Seq(Byte) : c = Append(b, x)
  BY AppendElements
<1>2. Len(c) = Len(b) + 1 /\ c[Len(b) + 1] = x /\ \A k \in 1..Len(b) : c[k] = b[k]
  BY <1>1, AppendElements
<1>3. ByteAt(c, 1) = x
  BY <1>2 DEF ByteAt
<1>4. ASSUME NEW k \in 1..7 PROVE ByteAt(c, k + 1) = ByteAt(b, k)
  <2>1. k <= Len(b) => Len(b) + 1 - k \in 1..Len(b)
    OBVIOUS
  <2>2. Len(c) + 1 - (k + 1) = Len(b) + 1 - k /\ (k + 1 <= Len(c) <=> k <= Len(b))
    BY <1>2
  <2> QED
    BY <1>2, <2>1, <2>2 DEF ByteAt
<1>5. /\ ByteAt(c, 2) = ByteAt(b, 1) /\ ByteAt(c, 3) = ByteAt(b, 2) /\ ByteAt(c, 4) = ByteAt(b, 3)
      /\ ByteAt(c, 5) = ByteAt(b, 4) /\ ByteAt(c, 6) = ByteAt(b, 5) /\ ByteAt(c, 7) = ByteAt(b, 6)
      /\ ByteAt(c, 8) = ByteAt(b, 7)
  <2>1. \A k \in 1..7 : \A m : m = k + 1 => ByteAt(c, m) = ByteAt(b, k)
    BY <1>4
  <2> QED
    BY <2>1
<1>6. ByteAt(b, 8) = 0
  BY DEF ByteAt
<1>7. x \in Nat
  BY DEF Byte
<1>8. BigEndian(c) =
        x + 256 * (ByteAt(b, 1) + 256 * (ByteAt(b, 2) + 256 * (ByteAt(b, 3) + 256 * (ByteAt(b, 4)
          + 256 * (ByteAt(b, 5) + 256 * (ByteAt(b, 6) + 256 * ByteAt(b, 7)))))))
  BY <1>3, <1>5, BigEndianIs
<1> QED
  BY <1>1, <1>6, <1>7, <1>8, BytesAre, BigEndianIs

LEMMA BigEndianOfOne == ASSUME NEW x \in Nat PROVE BigEndian(<<x>>) = x
<1>1. ByteAt(<<x>>, 1) = x /\ \A k \in 2..8 : ByteAt(<<x>>, k) = 0
  BY DEF ByteAt
<1> QED
  BY <1>1, BigEndianIs

(* What putint writes is read again as the same integer.                   *)
LEMMA PutintValue ==
  ASSUME NEW x \in Nat, intsize[x] <= 8
  PROVE  BigEndian(putint[x]) = x
<1> DEFINE A == {i \in Nat : intsize[i] <= 8 => BigEndian(putint[i]) = i}
<1>1. ASSUME NEW i \in Nat, \A j \in 0..(i - 1) : j \in A PROVE i \in A
  <2> SUFFICES ASSUME intsize[i] <= 8 PROVE BigEndian(putint[i]) = i
    OBVIOUS
  <2>1. CASE i < 256
    BY <2>1, PutintUnfolds, BigEndianOfOne
  <2>2. CASE i >= 256
    <3>1. PICK q \in Nat : q = i \div 256
      BY <2>2, Quotient
    <3>2. q \in A
      BY <1>1, <2>2, <3>1, Quotient
    <3>3. intsize[i] = 1 + intsize[q] /\ intsize[q] \in Nat
      BY <2>2, <3>1, IntsizeUnfolds, IntsizeType
    <3>4. PICK s \in Seq(Byte) : s = putint[q] /\ Len(s) = intsize[q]
      BY PutintType
    <3>5. PICK r \in Byte : r = i % 256
      BY DEF Byte
    <3>6. putint[i] = Append(s, r)
      <4>1. putint[i] = Append(putint[i \div 256], i % 256)
        BY <2>2, PutintStep
      <4> QED
        BY <3>1, <3>4, <3>5, <4>1
    <3>7. BigEndian(s) = q
      BY <3>2, <3>3, <3>4
    <3>8. BigEndian(putint[i]) = r + 256 * q
      BY <3>3, <3>4, <3>6, <3>7, BigEndianAppend
    <3> QED
      BY <3>1, <3>5, <3>8
  <2> QED
    BY <2>1, <2>2
<1>2. Nat \subseteq A
  <2> HIDE DEF A
  <2> QED
    BY <1>1, SetInduction
<1> QED
  BY <1>2

(* putint writes no leading zeros.                                         *)
LEMMA PutintFirst == ASSUME NEW x \in Nat \ {0} PROVE putint[x][1] \in 1..255
<1> DEFINE A == {i \in Nat : i # 0 => putint[i][1] \in 1..255}
<1>1. ASSUME NEW i \in Nat, \A j \in 0..(i - 1) : j \in A PROVE i \in A
  <2>1. CASE i < 256
    <3>1. putint[i] = <<i>>
      BY <2>1, PutintUnfolds
    <3>2. <<i>>[1] = i
      OBVIOUS
    <3> QED
      BY <2>1, <3>1, <3>2
  <2>2. CASE i >= 256
    <3>1. PICK q \in Nat : q = i \div 256
      BY <2>2, Quotient
    <3>2. q \in A /\ q # 0
      BY <1>1, <2>2, <3>1, Quotient
    <3>3. PICK s \in Seq(Byte) : s = putint[q] /\ Len(s) >= 1
      BY PutintType, IntsizeType
    <3>4. putint[i] = Append(s, i % 256)
      <4>1. putint[i] = Append(putint[i \div 256], i % 256)
        BY <2>2, PutintStep
      <4> QED
        BY <3>1, <3>3, <4>1
    <3>5. i % 256 \in Byte
      BY DEF Byte
    <3>6. Append(s, i % 256)[1] = s[1]
      BY <3>3, <3>5, AppendElements
    <3> QED
      BY <3>2, <3>3, <3>4, <3>6
  <2> QED
    BY <2>1, <2>2
<1>2. Nat \subseteq A
  <2> HIDE DEF A
  <2> QED
    BY <1>1, SetInduction
<1> QED
  BY <1>2

LEMMA FrontAndLast ==
  ASSUME NEW S, NEW b \in Seq(S), Len(b) > 1
  PROVE  \E f \in Seq(S), x \in S : b = Append(f, x) /\ Len(f) = Len(b) - 1 /\ f[1] = b[1]
<1>1. PICK m \in Nat : m = Len(b) - 1 /\ m >= 1
  OBVIOUS
<1>2. PICK f \in Seq(S) : f = SubSeq(b, 1, m) /\ Len(f) = m
  <2>1. PICK k \in Nat \ {0} : k = 1
    OBVIOUS
  <2>2. SubSeq(b, k, m) \in Seq(S) /\ Len(SubSeq(b, k, m)) = IF k <= m THEN m - k + 1 ELSE 0
    BY <1>1, SubType
  <2>3. SubSeq(b, 1, m) \in Seq(S) /\ Len(SubSeq(b, 1, m)) = m
    BY <1>1, <2>1, <2>2
  <2> QED
    BY <2>3
<1>3. \A k \in 1..m : f[k] = b[k]
  <2>1. \A k \in 1..m : b[k] \in S
    BY <1>1, ElementOfSeq
  <2> QED
    BY <1>1, <1>2
<1>4. PICK x \in S : x = b[Len(b)]
  <2>1. Len(b) \in 1..Len(b)
    BY <1>1
  <2> QED
    BY <2>1, ElementOfSeq
<1>5. PICK c \in Seq(S) : c = Append(f, x)
  BY AppendElements
<1>6. Len(c) = m + 1 /\ c[m + 1] = x /\ \A k \in 1..m : c[k] = f[k]
  BY <1>2, <1>5, AppendElements
<1>7. Len(c) = Len(b) /\ \A k \in 1..Len(c) : c[k] = b[k]
  <2>1. ASSUME NEW k \in 1..Len(c) PROVE c[k] = b[k]
    <3>1. CASE k = m + 1
      BY <1>1, <1>4, <1>6, <3>1
    <3>2. CASE k # m + 1
      <4>1. k \in 1..m
        BY <1>6, <3>2
      <4> QED
        BY <1>3, <1>6, <4>1
    <3> QED
      BY <3>1, <3>2
  <2> QED
    BY <1>1, <1>6, <2>1
<1>8. c = b
  BY <1>7, SeqEqual
<1> QED
  BY <1>1, <1>2, <1>3, <1>5, <1>8

(* Bytes without leading zeros are what putint writes of the integer that  *)
(* they are.                                                               *)
LEMMA PutintOfBigEndian ==
  ASSUME NEW c \in Seq(Byte), Len(c) \in 1..8, c[1] # 0
  PROVE  BigEndian(c) \in Nat \ {0} /\ putint[BigEndian(c)] = c
<1> DEFINE P(b) == BigEndian(b) \in Nat \ {0} /\ putint[BigEndian(b)] = b
           A == {l \in Nat : l \in 1..8 => \A b \in Seq(Byte) : Len(b) = l /\ b[1] # 0 => P(b)}
<1>1. ASSUME NEW l \in Nat, \A j \in 0..(l - 1) : j \in A PROVE l \in A
  <2> SUFFICES ASSUME l \in 1..8, NEW b \in Seq(Byte), Len(b) = l, b[1] # 0 PROVE P(b)
    OBVIOUS
  <2>1. CASE l = 1
    <3>1. PICK x \in Byte : x = b[1] /\ x # 0
      <4>1. 1 \in 1..Len(b)
        BY <2>1
      <4> QED
        BY <4>1, ElementOfSeq
    <3>2. b = <<x>>
      BY <2>1, <3>1
    <3>3. x \in Nat /\ x < 256
      BY DEF Byte
    <3>4. BigEndian(b) = x /\ putint[x] = <<x>>
      BY <3>2, <3>3, BigEndianOfOne, PutintUnfolds
    <3> QED
      BY <3>1, <3>2, <3>3, <3>4
  <2>2. CASE l # 1
    <3>1. PICK f \in Seq(Byte) : \E x \in Byte : b = Append(f, x) /\ Len(f) = Len(b) - 1 /\ f[1] = b[1]
      BY <2>2, FrontAndLast
    <3>2. PICK x \in Byte : b = Append(f, x) /\ Len(f) = Len(b) - 1 /\ f[1] = b[1]
      BY <3>1
    <3>3. l - 1 \in A /\ l - 1 \in 1..8
      BY <1>1, <2>2
    <3>4. BigEndian(f) \in Nat \ {0} /\ putint[BigEndian(f)] = f
      BY <3>2, <3>3
    <3>5. PICK q \in Nat \ {0} : q = BigEndian(f)
      BY <3>4
    <3>6. BigEndian(b) = x + 256 * q
      BY <3>2, <3>5, BigEndianAppend
    <3>7. PICK i \in Nat : i = x + 256 * q /\ i >= 256 /\ i \div 256 = q /\ i % 256 = x
      BY DEF Byte
    <3>8. putint[i] = Append(putint[q], x)
      <4>1. putint[i] = Append(putint[i \div 256], i % 256)
        BY <3>7, PutintStep, ZenonT(80)
      <4> QED
        BY <3>7, <4>1, SMTT(80)
    <3> QED
      BY <3>2, <3>4, <3>5, <3>6, <3>7, <3>8
  <2> QED
    BY <2>1, <2>2
<1>2. Nat \subseteq A
  <2> HIDE DEF A
  <2> QED
    BY <1>1, SetInduction
<1>3. \A b \in Seq(Byte) : Len(b) = Len(c) /\ b[1] # 0 => P(b)
  <2>1. Len(c) \in A
    <3> HIDE DEF A
    <3> QED
      BY <1>2
  <2> HIDE DEF P
  <2> QED
    BY <2>1
<1> QED
  BY <1>3
=============================================================================
