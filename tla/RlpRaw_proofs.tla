--------------------------- MODULE RlpRaw_proofs ----------------------------
(***************************************************************************)
(* Proofs that there is one encoding of each value, that the functions of  *)
(* src/rlp/raw.go take apart what the encoder puts together, and that a    *)
(* client of the list iterator gets all the values of a list, for all      *)
(* bytes and all integers.                                                 *)
(***************************************************************************)
EXTENDS RlpRawClient, RlpHead_proofs

-----------------------------------------------------------------------------
(* Cases of readKind.                                                      *)

(* Behind a tag and its size: a value of size cs.                          *)
Sized(b, k, ts, cs) ==
  IF cs > Len(b) - ts THEN KindError("ErrValueTooLarge")
  ELSE [k |-> k, tagsize |-> ts, contentsize |-> cs, err |-> Nil]

LongSized(b, k, slen) ==
  LET s == readSize(Tail(b), slen)
  IN  IF s.err # Nil THEN KindError(s.err) ELSE Sized(b, k, slen + 1, s.size)

SmallString(b) == b[1] = 129 /\ Len(b) > 1 /\ b[2] < 128

LEMMA KindOfByte ==
  ASSUME NEW b, b # <<>>, b[1] < 128
  PROVE  readKind(b) = Sized(b, "byte", 0, 1)
BY DEF readKind, Sized, KindError, Nil

LEMMA KindOfSmallString ==
  ASSUME NEW b, b # <<>>, ~(b[1] < 128), SmallString(b)
  PROVE  readKind(b) = KindError("ErrCanonSize")
BY DEF readKind, SmallString

LEMMA KindOfString ==
  ASSUME NEW b, b # <<>>, ~(b[1] < 128), ~SmallString(b), b[1] < 184
  PROVE  readKind(b) = Sized(b, "string", 1, b[1] - 128)
BY DEF readKind, Sized, SmallString, KindError, Nil

LEMMA KindOfLongString ==
  ASSUME NEW b, b # <<>>, b[1] \in 184..191
  PROVE  readKind(b) = LongSized(b, "string", b[1] - 183)
<1>1. ~(b[1] < 128) /\ ~(b[1] = 129) /\ ~(b[1] < 184) /\ b[1] < 192
  <2>1. \A x \in 184..191 : ~(x < 128) /\ ~(x = 129) /\ ~(x < 184) /\ x < 192
    OBVIOUS
  <2> QED
    BY <2>1
<1> QED
  BY <1>1 DEF readKind, Sized, LongSized

LEMMA KindOfList ==
  ASSUME NEW b, b # <<>>, b[1] \in 192..247
  PROVE  readKind(b) = Sized(b, "list", 1, b[1] - 192)
<1>1. PICK x : x = b[1]
  OBVIOUS
<1>2. x \in 192..247
  BY <1>1
<1>3. ~(x < 128) /\ ~(x = 129) /\ ~(x < 184) /\ ~(x < 192) /\ x < 248
  BY <1>2
<1> QED
  BY <1>1, <1>3 DEF readKind, Sized, KindError, Nil

LEMMA KindOfLongList ==
  ASSUME NEW b, b # <<>>, b[1] \in 248..255
  PROVE  readKind(b) = LongSized(b, "list", b[1] - 247)
<1>1. ~(b[1] < 128) /\ ~(b[1] = 129) /\ ~(b[1] < 184) /\ ~(b[1] < 192) /\ ~(b[1] < 248)
  <2>1. \A x \in 248..255 : ~(x < 128) /\ ~(x = 129) /\ ~(x < 184) /\ ~(x < 192) /\ ~(x < 248)
    OBVIOUS
  <2> QED
    BY <2>1
<1> QED
  BY <1>1 DEF readKind, Sized, LongSized

LEMMA KindOfNothing == readKind(<<>>) = KindError("ErrUnexpectedEOF")
BY DEF readKind

Errors == {"ErrUnexpectedEOF", "ErrCanonSize", "ErrValueTooLarge"}

SizeOK(s) ==
  \/ s.err = Nil /\ s.size \in Nat /\ s.size >= 56
  \/ s.err \in Errors /\ s.size = 0

LEMMA SizeType ==
  ASSUME NEW b \in Seq(Byte), NEW slen \in 1..8
  PROVE  SizeOK(readSize(b, slen))
<1>1. CASE slen > Len(b)
  BY <1>1 DEF readSize, SizeError, SizeOK, Errors
<1>2. CASE slen <= Len(b)
  <2>1. PICK m \in Nat \ {0} : m = 1
    OBVIOUS
  <2>2. SubSeq(b, m, slen) \in Seq(Byte)
    BY <1>2, SubType
  <2>3. BigEndian(SubSeq(b, 1, slen)) \in Nat
    BY <2>1, <2>2, BigEndianType
  <2>4. PICK s \in Nat : s = BigEndian(SubSeq(b, 1, slen))
    BY <2>3
  <2>5. readSize(b, slen) = IF s < 56 \/ b[1] = 0 THEN SizeError("ErrCanonSize")
                            ELSE [size |-> s, err |-> Nil]
    BY <1>2, <2>4 DEF readSize
  <2> QED
    BY <2>5 DEF SizeError, SizeOK, Errors
<1> QED
  BY <1>1, <1>2

(* What readKind says fits into the bytes and is not empty, or it fails.   *)
KindOK(b, r) ==
  \/ /\ r.err = Nil /\ r.k \in {"byte", "string", "list"}
     /\ r.tagsize \in Nat /\ r.contentsize \in Nat
     /\ r.tagsize + r.contentsize \in 1..Len(b)
  \/ r.err \in Errors /\ r.tagsize = 0 /\ r.contentsize = 0

LEMMA SizedOK ==
  ASSUME NEW b \in Seq(Byte), NEW k \in {"byte", "string", "list"}, NEW ts \in Nat, NEW cs \in Nat,
         ts + cs > 0
  PROVE  KindOK(b, Sized(b, k, ts, cs))
BY DEF KindOK, Sized, KindError, Errors, Nil

LEMMA LongSizedOK ==
  ASSUME NEW b \in Seq(Byte), b # <<>>, NEW k \in {"byte", "string", "list"}, NEW slen \in 1..8
  PROVE  KindOK(b, LongSized(b, k, slen))
<1>1. Tail(b) \in Seq(Byte)
  OBVIOUS
<1>2. PICK s : s = readSize(Tail(b), slen)
  OBVIOUS
<1>3. SizeOK(s)
  BY <1>1, <1>2, SizeType
<1>4. LongSized(b, k, slen) = IF s.err # Nil THEN KindError(s.err) ELSE Sized(b, k, slen + 1, s.size)
  BY <1>2 DEF LongSized
<1>5. CASE s.err = Nil
  <2>1. s.size \in Nat
    BY <1>3, <1>5 DEF SizeOK, Errors, Nil
  <2>2. PICK c \in Nat : c = s.size
    BY <2>1
  <2>3. PICK t \in Nat : t = slen + 1 /\ t + c > 0
    OBVIOUS
  <2>4. KindOK(b, Sized(b, k, t, c))
    BY <2>3, SizedOK
  <2> QED
    BY <1>4, <1>5, <2>2, <2>3, <2>4
<1>6. CASE s.err # Nil
  BY <1>3, <1>4, <1>6 DEF SizeOK, KindOK, KindError
<1> QED
  BY <1>5, <1>6

LEMMA KindType ==
  ASSUME NEW b \in Seq(Byte)
  PROVE  KindOK(b, readKind(b))
<1>1. CASE b = <<>>
  BY <1>1, KindOfNothing DEF KindOK, KindError, Errors
<1>2. CASE b # <<>>
  <2>1. PICK x \in Byte : x = b[1]
    BY <1>2
  <2>2. x \in 0..255
    BY DEF Byte
  <2>3. CASE x < 128
    BY <1>2, <2>1, <2>3, KindOfByte, SizedOK
  <2>4. CASE ~(x < 128) /\ SmallString(b)
    BY <1>2, <2>1, <2>4, KindOfSmallString DEF KindOK, KindError, Errors
  <2>5. CASE ~(x < 128) /\ ~SmallString(b) /\ x < 184
    <3>1. PICK c \in Nat : c = x - 128
      BY <2>2, <2>5
    <3>2. readKind(b) = Sized(b, "string", 1, c)
      BY <1>2, <2>1, <2>5, <3>1, KindOfString
    <3> QED
      BY <3>2, SizedOK
  <2>6. CASE x \in 184..191
    <3>1. PICK c \in 1..8 : c = x - 183
      BY <2>6
    <3>2. readKind(b) = LongSized(b, "string", c)
      BY <1>2, <2>1, <2>6, <3>1, KindOfLongString
    <3> QED
      BY <1>2, <3>2, LongSizedOK
  <2>7. CASE x \in 192..247
    <3>1. PICK c \in Nat : c = x - 192
      BY <2>7
    <3>2. readKind(b) = Sized(b, "list", 1, c)
      BY <1>2, <2>1, <2>7, <3>1, KindOfList
    <3> QED
      BY <3>2, SizedOK
  <2>8. CASE x \in 248..255
    <3>1. PICK c \in 1..8 : c = x - 247
      BY <2>8
    <3>2. readKind(b) = LongSized(b, "list", c)
      BY <1>2, <2>1, <2>8, <3>1, KindOfLongList
    <3> QED
      BY <1>2, <3>2, LongSizedOK
  <2> QED
    BY <2>2, <2>3, <2>4, <2>5, <2>6, <2>7, <2>8
<1> QED
  BY <1>1, <1>2
-----------------------------------------------------------------------------
(* Sequences put together.                                                 *)

LEMMA CutConcat ==
  ASSUME NEW S, NEW s \in Seq(S), NEW t \in Seq(S)
  PROVE  /\ SubSeq(s \o t, 1, Len(s)) = s
         /\ SubSeq(s \o t, Len(s) + 1, Len(s \o t)) = t
<1>1. PICK l \in Nat : l = Len(s)
  OBVIOUS
<1>2. PICK m \in Nat \ {0} : m = 1
  OBVIOUS
<1>3. SubSeq(s \o t, 1, l) = s
  <2>1. SubSeq(s \o t, m, l) = SubSeq(s, m, l)
    BY <1>1, CutGrown
  <2>2. SubSeq(s, 1, Len(s)) = s
    BY SubSeqFull
  <2> QED
    BY <1>1, <1>2, <2>1, <2>2
<1>4. SubSeq(s \o t, l + 1, Len(s \o t)) = t
  <2>1. PICK k \in 1..(Len(s) + 1) : k = l + 1
    BY <1>1
  <2>2. SubSeq(s \o t, k, Len(s \o t)) = SubSeq(s, k, Len(s)) \o t
    BY CutToEnd
  <2>3. SubSeq(s, k, Len(s)) = <<>>
    BY <1>1, <2>1, SubSeqEmpty
  <2>4. <<>> \o t = t
    BY ConcatEmptySeq
  <2> QED
    BY <2>1, <2>2, <2>3, <2>4
<1> QED
  BY <1>1, <1>3, <1>4

(* A header, a content, and what comes behind.                             *)
LEMMA Parts ==
  ASSUME NEW S, NEW h \in Seq(S), NEW c \in Seq(S), NEW rest \in Seq(S),
         NEW b, b = h \o c \o rest
  PROVE  /\ b \in Seq(S) /\ Len(b) = Len(h) + Len(c) + Len(rest)
         /\ SubSeq(b, 1, Len(h) + Len(c)) = h \o c
         /\ SubSeq(b, Len(h) + 1, Len(h) + Len(c)) = c
         /\ SubSeq(b, Len(h) + Len(c) + 1, Len(b)) = rest
<1>1. PICK u \in Seq(S) : u = h \o c
  <2>1. h \o c \in Seq(S)
    BY ConcatProperties
  <2> QED
    BY <2>1
<1>2. Len(u) = Len(h) + Len(c) /\ b = u \o rest /\ b \in Seq(S) /\ Len(b) = Len(u) + Len(rest)
  BY <1>1, ConcatProperties
<1>3. SubSeq(b, 1, Len(u)) = u /\ SubSeq(b, Len(u) + 1, Len(b)) = rest
  BY <1>2, CutConcat
<1>4. SubSeq(b, Len(h) + 1, Len(u)) = c
  <2>1. PICK m \in Nat \ {0} : m = Len(h) + 1
    OBVIOUS
  <2>2. PICK l \in Nat : l = Len(u)
    OBVIOUS
  <2>3. SubSeq(u \o rest, m, l) = SubSeq(u, m, l)
    BY <2>2, CutGrown
  <2>4. SubSeq(u, Len(h) + 1, Len(u)) = c
    BY <1>1, CutConcat
  <2> QED
    BY <1>2, <2>1, <2>2, <2>3, <2>4
<1> QED
  BY <1>1, <1>2, <1>3, <1>4

LEMMA FirstOf ==
  ASSUME NEW S, NEW x \in S, NEW p \in Seq(S), NEW b, b = <<x>> \o p
  PROVE  b # <<>> /\ b[1] = x /\ Tail(b) = p /\ Len(b) = 1 + Len(p) /\ (Len(p) > 0 => b[2] = p[1])
<1>1. <<x>> \in Seq(S) /\ Len(<<x>>) = 1
  OBVIOUS
<1>2. /\ b \in Seq(S) /\ Len(b) = 1 + Len(p)
      /\ \A i \in 1..(1 + Len(p)) : b[i] = IF i <= 1 THEN <<x>>[i] ELSE p[i - 1]
  BY <1>1, ConcatProperties
<1>3. b[1] = x /\ b # <<>>
  BY <1>2
<1>4. Len(p) > 0 => b[2] = p[1]
  <2>1. Len(p) > 0 => 2 \in 1..(1 + Len(p)) /\ ~(2 <= 1) /\ 2 - 1 = 1
    OBVIOUS
  <2> QED
    BY <1>2, <2>1
<1>5. Tail(b) = p
  <2>1. Tail(b) \in Seq(S) /\ Len(Tail(b)) = Len(p)
    BY <1>2, <1>3
  <2>2. ASSUME NEW i \in 1..Len(p) PROVE Tail(b)[i] = p[i]
    <3>1. Tail(b)[i] = b[i + 1]
      BY <1>2, <1>3
    <3>2. i + 1 \in 1..(1 + Len(p)) /\ ~(i + 1 <= 1) /\ (i + 1) - 1 = i
      OBVIOUS
    <3> QED
      BY <1>2, <3>1, <3>2
  <2> QED
    BY <2>1, <2>2, SeqEqual
<1> QED
  BY <1>2, <1>3, <1>4, <1>5

LEMMA Associative ==
  ASSUME NEW S, NEW u \in Seq(S), NEW v \in Seq(S), NEW w \in Seq(S)
  PROVE  u \o v \o w = u \o (v \o w)
BY ConcatAssociative

LEMMA BytesAssociative ==
  \A u, v, w \in Seq(Byte) : u \o v \o w = u \o (v \o w)
BY Associative

LEMMA CutInTwo ==
  ASSUME NEW S, NEW s \in Seq(S), NEW m \in 0..Len(s)
  PROVE  /\ SubSeq(s, 1, m) \in Seq(S) /\ Len(SubSeq(s, 1, m)) = m
         /\ SubSeq(s, m + 1, Len(s)) \in Seq(S) /\ Len(SubSeq(s, m + 1, Len(s))) = Len(s) - m
         /\ s = SubSeq(s, 1, m) \o SubSeq(s, m + 1, Len(s))
<1>1. m \in Nat /\ m <= Len(s) /\ Len(s) \in Nat
  OBVIOUS
<1>2. SubSeq(s, 1, m) \in Seq(S) /\ Len(SubSeq(s, 1, m)) = m
  <2>1. PICK f \in Nat \ {0} : f = 1
    OBVIOUS
  <2>2. SubSeq(s, f, m) \in Seq(S) /\ Len(SubSeq(s, f, m)) = IF f <= m THEN m - f + 1 ELSE 0
    BY <1>1, SubType
  <2> QED
    BY <1>1, <2>1, <2>2
<1>3. SubSeq(s, m + 1, Len(s)) \in Seq(S) /\ Len(SubSeq(s, m + 1, Len(s))) = Len(s) - m
  <2>1. PICK f \in Nat \ {0} : f = m + 1
    BY <1>1
  <2>2. SubSeq(s, f, Len(s)) \in Seq(S) /\ Len(SubSeq(s, f, Len(s))) = IF f <= Len(s) THEN Len(s) - f + 1 ELSE 0
    BY <1>1, SubType
  <2> QED
    BY <1>1, <2>1, <2>2
<1>4. s = SubSeq(s, 1, m) \o SubSeq(s, m + 1, Len(s))
  <2>1. 1 \in 1..(Len(s) + 1) /\ m \in (1 - 1)..Len(s) /\ Len(s) \in m..Len(s)
    BY <1>1
  <2>2. SubSeq(s, 1, m) \o SubSeq(s, m + 1, Len(s)) = SubSeq(s, 1, Len(s))
    BY <2>1, ConcatAdjacentSubSeq
  <2>3. SubSeq(s, 1, Len(s)) = s
    BY SubSeqFull
  <2> QED
    BY <2>2, <2>3
<1> QED
  BY <1>2, <1>3, <1>4

LEMMA FirstAndTail ==
  ASSUME NEW S, NEW s \in Seq(S), s # <<>>
  PROVE  /\ s[1] \in S /\ Tail(s) \in Seq(S) /\ Len(Tail(s)) = Len(s) - 1
         /\ s = <<s[1]>> \o Tail(s) /\ SubSeq(s, 1, 1) = <<s[1]>>
<1>1. PICK x \in S : x = s[1]
  OBVIOUS
<1>2. PICK t \in Seq(S) : t = Tail(s)
  <2>1. Tail(s) \in Seq(S)
    BY HeadTailProperties
  <2> QED
    BY <2>1
<1>3. Len(t) = Len(s) - 1 /\ \A i \in 1..Len(t) : t[i] = s[i + 1]
  BY <1>2
<1>4. PICK h \in Seq(S) : h = <<x>> /\ Len(h) = 1 /\ h[1] = x
  <2>1. <<x>> \in Seq(S) /\ Len(<<x>>) = 1 /\ <<x>>[1] = x
    OBVIOUS
  <2> QED
    BY <2>1
<1>5. h \o t = s
  <2>1. /\ h \o t \in Seq(S) /\ Len(h \o t) = Len(h) + Len(t)
        /\ \A i \in 1..(Len(h) + Len(t)) : (h \o t)[i] = IF i <= Len(h) THEN h[i] ELSE t[i - Len(h)]
    BY ConcatProperties
  <2>2. Len(h \o t) = Len(s)
    BY <1>3, <1>4, <2>1
  <2>3. ASSUME NEW i \in 1..Len(s) PROVE (h \o t)[i] = s[i]
    <3>1. CASE i = 1
      BY <1>1, <1>3, <1>4, <2>1, <3>1
    <3>2. CASE i # 1
      <4>1. ~(i <= 1) /\ i - 1 \in 1..Len(t) /\ (i - 1) + 1 = i /\ i \in 1..(Len(h) + Len(t))
        BY <1>3, <1>4, <3>2
      <4> QED
        BY <1>3, <1>4, <2>1, <4>1
    <3> QED
      BY <3>1, <3>2
  <2> QED
    BY <2>1, <2>2, <2>3, SeqEqual
<1>6. SubSeq(s, 1, Len(h)) = h
  <2>1. SubSeq(h \o t, 1, Len(h)) = h
    BY CutConcat
  <2> QED
    BY <1>5, <2>1
<1> QED
  BY <1>1, <1>2, <1>3, <1>4, <1>5, <1>6

-----------------------------------------------------------------------------
(* What the encoder puts together is taken apart again.                    *)

(* The length of c has at most 64 bits.                                    *)
Fits(c) == intsize[Len(c)] <= 8

Joined(b, h, c) == b = h \o c

LEMMA JoinedIs ==
  ASSUME NEW h \in Seq(Byte), NEW c \in Seq(Byte), NEW b, Joined(b, h, c)
  PROVE  /\ b \in Seq(Byte) /\ Len(b) = Len(h) + Len(c) /\ b = h \o c
         /\ \A i \in 1..Len(h) : b[i] = h[i]
         /\ SubSeq(b, 1, Len(h)) = h
         /\ SubSeq(b, Len(h) + 1, Len(b)) = c
<1>1. b = h \o c
  BY DEF Joined
<1>2. /\ h \o c \in Seq(Byte) /\ Len(h \o c) = Len(h) + Len(c)
      /\ \A i \in 1..(Len(h) + Len(c)) : (h \o c)[i] = IF i <= Len(h) THEN h[i] ELSE c[i - Len(h)]
  BY ConcatProperties
<1>3. \A i \in 1..Len(h) : i \in 1..(Len(h) + Len(c)) /\ i <= Len(h)
  OBVIOUS
<1>4. SubSeq(h \o c, 1, Len(h)) = h /\ SubSeq(h \o c, Len(h) + 1, Len(h \o c)) = c
  BY CutConcat
<1> QED
  BY <1>1, <1>2, <1>3, <1>4

LEMMA IntsizeShort ==
  ASSUME NEW l \in Nat, intsize[l] <= 8
  PROVE  intsize[l] \in 1..8
<1>1. intsize[l] \in Nat \ {0}
  BY IntsizeType
<1> QED
  BY <1>1

(* The size that putint writes is read behind the tag.                     *)
LEMMA SizeRead ==
  ASSUME NEW l \in Nat, l >= 56, intsize[l] <= 8, NEW behind \in Seq(Byte),
         NEW b, Joined(b, putint[l], behind)
  PROVE  readSize(b, intsize[l]) = [size |-> l, err |-> Nil]
<1>1. PICK p \in Seq(Byte) : p = putint[l] /\ Len(p) = intsize[l]
  BY PutintType
<1>2. PICK w \in 1..8 : w = intsize[l]
  BY IntsizeShort
<1>3. b \in Seq(Byte) /\ Len(b) = Len(p) + Len(behind) /\ SubSeq(b, 1, Len(p)) = p
      /\ \A i \in 1..Len(p) : b[i] = p[i]
  BY <1>1, JoinedIs
<1>4. BigEndian(p) = l
  BY <1>1, PutintValue
<1>5. p[1] # 0
  <2>1. l \in Nat \ {0}
    OBVIOUS
  <2>2. putint[l][1] \in 1..255
    BY <2>1, PutintFirst
  <2>3. p[1] \in 1..255
    BY <1>1, <2>2, Zenon
  <2>4. \A y \in 1..255 : y # 0
    OBVIOUS
  <2> QED
    BY <2>3, <2>4
<1>6. b[1] # 0
  <2>1. 1 \in 1..Len(p)
    BY <1>1, <1>2
  <2> QED
    BY <1>3, <1>5, <2>1
<1>7. ~(w > Len(b))
  BY <1>1, <1>2, <1>3
<1>8. readSize(b, w) = IF w > Len(b) THEN SizeError("ErrUnexpectedEOF")
                       ELSE IF BigEndian(SubSeq(b, 1, w)) < 56 \/ b[1] = 0 THEN SizeError("ErrCanonSize")
                       ELSE [size |-> BigEndian(SubSeq(b, 1, w)), err |-> Nil]
  BY DEF readSize
<1>9. BigEndian(SubSeq(b, 1, w)) = l
  BY <1>1, <1>2, <1>3, <1>4
<1>10. readSize(b, w) = [size |-> l, err |-> Nil]
  BY <1>6, <1>7, <1>8, <1>9
<1> QED
  BY <1>2, <1>10

LEMMA PutheadBytes ==
  ASSUME NEW a \in 0..192, NEW g \in 0..247, NEW l \in Nat, intsize[l] <= 8
  PROVE  puthead(a, g, l) \in Seq(Byte) /\ Len(puthead(a, g, l)) = headsize(l) /\ headsize(l) \in Nat
<1>1. CASE l < 56
  <2>1. PICK x \in Byte : x = a + l
    BY <1>1 DEF Byte
  <2>2. <<x>> \in Seq(Byte) /\ Len(<<x>>) = 1
    OBVIOUS
  <2> QED
    BY <1>1, <2>1, <2>2 DEF puthead, headsize
<1>2. CASE ~(l < 56)
  <2>1. PICK p \in Seq(Byte) : p = putint[l] /\ Len(p) = intsize[l]
    BY PutintType
  <2>2. PICK w \in 1..8 : w = intsize[l]
    BY IntsizeShort
  <2>3. PICK x \in Byte : x = g + w
    BY DEF Byte
  <2>4. <<x>> \in Seq(Byte) /\ Len(<<x>>) = 1
    OBVIOUS
  <2>5. <<x>> \o p \in Seq(Byte) /\ Len(<<x>> \o p) = 1 + Len(p)
    BY <2>4, ConcatProperties
  <2> QED
    BY <1>2, <2>1, <2>2, <2>3, <2>5 DEF puthead, headsize
<1> QED
  BY <1>1, <1>2

Known(k, ts, cs) == [k |-> k, tagsize |-> ts, contentsize |-> cs, err |-> Nil]

(* b is a tag, or a tag and a size, before at least l bytes.               *)
Headed(b, a, g, l, behind) ==
  /\ a \in 0..192 /\ g \in 0..247 /\ l \in Nat /\ intsize[l] <= 8
  /\ behind \in Seq(Byte) /\ Len(behind) >= l
  /\ Joined(b, puthead(a, g, l), behind)

LEMMA ShortHeadRead ==
  ASSUME NEW b, NEW a, NEW g, NEW l, NEW behind, Headed(b, a, g, l, behind), l < 56
  PROVE  /\ b \in Seq(Byte) /\ b # <<>> /\ b[1] = a + l
         /\ l > 0 => b[2] = behind[1]
         /\ \A k : Sized(b, k, 1, l) = Known(k, headsize(l), l)
<1>1. /\ a \in 0..192 /\ g \in 0..247 /\ l \in Nat /\ behind \in Seq(Byte) /\ Len(behind) >= l
      /\ b = puthead(a, g, l) \o behind
  BY DEF Headed, Joined
<1>2. PICK x \in Byte : x = a + l
  BY <1>1 DEF Byte
<1>3. puthead(a, g, l) = <<x>> /\ headsize(l) = 1
  BY <1>2 DEF puthead, headsize
<1>4. <<x>> \in Seq(Byte)
  OBVIOUS
<1>5. b = <<x>> \o behind
  BY <1>1, <1>3
<1>6. /\ b # <<>> /\ b[1] = x /\ Len(b) = 1 + Len(behind)
      /\ Len(behind) > 0 => b[2] = behind[1]
  BY <1>1, <1>5, FirstOf
<1>7. b \in Seq(Byte)
  BY <1>1, <1>4, <1>5, ConcatProperties
<1>8. ~(l > Len(b) - 1) /\ (l > 0 => Len(behind) > 0)
  <2>1. Len(behind) \in Nat
    BY <1>1
  <2> QED
    BY <1>1, <1>6, <2>1
<1>9. \A k : Sized(b, k, 1, l) = Known(k, 1, l)
  BY <1>8 DEF Sized, Known
<1> QED
  BY <1>2, <1>3, <1>6, <1>7, <1>8, <1>9

LEMMA LongHeadRead ==
  ASSUME NEW b, NEW a, NEW g, NEW l, NEW behind, Headed(b, a, g, l, behind), ~(l < 56)
  PROVE  /\ b \in Seq(Byte) /\ b # <<>> /\ b[1] = g + intsize[l]
         /\ \A k : LongSized(b, k, intsize[l]) = Known(k, headsize(l), l)
<1>0. /\ a \in 0..192 /\ g \in 0..247 /\ l \in Nat /\ intsize[l] <= 8
      /\ behind \in Seq(Byte) /\ Len(behind) >= l /\ Joined(b, puthead(a, g, l), behind)
  BY DEF Headed
<1>1. PICK p \in Seq(Byte) : p = putint[l] /\ Len(p) = intsize[l]
  BY <1>0, PutintType
<1>2. PICK w \in 1..8 : w = intsize[l]
  BY <1>0, IntsizeShort
<1>3. PICK x \in Byte : x = g + w
  BY <1>0 DEF Byte
<1>4. puthead(a, g, l) = <<x>> \o p /\ headsize(l) = w + 1
  BY <1>1, <1>2, <1>3 DEF puthead, headsize
<1>5. PICK q \in Seq(Byte) : q = p \o behind /\ Len(q) = Len(p) + Len(behind)
  <2>1. p \o behind \in Seq(Byte) /\ Len(p \o behind) = Len(p) + Len(behind)
    BY <1>0, ConcatProperties
  <2> QED
    BY <2>1
<1>6. <<x>> \in Seq(Byte)
  OBVIOUS
<1>7. b = <<x>> \o q
  <2>1. b = (<<x>> \o p) \o behind
    BY <1>0, <1>4 DEF Joined
  <2>2. (<<x>> \o p) \o behind = <<x>> \o (p \o behind)
    BY <1>0, <1>6, Associative, SMTT(80)
  <2> QED
    BY <1>5, <2>1, <2>2
<1>8. b # <<>> /\ b[1] = x /\ Tail(b) = q /\ Len(b) = 1 + Len(q)
  BY <1>0, <1>7, FirstOf
<1>9. b \in Seq(Byte)
  BY <1>6, <1>7, ConcatProperties
<1>10. readSize(q, w) = [size |-> l, err |-> Nil]
  <2>1. Joined(q, putint[l], behind)
    BY <1>1, <1>5 DEF Joined
  <2>2. l >= 56
    BY <1>0
  <2>3. readSize(q, intsize[l]) = [size |-> l, err |-> Nil]
    BY <1>0, <2>1, <2>2, SizeRead
  <2> QED
    BY <1>2, <2>3
<1>11. ~(l > Len(b) - (w + 1))
  BY <1>0, <1>1, <1>2, <1>5, <1>8
<1>12. \A k : LongSized(b, k, w) = Sized(b, k, w + 1, l)
  <2>1. readSize(Tail(b), w) = [size |-> l, err |-> Nil]
    BY <1>8, <1>10, Zenon
  <2> QED
    BY <2>1 DEF LongSized
<1>13. \A k : Sized(b, k, w + 1, l) = Known(k, w + 1, l)
  BY <1>11 DEF Sized, Known
<1> QED
  BY <1>2, <1>3, <1>4, <1>8, <1>9, <1>12, <1>13

(* The encodings of the string and of the list c, with more behind them.   *)
LEMMA ListKind ==
  ASSUME NEW c \in Seq(Byte), Fits(c), NEW rest \in Seq(Byte), NEW b, Joined(b, EncodedList(c), rest)
  PROVE  readKind(b) = Known("list", headsize(Len(c)), Len(c))
<1>1. PICK l \in Nat : l = Len(c) /\ intsize[l] <= 8
  BY DEF Fits
<1>2. PICK behind \in Seq(Byte) : behind = c \o rest /\ Len(behind) >= l
  <2>1. c \o rest \in Seq(Byte) /\ Len(c \o rest) = Len(c) + Len(rest)
    BY ConcatProperties
  <2>2. Len(c \o rest) >= l
    BY <1>1, <2>1
  <2> QED
    BY <2>1, <2>2
<1>0. 192 \in 0..192 /\ 247 \in 0..247 /\ Len(behind) >= l
  BY <1>2
<1>3. Headed(b, 192, 247, l, behind)
  <2>1. PICK h \in Seq(Byte) : h = puthead(192, 247, l)
    BY <1>1, <1>0, PutheadBytes, ZenonT(80)
  <2>2. b = h \o c \o rest
    BY <1>1, <2>1 DEF Joined, EncodedList
  <2>3. h \o c \o rest = h \o (c \o rest)
    BY Associative
  <2>4. b = h \o behind
    BY <1>2, <2>2, <2>3
  <2> QED
    BY <1>0, <1>1, <2>1, <2>4 DEF Headed, Joined
<1>4. CASE l < 56
  <2>1. b # <<>> /\ b[1] = 192 + l /\ \A k : Sized(b, k, 1, l) = Known(k, headsize(l), l)
    BY <1>3, <1>4, ShortHeadRead
  <2>2. 192 + l \in 192..247 /\ (192 + l) - 192 = l
    BY <1>4
  <2>3. readKind(b) = Sized(b, "list", 1, l)
    BY <2>1, <2>2, KindOfList, ZenonT(80)
  <2> QED
    BY <1>1, <2>1, <2>3
<1>5. CASE ~(l < 56)
  <2>1. PICK w \in 1..8 : w = intsize[l]
    BY <1>1, IntsizeShort
  <2>2. /\ b # <<>> /\ b[1] = 247 + intsize[l]
        /\ \A k : LongSized(b, k, intsize[l]) = Known(k, headsize(l), l)
    BY <1>3, <1>5, LongHeadRead
  <2>3. 247 + w \in 248..255 /\ (247 + w) - 247 = w
    OBVIOUS
  <2>4. readKind(b) = LongSized(b, "list", w)
    BY <2>1, <2>2, <2>3, KindOfLongList
  <2> QED
    BY <1>1, <2>1, <2>2, <2>4
<1> QED
  BY <1>4, <1>5

IsByte(c) == Len(c) = 1 /\ c[1] < 128

LEMMA ByteKind ==
  ASSUME NEW c \in Seq(Byte), IsByte(c), NEW rest \in Seq(Byte), NEW b, Joined(b, EncodedString(c), rest)
  PROVE  readKind(b) = Known("byte", 0, 1)
<1>1. EncodedString(c) = c
  BY DEF EncodedString, IsByte
<1>2. Len(b) = Len(c) + Len(rest) /\ b \in Seq(Byte) /\ \A i \in 1..Len(c) : b[i] = c[i]
  BY <1>1, JoinedIs
<1>3. Len(c) = 1 /\ c[1] < 128
  BY DEF IsByte
<1>4. 1 \in 1..Len(c) /\ ~(1 > Len(b) - 0) /\ b # <<>>
  BY <1>2, <1>3
<1>5. b[1] < 128
  BY <1>2, <1>3, <1>4
<1> QED
  BY <1>4, <1>5, KindOfByte DEF Sized, Known

LEMMA StringKind ==
  ASSUME NEW c \in Seq(Byte), Fits(c), ~IsByte(c), NEW rest \in Seq(Byte),
         NEW b, Joined(b, EncodedString(c), rest)
  PROVE  readKind(b) = Known("string", headsize(Len(c)), Len(c))
<1>1. PICK l \in Nat : l = Len(c) /\ intsize[l] <= 8
  BY DEF Fits
<1>2. PICK behind \in Seq(Byte) : behind = c \o rest /\ Len(behind) >= l /\ (l > 0 => behind[1] = c[1])
  <2>1. /\ c \o rest \in Seq(Byte) /\ Len(c \o rest) = Len(c) + Len(rest)
        /\ \A i \in 1..(Len(c) + Len(rest)) : (c \o rest)[i] = IF i <= Len(c) THEN c[i] ELSE rest[i - Len(c)]
    BY ConcatProperties
  <2>2. l > 0 => 1 \in 1..(Len(c) + Len(rest)) /\ 1 <= Len(c)
    BY <1>1
  <2>3. Len(c \o rest) >= l /\ (l > 0 => (c \o rest)[1] = c[1])
    BY <1>1, <2>1, <2>2
  <2> QED
    BY <2>1, <2>3
<1>0. /\ 128 \in 0..192 /\ 183 \in 0..247
      /\ Len(behind) >= l /\ (l > 0 => behind[1] = c[1])
  BY <1>2
<1>3. Headed(b, 128, 183, l, behind)
  <2>1. PICK h \in Seq(Byte) : h = puthead(128, 183, l)
    BY <1>1, <1>0, PutheadBytes, ZenonT(80)
  <2>2. b = h \o c \o rest
    BY <1>1, <2>1 DEF Joined, EncodedString, IsByte
  <2>3. h \o c \o rest = h \o (c \o rest)
    BY Associative
  <2>4. b = h \o behind
    BY <1>2, <2>2, <2>3
  <2> QED
    BY <1>0, <1>1, <2>1, <2>4 DEF Headed, Joined
<1>4. CASE l < 56
  <2>1. /\ b # <<>> /\ b[1] = 128 + l /\ (l > 0 => b[2] = behind[1])
        /\ \A k : Sized(b, k, 1, l) = Known(k, headsize(l), l)
    BY <1>3, <1>4, ShortHeadRead
  <2>2. ~(128 + l < 128) /\ 128 + l < 184 /\ (128 + l) - 128 = l
    BY <1>4
  <2>3. ~SmallString(b)
    <3>1. 128 + l = 129 => l = 1 /\ l > 0
      OBVIOUS
    <3>2. l = 1 => ~(c[1] < 128)
      BY <1>1 DEF IsByte
    <3> QED
      BY <1>2, <2>1, <3>1, <3>2 DEF SmallString
  <2>4. readKind(b) = Sized(b, "string", 1, l)
    BY <2>1, <2>2, <2>3, KindOfString
  <2> QED
    BY <1>1, <2>1, <2>4
<1>5. CASE ~(l < 56)
  <2>1. PICK w \in 1..8 : w = intsize[l]
    BY <1>1, IntsizeShort
  <2>2. /\ b # <<>> /\ b[1] = 183 + intsize[l]
        /\ \A k : LongSized(b, k, intsize[l]) = Known(k, headsize(l), l)
    BY <1>3, <1>5, LongHeadRead
  <2>3. 183 + w \in 184..191 /\ (183 + w) - 183 = w
    OBVIOUS
  <2>4. readKind(b) = LongSized(b, "string", w)
    BY <2>1, <2>2, <2>3, KindOfLongString
  <2> QED
    BY <1>1, <2>1, <2>2, <2>4
<1> QED
  BY <1>4, <1>5

-----------------------------------------------------------------------------
(* What is taken apart is what the encoder puts together.                  *)

(* A size that is accepted is written like this by putint.                 *)
LEMMA SizeCanonical ==
  ASSUME NEW q \in Seq(Byte), NEW w \in 1..8, readSize(q, w).err = Nil
  PROVE  \E size \in Nat : /\ readSize(q, w).size = size /\ size >= 56
                           /\ w <= Len(q) /\ SubSeq(q, 1, w) = putint[size] /\ intsize[size] = w
<1>1. w <= Len(q) /\ q[1] # 0
  BY DEF readSize, SizeError, Nil
<1>2. PICK m \in Nat \ {0} : m = 1
  OBVIOUS
<1>3. SubSeq(q, m, w) \in Seq(Byte) /\ Len(SubSeq(q, m, w)) = w
  <2>1. w \in Nat /\ m <= w /\ w - m + 1 = w
    BY <1>2
  <2> QED
    BY <1>1, <2>1, SubType
<1>4. PICK p \in Seq(Byte) : p = SubSeq(q, 1, w) /\ Len(p) = w
  BY <1>2, <1>3
<1>5. p[1] = q[1]
  <2>1. 1 \in 1..w
    OBVIOUS
  <2>2. \A j \in 1..w : q[j] \in Byte
    BY <1>1, ElementOfSeq
  <2> QED
    BY <1>4, <2>1, <2>2, SubSeqProperties
<1>6. PICK size \in Nat : size = BigEndian(p) /\ putint[size] = p
  <2>1. Len(p) \in 1..8 /\ p[1] # 0
    BY <1>1, <1>4, <1>5
  <2>2. BigEndian(p) \in Nat \ {0} /\ putint[BigEndian(p)] = p
    BY <2>1, PutintOfBigEndian
  <2> QED
    BY <2>2
<1>7. readSize(q, w) = IF size < 56 \/ q[1] = 0 THEN SizeError("ErrCanonSize")
                       ELSE [size |-> size, err |-> Nil]
  BY <1>1, <1>4, <1>6 DEF readSize
<1>8. size >= 56 /\ readSize(q, w).size = size
  BY <1>7 DEF SizeError, Nil
<1>9. intsize[size] = w
  BY <1>4, <1>6, PutintType
<1> QED
  BY <1>1, <1>4, <1>6, <1>8, <1>9

(* The first ts bytes of b are the header of cs bytes behind them.         *)
Header(b, a, g, ts, cs) ==
  /\ ts = headsize(cs) /\ cs \in Nat /\ intsize[cs] <= 8
  /\ ts + cs <= Len(b) /\ SubSeq(b, 1, ts) = puthead(a, g, cs)

LEMMA ShortCanonical ==
  ASSUME NEW b \in Seq(Byte), b # <<>>, NEW a \in 0..192, NEW g \in 0..247, NEW cs \in 0..55,
         b[1] = a + cs, NEW k, Sized(b, k, 1, cs).err = Nil
  PROVE  Sized(b, k, 1, cs) = Known(k, 1, cs) /\ Header(b, a, g, 1, cs)
<1>1. ~(cs > Len(b) - 1)
  BY DEF Sized, KindError, Nil
<1>2. Sized(b, k, 1, cs) = Known(k, 1, cs)
  BY <1>1 DEF Sized, Known
<1>3. headsize(cs) = 1 /\ puthead(a, g, cs) = <<b[1]>>
  BY DEF headsize, puthead
<1>4. intsize[cs] <= 8
  <2>1. cs \in Nat /\ cs < 256
    OBVIOUS
  <2>2. intsize[cs] = 1
    BY <2>1, IntsizeUnfolds
  <2> QED
    BY <2>2
<1>5. SubSeq(b, 1, 1) = <<b[1]>>
  BY FirstAndTail
<1> QED
  BY <1>1, <1>2, <1>3, <1>4, <1>5 DEF Header

LEMMA LongCanonical ==
  ASSUME NEW b \in Seq(Byte), b # <<>>, NEW a \in 0..192, NEW g \in 0..247, NEW w \in 1..8,
         b[1] = g + w, NEW k, LongSized(b, k, w).err = Nil
  PROVE  \E cs \in Nat : /\ cs >= 56 /\ LongSized(b, k, w) = Known(k, w + 1, cs)
                         /\ Header(b, a, g, w + 1, cs)
<1>1. PICK q \in Seq(Byte) : q = Tail(b) /\ Len(q) = Len(b) - 1 /\ b = <<b[1]>> \o q
  <2>1. Tail(b) \in Seq(Byte) /\ Len(Tail(b)) = Len(b) - 1 /\ b = <<b[1]>> \o Tail(b)
    BY FirstAndTail
  <2> QED
    BY <2>1
<1>2. readSize(q, w).err = Nil
  BY <1>1 DEF LongSized, KindError
<1>3. PICK cs \in Nat : /\ readSize(q, w).size = cs /\ cs >= 56 /\ w <= Len(q)
                        /\ SubSeq(q, 1, w) = putint[cs] /\ intsize[cs] = w
  BY <1>2, SizeCanonical
<1>4. LongSized(b, k, w) = Sized(b, k, w + 1, cs)
  BY <1>1, <1>2, <1>3 DEF LongSized
<1>5. ~(cs > Len(b) - (w + 1))
  BY <1>4 DEF Sized, KindError, Nil
<1>6. LongSized(b, k, w) = Known(k, w + 1, cs)
  BY <1>4, <1>5 DEF Sized, Known
<1>7. headsize(cs) = w + 1 /\ puthead(a, g, cs) = <<b[1]>> \o putint[cs]
  BY <1>3 DEF headsize, puthead
<1>8. SubSeq(b, 1, w + 1) = <<b[1]>> \o putint[cs]
  <2>1. PICK x \in Byte : x = b[1]
    OBVIOUS
  <2>2. PICK h \in Seq(Byte) : h = <<x>> /\ Len(h) = 1
    <3>1. <<x>> \in Seq(Byte) /\ Len(<<x>>) = 1
      OBVIOUS
    <3> QED
      BY <3>1
  <2>3. w \in 0..Len(q)
    BY <1>3
  <2>4. PICK p \in Seq(Byte) : p = SubSeq(q, 1, w) /\ Len(p) = w
    <3>1. SubSeq(q, 1, w) \in Seq(Byte) /\ Len(SubSeq(q, 1, w)) = w
      BY <2>3, CutInTwo
    <3> QED
      BY <3>1
  <2>5. PICK r \in Seq(Byte) : r = SubSeq(q, w + 1, Len(q))
    BY <2>3, CutInTwo
  <2>6. q = p \o r
    <3>1. q = SubSeq(q, 1, w) \o SubSeq(q, w + 1, Len(q))
      BY <2>3, CutInTwo, ZenonT(80)
    <3> QED
      BY <3>1, <2>4, <2>5, ZenonT(80)
  <2>7. b = h \o p \o r
    <3>1. b = h \o (p \o r)
      BY <1>1, <2>1, <2>2, <2>6
    <3>2. h \o p \o r = h \o (p \o r)
      BY BytesAssociative, ZenonT(80)
    <3> QED
      BY <3>1, <3>2
  <2>8. SubSeq(b, 1, Len(h) + Len(p)) = h \o p
    BY <2>7, Parts
  <2> QED
    BY <1>3, <2>1, <2>2, <2>4, <2>8
<1>9. Header(b, a, g, w + 1, cs)
  <2>1. w + 1 + cs <= Len(b) /\ w <= 8
    BY <1>5
  <2> QED
    BY <1>3, <1>7, <1>8, <2>1 DEF Header
<1> QED
  BY <1>3, <1>6, <1>9

LEMMA KindCases ==
  ASSUME NEW b \in Seq(Byte), NEW r, r = readKind(b), r.err = Nil
  PROVE  \/ r.k = "byte" /\ r.tagsize = 0 /\ r.contentsize = 1 /\ b # <<>> /\ b[1] < 128
         \/ /\ r.k = "string" /\ Header(b, 128, 183, r.tagsize, r.contentsize)
            /\ r.contentsize = 1 => r.tagsize = 1 /\ ~(b[2] < 128)
         \/ r.k = "list" /\ Header(b, 192, 247, r.tagsize, r.contentsize)
<1>1. b # <<>> /\ ~(~(b[1] < 128) /\ SmallString(b))
  BY KindOfNothing, KindOfSmallString DEF KindError, Nil
<1>2. PICK x \in Byte : x = b[1]
  BY <1>1
<1>3. x \in 0..255
  BY DEF Byte
<1>4. CASE x < 128
  BY <1>1, <1>2, <1>4, KindOfByte DEF Sized, KindError, Nil
<1>5. CASE ~(x < 128) /\ x < 184
  <2>1. PICK cs \in 0..55 : cs = x - 128 /\ 128 + cs = x
    BY <1>3, <1>5
  <2>2. r = Sized(b, "string", 1, cs)
    BY <1>1, <1>2, <1>5, <2>1, KindOfString
  <2>3. 128 \in 0..192 /\ 183 \in 0..247
    OBVIOUS
  <2>4. r = Known("string", 1, cs) /\ Header(b, 128, 183, 1, cs)
    <3>1. b[1] = 128 + cs /\ Sized(b, "string", 1, cs).err = Nil
      BY <1>2, <2>1, <2>2
    <3>2. Sized(b, "string", 1, cs) = Known("string", 1, cs) /\ Header(b, 128, 183, 1, cs)
      BY <1>1, <2>3, <3>1, ShortCanonical
    <3> QED
      BY <2>2, <3>2
  <2>5. cs = 1 => ~(b[2] < 128)
    <3>1. cs = 1 => 1 + 1 <= Len(b)
      BY <2>4 DEF Header
    <3>2. cs = 1 => Len(b) > 1 /\ x = 129
      BY <2>1, <3>1
    <3> QED
      BY <1>1, <1>2, <1>5, <3>2 DEF SmallString
  <2> QED
    BY <2>4, <2>5 DEF Known
<1>6. CASE x \in 184..191
  <2>1. PICK w \in 1..8 : w = x - 183 /\ 183 + w = x
    BY <1>6
  <2>2. r = LongSized(b, "string", w)
    BY <1>1, <1>2, <1>6, <2>1, KindOfLongString
  <2>3. 128 \in 0..192 /\ 183 \in 0..247
    OBVIOUS
  <2>4. PICK cs \in Nat : cs >= 56 /\ r = Known("string", w + 1, cs) /\ Header(b, 128, 183, w + 1, cs)
    <3>1. b[1] = 183 + w /\ LongSized(b, "string", w).err = Nil
      BY <1>2, <2>1, <2>2
    <3>2. \E cs \in Nat : /\ cs >= 56 /\ LongSized(b, "string", w) = Known("string", w + 1, cs)
                         /\ Header(b, 128, 183, w + 1, cs)
      BY <1>1, <2>3, <3>1, LongCanonical, ZenonT(80)
    <3> QED
      BY <2>2, <3>2
  <2>5. cs # 1
    BY <2>4
  <2> QED
    BY <2>4, <2>5 DEF Known
<1>7. CASE x \in 192..247
  <2>1. PICK cs \in 0..55 : cs = x - 192 /\ 192 + cs = x
    BY <1>7
  <2>2. r = Sized(b, "list", 1, cs)
    BY <1>1, <1>2, <1>7, <2>1, KindOfList
  <2>3. 192 \in 0..192 /\ 247 \in 0..247
    OBVIOUS
  <2>4. r = Known("list", 1, cs) /\ Header(b, 192, 247, 1, cs)
    <3>1. b[1] = 192 + cs /\ Sized(b, "list", 1, cs).err = Nil
      BY <1>2, <2>1, <2>2
    <3>2. Sized(b, "list", 1, cs) = Known("list", 1, cs) /\ Header(b, 192, 247, 1, cs)
      BY <1>1, <2>3, <3>1, ShortCanonical, ZenonT(80)
    <3> QED
      BY <2>2, <3>2
  <2> QED
    BY <2>4 DEF Known
<1>8. CASE x \in 248..255
  <2>1. PICK w \in 1..8 : w = x - 247 /\ 247 + w = x
    BY <1>8
  <2>2. r = LongSized(b, "list", w)
    BY <1>1, <1>2, <1>8, <2>1, KindOfLongList
  <2>3. 192 \in 0..192 /\ 247 \in 0..247
    OBVIOUS
  <2>4. PICK cs \in Nat : cs >= 56 /\ r = Known("list", w + 1, cs) /\ Header(b, 192, 247, w + 1, cs)
    <3>1. b[1] = 247 + w /\ LongSized(b, "list", w).err = Nil
      BY <1>2, <2>1, <2>2
    <3>2. \E cs \in Nat : /\ cs >= 56 /\ LongSized(b, "list", w) = Known("list", w + 1, cs)
                         /\ Header(b, 192, 247, w + 1, cs)
      BY <1>1, <2>3, <3>1, LongCanonical, ZenonT(80)
    <3> QED
      BY <2>2, <3>2
  <2> QED
    BY <2>4 DEF Known
<1> QED
  BY <1>3, <1>4, <1>5, <1>6, <1>7, <1>8

LEMMA CutHeader ==
  ASSUME NEW b \in Seq(Byte), NEW a, NEW g, NEW ts, NEW cs, Header(b, a, g, ts, cs)
  PROVE  /\ SubSeq(b, ts + 1, ts + cs) \in Seq(Byte) /\ Len(SubSeq(b, ts + 1, ts + cs)) = cs
         /\ SubSeq(b, 1, ts + cs) = puthead(a, g, cs) \o SubSeq(b, ts + 1, ts + cs)
<1>1. cs \in Nat /\ intsize[cs] <= 8 /\ ts = headsize(cs) /\ ts + cs <= Len(b)
  BY DEF Header
<1>2. ts \in Nat
  BY <1>1, IntsizeType DEF headsize
<1>3. PICK f \in Nat \ {0} : f = ts + 1
  BY <1>2
<1>4. PICK e \in Nat : e = ts + cs
  BY <1>1, <1>2
<1>5. e <= Len(b)
  BY <1>1, <1>4
<1>6. SubSeq(b, f, e) \in Seq(Byte) /\ Len(SubSeq(b, f, e)) = IF f <= e THEN e - f + 1 ELSE 0
  BY <1>5, SubType
<1>7. (IF f <= e THEN e - f + 1 ELSE 0) = cs
  BY <1>1, <1>2, <1>3, <1>4
<1>8. SubSeq(b, 1, e) = SubSeq(b, 1, ts) \o SubSeq(b, ts + 1, e)
  <2>1. 1 \in 1..(Len(b) + 1) /\ ts \in (1 - 1)..Len(b) /\ e \in ts..Len(b)
    BY <1>1, <1>2, <1>4
  <2> QED
    BY <2>1, ConcatAdjacentSubSeq
<1>9. SubSeq(b, 1, ts) = puthead(a, g, cs)
  BY DEF Header
<1> QED
  BY <1>3, <1>4, <1>6, <1>7, <1>8, <1>9

(* v is the encoding of the content c, and its kind is k.                  *)
IsValue(v, k, c) ==
  /\ c \in Seq(Byte) /\ Fits(c)
  /\ \/ k = "list" /\ v = EncodedList(c)
     \/ k = "byte" /\ IsByte(c) /\ v = EncodedString(c)
     \/ k = "string" /\ ~IsByte(c) /\ v = EncodedString(c)

(* The value at the front of b and what is behind it.                      *)
End(r) == r.tagsize + r.contentsize
Front(b, r) == SubSeq(b, 1, End(r))
Content(b, r) == SubSeq(b, r.tagsize + 1, End(r))
Behind(b, r) == SubSeq(b, End(r) + 1, Len(b))

LEMMA FrontIsValue ==
  ASSUME NEW b \in Seq(Byte), NEW r, r = readKind(b), r.err = Nil
  PROVE  IsValue(Front(b, r), r.k, Content(b, r))
<1>1. CASE r.k = "byte" /\ r.tagsize = 0 /\ r.contentsize = 1 /\ b # <<>> /\ b[1] < 128
  <2>1. Front(b, r) = SubSeq(b, 1, 1) /\ Content(b, r) = SubSeq(b, 1, 1)
    BY <1>1 DEF Front, Content, End
  <2>2. PICK c : c = <<b[1]>>
    OBVIOUS
  <2>3. Front(b, r) = c /\ Content(b, r) = c
    BY <1>1, <2>1, <2>2, FirstAndTail
  <2>4. c \in Seq(Byte) /\ Len(c) = 1 /\ c[1] < 128
    BY <1>1, <2>2
  <2>5. Fits(c)
    <3>1. intsize[1] = 1
      BY IntsizeUnfolds
    <3> QED
      BY <2>4, <3>1 DEF Fits
  <2> QED
    BY <1>1, <2>3, <2>4, <2>5 DEF IsValue, IsByte, EncodedString
<1>2. CASE /\ r.k = "string" /\ Header(b, 128, 183, r.tagsize, r.contentsize)
           /\ r.contentsize = 1 => r.tagsize = 1 /\ ~(b[2] < 128)
  <2>2. /\ Content(b, r) \in Seq(Byte) /\ Len(Content(b, r)) = r.contentsize
        /\ Front(b, r) = puthead(128, 183, r.contentsize) \o Content(b, r)
    <3>1. PICK ts : ts = r.tagsize
      OBVIOUS
    <3>2. PICK cs : cs = r.contentsize
      OBVIOUS
    <3>3. PICK a : a = 128
      OBVIOUS
    <3>4. PICK g : g = 183
      OBVIOUS
    <3>5. Header(b, a, g, ts, cs)
      BY <1>2, <3>1, <3>2, <3>3, <3>4
    <3>6. /\ SubSeq(b, ts + 1, ts + cs) \in Seq(Byte) /\ Len(SubSeq(b, ts + 1, ts + cs)) = cs
          /\ SubSeq(b, 1, ts + cs) = puthead(a, g, cs) \o SubSeq(b, ts + 1, ts + cs)
      BY <3>5, CutHeader, SMTT(80)
    <3> QED
      BY <3>1, <3>2, <3>3, <3>4, <3>6 DEF Front, Content, End
  <2>3. PICK c \in Seq(Byte) : c = Content(b, r)
    BY <2>2
  <2>4. Fits(c)
    BY <1>2, <2>2, <2>3 DEF Fits, Header
  <2>5. ~IsByte(c)
    <3>1. SUFFICES ASSUME Len(c) = 1 PROVE ~(c[1] < 128)
      BY DEF IsByte
    <3>2. r.contentsize = 1 /\ r.tagsize = 1 /\ ~(b[2] < 128)
      BY <1>2, <2>2, <2>3, <3>1
    <3>3. c = SubSeq(b, 2, 2) /\ 2 <= Len(b)
      <4>1. r.tagsize + r.contentsize <= Len(b)
        BY <1>2 DEF Header
      <4>2. r.tagsize + 1 = 2 /\ r.tagsize + r.contentsize = 2
        BY <3>2
      <4> QED
        BY <2>3, <4>1, <4>2 DEF Content, End
    <3>4. \A i \in 2..2 : b[i] \in Byte
      BY <3>3, ElementOfSeq
    <3>5. c[1] = b[2]
      BY <3>3, <3>4, SubSeqProperties
    <3> QED
      BY <3>2, <3>5
  <2>6. EncodedString(c) = puthead(128, 183, Len(c)) \o c
    BY <2>5 DEF EncodedString, IsByte
  <2> QED
    BY <1>2, <2>2, <2>3, <2>4, <2>5, <2>6 DEF IsValue
<1>3. CASE r.k = "list" /\ Header(b, 192, 247, r.tagsize, r.contentsize)
  <2>2. /\ Content(b, r) \in Seq(Byte) /\ Len(Content(b, r)) = r.contentsize
        /\ Front(b, r) = puthead(192, 247, r.contentsize) \o Content(b, r)
    <3>1. PICK ts : ts = r.tagsize
      OBVIOUS
    <3>2. PICK cs : cs = r.contentsize
      OBVIOUS
    <3>3. PICK a : a = 192
      OBVIOUS
    <3>4. PICK g : g = 247
      OBVIOUS
    <3>5. Header(b, a, g, ts, cs)
      BY <1>3, <3>1, <3>2, <3>3, <3>4
    <3>6. /\ SubSeq(b, ts + 1, ts + cs) \in Seq(Byte) /\ Len(SubSeq(b, ts + 1, ts + cs)) = cs
          /\ SubSeq(b, 1, ts + cs) = puthead(a, g, cs) \o SubSeq(b, ts + 1, ts + cs)
      BY <3>5, CutHeader, SMTT(80)
    <3> QED
      BY <3>1, <3>2, <3>3, <3>4, <3>6 DEF Front, Content, End
  <2>3. PICK c \in Seq(Byte) : c = Content(b, r)
    BY <2>2
  <2>4. Fits(c)
    BY <1>3, <2>2, <2>3 DEF Fits, Header
  <2>5. EncodedList(c) = puthead(192, 247, Len(c)) \o c
    BY DEF EncodedList
  <2> QED
    BY <1>3, <2>2, <2>3, <2>4, <2>5 DEF IsValue
<1> QED
  BY <1>1, <1>2, <1>3, KindCases

(* A value is a header and its content; the value that is its own content  *)
(* has an empty header.                                                    *)
HasParts(v, k, h, c) ==
  /\ c \in Seq(Byte) /\ v = h \o c /\ Len(h) + Len(c) > 0
  /\ Len(h) = IF k = "byte" THEN 0 ELSE headsize(Len(c))
  /\ k = "byte" => Len(c) = 1

LEMMA ValueParts ==
  ASSUME NEW v, NEW k, NEW c, IsValue(v, k, c)
  PROVE  \E h \in Seq(Byte) : HasParts(v, k, h, c)
<1>1. c \in Seq(Byte) /\ Fits(c)
  BY DEF IsValue
<1>2. PICK l \in Nat : l = Len(c) /\ intsize[l] <= 8
  BY <1>1 DEF Fits
<1>3. \A a, g : a \in 0..192 /\ g \in 0..247 =>
        puthead(a, g, l) \in Seq(Byte) /\ Len(puthead(a, g, l)) = headsize(l) /\ headsize(l) \in Nat \ {0}
  <2>1. intsize[l] \in Nat
    BY IntsizeType
  <2>2. headsize(l) \in Nat \ {0}
    BY <2>1 DEF headsize
  <2> QED
    BY <1>2, <2>2, PutheadBytes
<1>4. CASE k = "list" /\ v = EncodedList(c)
  <2>1. 192 \in 0..192 /\ 247 \in 0..247
    OBVIOUS
  <2>2. PICK h \in Seq(Byte) : h = puthead(192, 247, l) /\ Len(h) = headsize(l)
    BY <1>3, <2>1
  <2>3. v = h \o c
    BY <1>2, <1>4, <2>2 DEF EncodedList
  <2>4. headsize(l) + l > 0
    BY <1>3, <2>1
  <2>5. HasParts(v, k, h, c)
    BY <1>1, <1>2, <1>4, <2>2, <2>3, <2>4 DEF HasParts
  <2> QED
    BY <2>5
<1>5. CASE k = "byte" /\ IsByte(c) /\ v = EncodedString(c)
  <2>1. v = c /\ Len(c) = 1
    BY <1>5 DEF EncodedString, IsByte
  <2>2. <<>> \in Seq(Byte) /\ Len(<<>>) = 0 /\ <<>> \o c = c
    BY <1>1, ConcatEmptySeq, EmptySeq
  <2>3. PICK h \in Seq(Byte) : h = <<>> /\ Len(h) = 0 /\ h \o c = c
    BY <2>2
  <2>4. v = h \o c
    BY <2>1, <2>3
  <2>5. HasParts(v, k, h, c)
    BY <1>1, <1>5, <2>1, <2>3, <2>4 DEF HasParts
  <2> QED
    BY <2>5
<1>6. CASE k = "string" /\ ~IsByte(c) /\ v = EncodedString(c)
  <2>1. 128 \in 0..192 /\ 183 \in 0..247
    OBVIOUS
  <2>2. PICK h \in Seq(Byte) : h = puthead(128, 183, l) /\ Len(h) = headsize(l)
    BY <1>3, <2>1
  <2>3. v = h \o c
    BY <1>2, <1>6, <2>2 DEF EncodedString, IsByte
  <2>4. headsize(l) + l > 0
    BY <1>3, <2>1
  <2>5. HasParts(v, k, h, c)
    BY <1>1, <1>2, <1>6, <2>2, <2>3, <2>4 DEF HasParts
  <2> QED
    BY <2>5
<1> QED
  BY <1>4, <1>5, <1>6 DEF IsValue

LEMMA ValueType ==
  ASSUME NEW v, NEW k, NEW c, IsValue(v, k, c)
  PROVE  v \in Seq(Byte) /\ v # <<>> /\ Len(v) > 0
<1>0. PICK h \in Seq(Byte) : HasParts(v, k, h, c)
  BY ValueParts
<1>1. c \in Seq(Byte) /\ v = h \o c /\ Len(h) + Len(c) > 0
  BY <1>0 DEF HasParts
<1>2. h \o c \in Seq(Byte) /\ Len(h \o c) = Len(h) + Len(c)
  BY <1>1, ConcatProperties
<1>3. v \in Seq(Byte) /\ Len(v) > 0
  BY <1>1, <1>2
<1> QED
  BY <1>3

(* The kind of an encoding, and the sizes of its parts, are read again.    *)
LEMMA ValueKind ==
  ASSUME NEW v, NEW k, NEW c, IsValue(v, k, c), NEW rest \in Seq(Byte), NEW b, Joined(b, v, rest)
  PROVE  readKind(b) = IF k = "byte" THEN Known("byte", 0, 1) ELSE Known(k, headsize(Len(c)), Len(c))
<1>1. c \in Seq(Byte) /\ Fits(c)
  BY DEF IsValue
<1>2. CASE k = "list" /\ v = EncodedList(c)
  <2>1. Joined(b, EncodedList(c), rest)
    BY <1>2
  <2> QED
    BY <1>1, <1>2, <2>1, ListKind
<1>3. CASE k = "byte" /\ IsByte(c) /\ v = EncodedString(c)
  <2>1. Joined(b, EncodedString(c), rest)
    BY <1>3
  <2> QED
    BY <1>1, <1>3, <2>1, ByteKind
<1>4. CASE k = "string" /\ ~IsByte(c) /\ v = EncodedString(c)
  <2>1. Joined(b, EncodedString(c), rest)
    BY <1>4
  <2> QED
    BY <1>1, <1>4, <2>1, StringKind
<1> QED
  BY <1>2, <1>3, <1>4 DEF IsValue

LEMMA ValueRead ==
  ASSUME NEW v, NEW k, NEW c, IsValue(v, k, c), NEW rest \in Seq(Byte), NEW b, Joined(b, v, rest),
         NEW r, r = readKind(b)
  PROVE  /\ r.err = Nil /\ r.k = k
         /\ Front(b, r) = v /\ Content(b, r) = c /\ Behind(b, r) = rest
<1>0. PICK h \in Seq(Byte) : HasParts(v, k, h, c)
  BY ValueParts
<1>1. /\ c \in Seq(Byte) /\ v = h \o c
      /\ Len(h) = IF k = "byte" THEN 0 ELSE headsize(Len(c))
      /\ k = "byte" => Len(c) = 1
  BY <1>0 DEF HasParts
<1>2. readKind(b) = IF k = "byte" THEN Known("byte", 0, 1) ELSE Known(k, headsize(Len(c)), Len(c))
  BY ValueKind
<1>3. r.err = Nil /\ r.k = k /\ r.tagsize = Len(h) /\ r.contentsize = Len(c)
  BY <1>1, <1>2 DEF Known
<1>4. b = h \o c \o rest
  BY <1>1 DEF Joined
<1>5. /\ SubSeq(b, 1, Len(h) + Len(c)) = h \o c
      /\ SubSeq(b, Len(h) + 1, Len(h) + Len(c)) = c
      /\ SubSeq(b, Len(h) + Len(c) + 1, Len(b)) = rest
  <2>1. c \in Seq(Byte)
    BY <1>1
  <2> QED
    BY <1>4, <2>1, Parts
<1> QED
  BY <1>1, <1>3, <1>5 DEF Front, Content, Behind, End

(* What is read and what is behind it are all of b.                        *)
LEMMA FrontAndBehind ==
  ASSUME NEW b \in Seq(Byte), NEW r, r = readKind(b)
  PROVE  /\ Front(b, r) \in Seq(Byte) /\ Behind(b, r) \in Seq(Byte)
         /\ b = Front(b, r) \o Behind(b, r)
         /\ End(r) \in 0..Len(b) /\ Len(Behind(b, r)) = Len(b) - End(r)
         /\ r.err = Nil => End(r) > 0
         /\ r.err # Nil => Front(b, r) = <<>> /\ Behind(b, r) = b /\ r.err \in Errors
<1>1. KindOK(b, r)
  BY KindType
<1>2. Len(b) \in Nat
  OBVIOUS
<1>3. PICK m \in 0..Len(b) : m = End(r)
  BY <1>1, <1>2 DEF KindOK, End
<1>4. /\ SubSeq(b, 1, m) \in Seq(Byte) /\ Len(SubSeq(b, 1, m)) = m
      /\ SubSeq(b, m + 1, Len(b)) \in Seq(Byte) /\ Len(SubSeq(b, m + 1, Len(b))) = Len(b) - m
      /\ b = SubSeq(b, 1, m) \o SubSeq(b, m + 1, Len(b))
  BY CutInTwo
<1>5. Front(b, r) = SubSeq(b, 1, m) /\ Behind(b, r) = SubSeq(b, m + 1, Len(b))
  BY <1>3 DEF Front, Behind
<1>6. r.err = Nil => End(r) > 0
  BY <1>1, <1>2 DEF KindOK, End, Errors, Nil
<1>7. ASSUME r.err # Nil PROVE Front(b, r) = <<>> /\ Behind(b, r) = b /\ r.err \in Errors
  <2>1. End(r) = 0 /\ r.err \in Errors
    BY <1>1, <1>7 DEF KindOK, End
  <2>2. SubSeq(b, 1, 0) = <<>>
    BY SubSeqEmpty
  <2>3. SubSeq(b, 1, Len(b)) = b
    BY SubSeqFull
  <2> QED
    BY <1>2, <2>1, <2>2, <2>3 DEF Front, Behind
<1> QED
  BY <1>3, <1>4, <1>5, <1>6, <1>7

-----------------------------------------------------------------------------
(* Integers.                                                               *)

(* What AppendUint64 appends.                                              *)
IntCode(i) ==
  IF i = 0 THEN <<128>>
  ELSE IF i < 128 THEN <<i>>
  ELSE <<128 + intsize[i]>> \o putint[i]

LEMMA AppendIs == \A b, i : AppendUint64(b, i) = b \o IntCode(i)
BY DEF AppendUint64, IntCode

(* The content of the encoding of i.                                       *)
IntContent(c, i) ==
  /\ c \in Seq(Byte) /\ Len(c) <= 8 /\ BigEndian(c) = i
  /\ ~(Len(c) = 1 /\ c[1] = 0)
  /\ Len(c) > 1 => readSize(c, Len(c)).err = Nil

LEMMA ZeroValue == IsValue(IntCode(0), "string", <<>>) /\ IntContent(<<>>, 0) /\ Len(IntCode(0)) = IntSize(0)
<1>1. PICK c \in Seq(Byte) : c = <<>> /\ Len(c) = 0
  BY EmptySeq
<1>2. PICK z \in Nat : z = 0
  OBVIOUS
<1>3. intsize[z] = 1
  BY <1>2, IntsizeUnfolds
<1>4. Fits(c) /\ ~IsByte(c)
  BY <1>1, <1>2, <1>3 DEF Fits, IsByte
<1>5. EncodedString(c) = <<128>>
  <2>1. EncodedString(c) = puthead(128, 183, 0) \o c
    BY <1>1 DEF EncodedString
  <2>2. puthead(128, 183, 0) = <<128>>
    BY DEF puthead
  <2>3. <<128>> \in Seq(Nat)
    OBVIOUS
  <2>4. <<128>> \o <<>> = <<128>>
    BY <2>3, ConcatEmptySeq
  <2> QED
    BY <1>1, <2>1, <2>2, <2>4
<1>6. IntCode(0) = <<128>>
  BY DEF IntCode
<1>7. IsValue(IntCode(0), "string", c)
  BY <1>4, <1>5, <1>6 DEF IsValue
<1>8. BigEndian(c) = 0
  <2>1. \A j \in 1..8 : ByteAt(c, j) = 0
    BY <1>1 DEF ByteAt
  <2> QED
    BY <2>1, BigEndianIs
<1>9. IntContent(c, 0)
  BY <1>1, <1>8 DEF IntContent
<1>10. Len(IntCode(0)) = IntSize(0)
  BY <1>6 DEF IntSize
<1> QED
  BY <1>1, <1>7, <1>9, <1>10

LEMMA OneByteValue ==
  ASSUME NEW i \in 1..127
  PROVE  IsValue(IntCode(i), "byte", <<i>>) /\ IntContent(<<i>>, i) /\ Len(IntCode(i)) = IntSize(i)
<1>1. PICK c : c = <<i>>
  OBVIOUS
<1>2. c \in Seq(Byte) /\ Len(c) = 1 /\ c[1] = i
  BY <1>1 DEF Byte
<1>3. IsByte(c)
  BY <1>2 DEF IsByte
<1>4. Fits(c)
  <2>1. intsize[1] = 1
    BY IntsizeUnfolds
  <2> QED
    BY <1>2, <2>1 DEF Fits
<1>5. IntCode(i) = c /\ EncodedString(c) = c
  BY <1>1, <1>3 DEF IntCode, EncodedString, IsByte
<1>6. BigEndian(c) = i
  BY <1>1, BigEndianOfOne
<1>7. IsValue(IntCode(i), "byte", c)
  BY <1>2, <1>3, <1>4, <1>5 DEF IsValue
<1>8. IntContent(c, i)
  BY <1>2, <1>6 DEF IntContent
<1>9. Len(IntCode(i)) = IntSize(i)
  BY <1>2, <1>5 DEF IntSize
<1> QED
  BY <1>1, <1>7, <1>8, <1>9

LEMMA MoreBytesValue ==
  ASSUME NEW i \in Nat, i >= 128, intsize[i] <= 8
  PROVE  /\ IsValue(IntCode(i), "string", putint[i]) /\ IntContent(putint[i], i)
         /\ Len(IntCode(i)) = IntSize(i)
<1>1. PICK c \in Seq(Byte) : c = putint[i] /\ Len(c) = intsize[i]
  BY PutintType
<1>2. PICK w \in 1..8 : w = intsize[i]
  BY IntsizeShort
<1>3. Len(c) = w
  BY <1>1, <1>2
<1>4. i < 256 => c = <<i>> /\ c[1] = i /\ ~(c[1] < 128)
  <2>1. SUFFICES ASSUME i < 256 PROVE c = <<i>> /\ c[1] = i /\ ~(c[1] < 128)
    OBVIOUS
  <2>2. putint[i] = <<i>>
    BY <2>1, PutintUnfolds
  <2>3. <<i>>[1] = i /\ ~(i < 128)
    OBVIOUS
  <2> QED
    BY <1>1, <2>2, <2>3
<1>5. i >= 256 => w > 1
  <2>1. SUFFICES ASSUME i >= 256 PROVE w > 1
    OBVIOUS
  <2>2. intsize[i] = 1 + intsize[i \div 256]
    BY <2>1, IntsizeUnfolds
  <2>3. intsize[i \div 256] \in Nat \ {0}
    BY <2>1, Quotient, IntsizeType
  <2> QED
    BY <1>2, <2>2, <2>3
<1>6. ~IsByte(c)
  BY <1>3, <1>4, <1>5 DEF IsByte
<1>7. Fits(c)
  <2>1. intsize[w] = 1
    BY IntsizeUnfolds
  <2> QED
    BY <1>3, <2>1 DEF Fits
<1>8. EncodedString(c) = IntCode(i)
  <2>1. EncodedString(c) = puthead(128, 183, w) \o c
    BY <1>3, <1>6 DEF EncodedString, IsByte
  <2>2. puthead(128, 183, w) = <<128 + w>>
    BY DEF puthead
  <2>3. i # 0 /\ ~(i < 128)
    OBVIOUS
  <2>4. IntCode(i) = <<128 + intsize[i]>> \o putint[i]
    BY <2>3 DEF IntCode
  <2> QED
    BY <1>1, <1>2, <2>1, <2>2, <2>4, Zenon
<1>9. IsValue(IntCode(i), "string", c)
  BY <1>6, <1>7, <1>8 DEF IsValue
<1>10. BigEndian(c) = i
  BY <1>1, PutintValue
<1>11. w > 1 => readSize(c, w).err = Nil
  <2>1. SUFFICES ASSUME w > 1 PROVE readSize(c, w).err = Nil
    OBVIOUS
  <2>2. i >= 56
    OBVIOUS
  <2>3. PICK e \in Seq(Byte) : e = <<>>
    BY EmptySeq
  <2>4. Joined(c, putint[i], e)
    BY <1>1, <2>3, ConcatEmptySeq DEF Joined
  <2>5. readSize(c, intsize[i]) = [size |-> i, err |-> Nil]
    BY <2>2, <2>4, SizeRead
  <2> QED
    BY <1>2, <2>5
<1>12. ~(w = 1 /\ c[1] = 0)
  BY <1>4, <1>5
<1>13. IntContent(c, i)
  BY <1>3, <1>10, <1>11, <1>12 DEF IntContent
<1>14. Len(IntCode(i)) = IntSize(i)
  <2>1. PICK x \in Byte : x = 128 + w
    BY DEF Byte
  <2>2. <<x>> \in Seq(Byte) /\ Len(<<x>>) = 1
    OBVIOUS
  <2>3. Len(<<x>> \o c) = 1 + w
    BY <1>3, <2>2, ConcatProperties
  <2>4. IntCode(i) = <<x>> \o c
    BY <1>1, <1>2, <2>1 DEF IntCode
  <2>5. IntSize(i) = 1 + w
    BY <1>2 DEF IntSize
  <2> QED
    BY <2>3, <2>4, <2>5
<1> QED
  BY <1>1, <1>9, <1>13, <1>14

LEMMA IntValue ==
  ASSUME NEW i \in Nat, intsize[i] <= 8
  PROVE  /\ \E k \in {"byte", "string"}, c \in Seq(Byte) : IsValue(IntCode(i), k, c) /\ IntContent(c, i)
         /\ Len(IntCode(i)) = IntSize(i)
<1>1. CASE i = 0
  <2>1. <<>> \in Seq(Byte)
    BY EmptySeq
  <2> QED
    BY <1>1, <2>1, ZeroValue
<1>2. CASE i \in 1..127
  BY <1>2, OneByteValue DEF IntContent
<1>3. CASE i >= 128
  BY <1>3, MoreBytesValue DEF IntContent
<1> QED
  BY <1>1, <1>2, <1>3

(* SplitUint64 gets the integer back that AppendUint64 wrote.              *)
LEMMA IntRead ==
  ASSUME NEW i \in Nat, intsize[i] <= 8
  PROVE  SplitUint64(IntCode(i)).err = Nil /\ SplitUint64(IntCode(i)).x = i
<1>1. PICK k \in {"byte", "string"} : \E c \in Seq(Byte) : IsValue(IntCode(i), k, c) /\ IntContent(c, i)
  BY IntValue
<1>2. PICK c \in Seq(Byte) : IsValue(IntCode(i), k, c) /\ IntContent(c, i)
  BY <1>1
<1>3. PICK v \in Seq(Byte) : v = IntCode(i)
  BY <1>2, ValueType
<1>4. PICK e \in Seq(Byte) : e = <<>>
  BY EmptySeq
<1>5. Joined(v, v, e)
  BY <1>4, ConcatEmptySeq DEF Joined
<1>6. PICK r : r = readKind(v)
  OBVIOUS
<1>7. r.err = Nil /\ r.k = k /\ Content(v, r) = c
  BY <1>2, <1>3, <1>5, <1>6, ValueRead
<1>8. Split(v) = [k |-> k, content |-> c, rest |-> Behind(v, r), err |-> Nil]
  BY <1>6, <1>7 DEF Split, Taken, Content, Behind, End
<1>9. SplitString(v) = [content |-> c, rest |-> Behind(v, r), err |-> Nil]
  BY <1>8 DEF SplitString, OfKind
<1>10. SplitUint64(v) = [x |-> i, rest |-> Behind(v, r), err |-> Nil]
  <2>1. /\ Len(c) <= 8 /\ BigEndian(c) = i /\ ~(Len(c) = 1 /\ c[1] = 0)
        /\ Len(c) > 1 => readSize(c, Len(c)).err = Nil
    BY <1>2 DEF IntContent
  <2>2. ~(Len(c) > 8)
    BY <2>1
  <2> QED
    BY <1>9, <2>1, <2>2 DEF SplitUint64, Uint64In
<1> QED
  BY <1>3, <1>10

-----------------------------------------------------------------------------
(* Counting values.                                                        *)

(* What readKind says of the last i bytes of b.                            *)
KindOfLast(b, i) == readKind(SubSeq(b, Len(b) - i + 1, Len(b)))

CountOf(i, r, more) ==
  IF i = 0 THEN [n |-> 0, err |-> Nil]
  ELSE IF r.err # Nil THEN [n |-> 0, err |-> r.err]
  ELSE OneMore(more)

Counts == [n : Nat, err : Errors \cup {Nil}]

LEMMA LastType ==
  ASSUME NEW b \in Seq(Byte), NEW i \in 0..Len(b), NEW r, r = KindOfLast(b, i)
  PROVE  \/ r.err \in Errors
         \/ r.err = Nil /\ End(r) \in 1..i /\ i - End(r) \in 0..(i - 1)
<1>1. PICK m \in 0..Len(b) : m = Len(b) - i
  <2>1. Len(b) \in Nat
    OBVIOUS
  <2> QED
    BY <2>1, SMTT(80)
<1>2. PICK d \in Seq(Byte) : d = SubSeq(b, Len(b) - i + 1, Len(b)) /\ Len(d) = i
  <2>1. SubSeq(b, m + 1, Len(b)) \in Seq(Byte) /\ Len(SubSeq(b, m + 1, Len(b))) = Len(b) - m
    BY CutInTwo
  <2>2. Len(b) - m = i
    BY <1>1
  <2> QED
    BY <1>1, <2>1, <2>2
<1>3. KindOK(d, r)
  BY <1>2, KindType DEF KindOfLast
<1> QED
  BY <1>2, <1>3 DEF KindOK, End

LEMMA OneMoreType == ASSUME NEW c \in Counts PROVE OneMore(c) \in Counts
BY DEF OneMore, Counts

LEMMA CountedUnfolds ==
  ASSUME NEW b \in Seq(Byte), NEW i \in 0..Len(b)
  PROVE  counted(b)[i] = CountOf(i, KindOfLast(b, i), counted(b)[i - End(KindOfLast(b, i))])
<1> DEFINE E(count) ==
             count = [j \in 0..Len(b) |->
                        LET r == readKind(SubSeq(b, Len(b) - j + 1, Len(b)))
                        IN  IF j = 0 THEN [n |-> 0, err |-> Nil]
                            ELSE IF r.err # Nil THEN [n |-> 0, err |-> r.err]
                            ELSE OneMore(count[j - (r.tagsize + r.contentsize)])]
           R == [j \in Nat |-> KindOfLast(b, j)]
           stop == {j \in Nat : j = 0 \/ j > Len(b) \/ R[j].err # Nil}
           base == [j \in Nat |-> CountOf(j, R[j], [n |-> 0, err |-> Nil])]
           smaller == [j \in Nat |-> j - End(R[j])]
           step == [j \in Nat |-> [c \in Counts |-> OneMore(c)]]
<1>1. Len(b) \in Nat
  OBVIOUS
<1>2. \A j \in Nat : j \notin stop => smaller[j] \in 0..(j - 1)
  <2>1. SUFFICES ASSUME NEW j \in Nat, j \notin stop PROVE j - End(R[j]) \in 0..(j - 1)
    OBVIOUS
  <2>2. j \in 0..Len(b) /\ R[j].err = Nil /\ R[j] = KindOfLast(b, j)
    BY <1>1, <2>1
  <2>3. R[j].err \notin Errors
    BY <2>2 DEF Errors, Nil
  <2> QED
    BY <2>2, <2>3, LastType
<1>3. PICK g : Recursive(base, step, stop, smaller, Len(b), g)
  <2> HIDE DEF R, base, step, stop, smaller
  <2>1. Down(stop, smaller)
    BY <1>2 DEF Down
  <2> QED
    BY <1>1, <2>1, RecursiveExist
<1>4. \A j \in 0..Len(b) : g[j] = IF j \in stop THEN base[j] ELSE step[j][g[smaller[j]]]
  <2> HIDE DEF R, base, step, stop, smaller
  <2> QED
    BY <1>3 DEF Recursive
<1>5. ASSUME NEW j \in 0..Len(b)
      PROVE  /\ j \in stop => base[j] = CountOf(j, KindOfLast(b, j), g[j - End(KindOfLast(b, j))]) /\ base[j] \in Counts
             /\ j \notin stop => /\ smaller[j] \in 0..(j - 1) /\ smaller[j] = j - End(KindOfLast(b, j))
                                 /\ CountOf(j, KindOfLast(b, j), g[smaller[j]]) = OneMore(g[smaller[j]])
  <2>1. R[j] = KindOfLast(b, j) /\ j \in Nat /\ ~(j > Len(b))
    BY <1>1
  <2>2. CASE j \in stop
    <3>1. j = 0 \/ R[j].err # Nil
      BY <2>1, <2>2
    <3>2. R[j].err \in Errors \/ R[j].err = Nil
      BY <2>1, LastType
    <3>3. base[j] = CountOf(j, R[j], [n |-> 0, err |-> Nil])
      BY <2>1
    <3> HIDE DEF R, stop, base
    <3> QED
      BY <2>1, <2>2, <3>1, <3>2, <3>3 DEF CountOf, Counts
  <2>3. CASE j \notin stop
    <3>1. ~(j = 0) /\ R[j].err = Nil
      BY <2>1, <2>3
    <3>2. smaller[j] = j - End(R[j])
      BY <2>1
    <3>3. smaller[j] \in 0..(j - 1)
      BY <1>2, <2>1, <2>3
    <3> HIDE DEF R, stop, base, smaller
    <3> QED
      BY <2>1, <2>3, <3>1, <3>2, <3>3 DEF CountOf
  <2> QED
    BY <2>2, <2>3
<1>6. \A c \in Counts, j \in Nat : step[j][c] = OneMore(c)
  OBVIOUS
<1> HIDE DEF R, stop, base, smaller, step
<1>7. \A j \in 0..Len(b) : g[j] \in Counts
  <2> DEFINE A == {j \in Nat : j <= Len(b) => g[j] \in Counts}
  <2>1. ASSUME NEW j \in Nat, \A k \in 0..(j - 1) : k \in A PROVE j \in A
    <3>1. SUFFICES ASSUME j <= Len(b) PROVE g[j] \in Counts
      OBVIOUS
    <3>2. j \in 0..Len(b)
      BY <1>1, <3>1
    <3>3. CASE j \in stop
      BY <1>4, <1>5, <3>2, <3>3
    <3>4. CASE j \notin stop
      <4>1. PICK k \in 0..(j - 1) : k = smaller[j]
        BY <1>5, <3>2, <3>4
      <4>2. k \in A /\ k <= Len(b)
        BY <1>1, <2>1, <3>1
      <4>3. g[k] \in Counts
        BY <4>2
      <4>4. step[j][g[k]] = OneMore(g[k])
        BY <1>6, <4>3
      <4> QED
        BY <1>4, <3>2, <3>4, <4>1, <4>3, <4>4, OneMoreType
    <3> QED
      BY <3>3, <3>4
  <2>2. Nat \subseteq A
    <3> HIDE DEF A
    <3> QED
      BY <2>1, SetInduction
  <2> QED
    BY <1>1, <2>2
<1>8. \A j \in 0..Len(b) : g[j] = CountOf(j, KindOfLast(b, j), g[j - End(KindOfLast(b, j))])
  <2>1. SUFFICES ASSUME NEW j \in 0..Len(b)
                 PROVE  g[j] = CountOf(j, KindOfLast(b, j), g[j - End(KindOfLast(b, j))])
    OBVIOUS
  <2>2. CASE j \in stop
    BY <1>4, <1>5, <2>2
  <2>3. CASE j \notin stop
    <3>1. PICK k \in 0..(j - 1) : k = smaller[j]
      BY <1>5, <2>3
    <3>2. k \in 0..Len(b) /\ j \in Nat
      BY <1>1
    <3>3. step[j][g[k]] = OneMore(g[k])
      BY <1>6, <1>7, <3>2
    <3>4. g[j] = step[j][g[k]]
      BY <1>4, <2>3, <3>1
    <3>5. k = j - End(KindOfLast(b, j)) /\ CountOf(j, KindOfLast(b, j), g[k]) = OneMore(g[k])
      BY <1>5, <2>3, <3>1
    <3> QED
      BY <3>3, <3>4, <3>5
  <2> QED
    BY <2>2, <2>3
<1>9. \A count : E(count) <=>
        /\ count = [j \in 0..Len(b) |-> count[j]]
        /\ \A j \in 0..Len(b) : count[j] = CountOf(j, KindOfLast(b, j), count[j - End(KindOfLast(b, j))])
  <2>1. TAKE count
  <2>2. PICK C : C = [j \in 0..Len(b) |-> CountOf(j, KindOfLast(b, j), count[j - End(KindOfLast(b, j))])]
    OBVIOUS
  <2>3. E(count) <=> count = C
    BY <2>2 DEF CountOf, KindOfLast, End
  <2>4. \A j \in 0..Len(b) : C[j] = CountOf(j, KindOfLast(b, j), count[j - End(KindOfLast(b, j))])
    BY <2>2
  <2>5. C = [j \in 0..Len(b) |-> C[j]]
    BY <2>2
  <2> HIDE DEF E
  <2> QED
    BY <2>3, <2>4, <2>5
<1>10. E(g)
  <2> HIDE DEF E
  <2>1. g = [j \in 0..Len(b) |-> g[j]]
    BY <1>3 DEF Recursive
  <2> QED
    BY <1>8, <1>9, <2>1
<1>11. counted(b) = CHOOSE count : E(count)
  BY DEF counted
<1>12. E(counted(b))
  <2> HIDE DEF E
  <2> QED
    BY <1>10, <1>11
<1> QED
  <2> HIDE DEF E
  <2> QED
    BY <1>9, <1>12

LEMMA CountedType ==
  ASSUME NEW b \in Seq(Byte)
  PROVE  \A i \in 0..Len(b) : counted(b)[i] \in Counts
<1> DEFINE A == {i \in Nat : i <= Len(b) => counted(b)[i] \in Counts}
<1>1. ASSUME NEW i \in Nat, \A j \in 0..(i - 1) : j \in A PROVE i \in A
  <2>1. SUFFICES ASSUME i <= Len(b) PROVE counted(b)[i] \in Counts
    OBVIOUS
  <2>2. i \in 0..Len(b)
    BY <2>1
  <2>3. PICK r : r = KindOfLast(b, i)
    OBVIOUS
  <2>4. counted(b)[i] = CountOf(i, r, counted(b)[i - End(r)])
    BY <2>2, <2>3, CountedUnfolds
  <2>5. CASE i = 0
    BY <2>4, <2>5 DEF CountOf, Counts
  <2>6. CASE r.err \in Errors
    <3>1. r.err # Nil
      BY <2>6 DEF Errors, Nil
    <3> QED
      BY <2>4, <2>5, <2>6, <3>1 DEF CountOf, Counts
  <2>7. CASE i # 0 /\ r.err = Nil /\ i - End(r) \in 0..(i - 1)
    <3>1. PICK k \in 0..(i - 1) : k = i - End(r)
      BY <2>7
    <3>2. k \in A /\ k <= Len(b)
      BY <1>1, <2>1
    <3>3. counted(b)[k] \in Counts
      BY <3>2
    <3>4. counted(b)[i] = OneMore(counted(b)[k])
      BY <2>4, <2>7, <3>1 DEF CountOf
    <3> QED
      BY <3>3, <3>4, OneMoreType
  <2> QED
    BY <2>2, <2>3, <2>5, <2>6, <2>7, LastType
<1>2. Nat \subseteq A
  <2> HIDE DEF A
  <2> QED
    BY <1>1, SetInduction
<1> QED
  BY <1>2

(* k values before what c counts.                                          *)
Adds(k, c) == IF c.err = Nil THEN [n |-> k + c.n, err |-> Nil] ELSE c

LEMMA AddsNone == ASSUME NEW c \in Counts PROVE Adds(0, c) = c
BY DEF Adds, Counts

LEMMA AddsOne == ASSUME NEW c \in Counts, NEW k \in Nat PROVE Adds(k, OneMore(c)) = Adds(k + 1, c)
BY DEF Adds, OneMore, Counts

(* d is the end of b.                                                      *)
LEMMA CountedAtEnd ==
  ASSUME NEW t \in Seq(Byte), NEW d \in Seq(Byte), NEW b, Joined(b, t, d), NEW r, r = readKind(d)
  PROVE  /\ b \in Seq(Byte) /\ Len(d) \in 0..Len(b)
         /\ counted(b)[Len(d)] = CountOf(Len(d), r, counted(b)[Len(d) - End(r)])
<1>1. /\ b \in Seq(Byte) /\ Len(b) = Len(t) + Len(d)
      /\ SubSeq(b, Len(t) + 1, Len(b)) = d
  BY JoinedIs
<1>2. Len(d) \in 0..Len(b) /\ Len(b) - Len(d) + 1 = Len(t) + 1
  BY <1>1
<1>3. KindOfLast(b, Len(d)) = r
  BY <1>1, <1>2 DEF KindOfLast
<1>4. PICK l \in 0..Len(b) : l = Len(d)
  BY <1>2
<1>5. counted(b)[l] = CountOf(l, KindOfLast(b, l), counted(b)[l - End(KindOfLast(b, l))])
  BY <1>1, CountedUnfolds
<1> QED
  BY <1>1, <1>3, <1>4, <1>5

-----------------------------------------------------------------------------
(* The iterator.                                                           *)

(* The iterator has yielded k values of the content c, the bytes tk, and   *)
(* has the bytes d left and the error e.                                   *)
Progress(c, tk, d, k, e) ==
  /\ Joined(c, tk, d)
  /\ CountValues(c) = Adds(k, counted(c)[Len(d)])
  /\ e # Nil => d # <<>> /\ readKind(d).err = e

LEMMA ProgressStarts == ASSUME NEW c \in Seq(Byte) PROVE Progress(c, <<>>, c, 0, Nil)
<1>1. Joined(c, <<>>, c)
  BY ConcatEmptySeq DEF Joined
<1>2. Len(c) \in 0..Len(c)
  OBVIOUS
<1>3. Adds(0, counted(c)[Len(c)]) = counted(c)[Len(c)]
  BY <1>2, CountedType, AddsNone
<1> QED
  BY <1>1, <1>3 DEF Progress, CountValues

LEMMA ProgressMoves ==
  ASSUME NEW c, NEW tk \in Seq(Byte), NEW d \in Seq(Byte), NEW k \in Nat, NEW e, Progress(c, tk, d, k, e),
         d # <<>>, NEW r, r = readKind(d), r.err = Nil
  PROVE  Progress(c, tk \o Front(d, r), Behind(d, r), k + 1, Nil)
<1>1. Joined(c, tk, d) /\ CountValues(c) = Adds(k, counted(c)[Len(d)])
  BY DEF Progress
<1>2. PICK f \in Seq(Byte) : f = Front(d, r)
  BY FrontAndBehind
<1>3. PICK t \in Seq(Byte) : t = Behind(d, r)
  BY FrontAndBehind
<1>4. d = f \o t /\ End(r) \in 0..Len(d) /\ End(r) > 0 /\ Len(t) = Len(d) - End(r)
  BY <1>2, <1>3, FrontAndBehind
<1>5. Joined(c, tk \o f, t)
  <2>1. tk \o f \o t = tk \o (f \o t)
    BY BytesAssociative
  <2> QED
    BY <1>1, <1>4, <2>1 DEF Joined
<1>6. /\ c \in Seq(Byte) /\ Len(d) \in 0..Len(c)
      /\ counted(c)[Len(d)] = CountOf(Len(d), r, counted(c)[Len(d) - End(r)])
  BY <1>1, CountedAtEnd
<1>7. counted(c)[Len(d)] = OneMore(counted(c)[Len(t)])
  <2>1. Len(d) # 0
    OBVIOUS
  <2> QED
    BY <1>4, <1>6, <2>1 DEF CountOf
<1>8. Len(t) \in 0..Len(c)
  <2>1. PICK m \in 0..Len(d) : m = End(r) /\ Len(t) = Len(d) - m
    BY <1>4
  <2>2. Len(c) \in Nat /\ Len(d) \in 0..Len(c)
    BY <1>6
  <2> QED
    BY <2>1, <2>2
<1>9. counted(c)[Len(t)] \in Counts
  BY <1>6, <1>8, CountedType
<1>10. CountValues(c) = Adds(k + 1, counted(c)[Len(t)])
  BY <1>1, <1>7, <1>9, AddsOne
<1> QED
  BY <1>2, <1>3, <1>5, <1>10 DEF Progress

LEMMA ProgressFails ==
  ASSUME NEW c, NEW tk, NEW d \in Seq(Byte), NEW k, NEW e, Progress(c, tk, d, k, e),
         d # <<>>, NEW r, r = readKind(d), r.err # Nil
  PROVE  Progress(c, tk, Behind(d, r), k, r.err)
<1>1. Behind(d, r) = d
  BY FrontAndBehind
<1> QED
  BY <1>1 DEF Progress

LEMMA ProgressCounts ==
  ASSUME NEW c, NEW tk \in Seq(Byte), NEW d \in Seq(Byte), NEW k \in Nat, NEW e, Progress(c, tk, d, k, e),
         d = <<>> \/ e # Nil
  PROVE  CountValues(c) = IF e = Nil THEN [n |-> k, err |-> Nil] ELSE [n |-> 0, err |-> e]
<1>1. /\ Joined(c, tk, d) /\ CountValues(c) = Adds(k, counted(c)[Len(d)])
      /\ e # Nil => d # <<>> /\ readKind(d).err = e
  BY DEF Progress
<1>2. PICK r : r = readKind(d)
  OBVIOUS
<1>3. counted(c)[Len(d)] = CountOf(Len(d), r, counted(c)[Len(d) - End(r)])
  BY <1>1, <1>2, CountedAtEnd
<1>4. CASE e = Nil
  <2>1. Len(d) = 0
    BY <1>4
  <2> QED
    BY <1>1, <1>3, <1>4, <2>1 DEF CountOf, Adds
<1>5. CASE e # Nil
  <2>1. Len(d) # 0 /\ r.err = e
    BY <1>1, <1>2, <1>5
  <2> QED
    BY <1>1, <1>3, <1>5, <2>1 DEF CountOf, Adds
<1> QED
  BY <1>4, <1>5

(* A list opens with its content; what opens is a list.                    *)
LEMMA OpensWithContent ==
  ASSUME NEW b \in Seq(Byte), NewListIterator(b).err = Nil
  PROVE  /\ NewListIterator(b) = [data |-> SplitList(b).content, next |-> <<>>, err |-> Nil]
         /\ SplitList(b).content \in Seq(Byte)
<1>1. PICK r : r = readKind(b)
  OBVIOUS
<1>2. r.err = Nil /\ r.k = "list"
  BY <1>1 DEF NewListIterator, Nil
<1>3. NewListIterator(b) = [data |-> Content(b, r), next |-> <<>>, err |-> Nil]
  BY <1>1, <1>2 DEF NewListIterator, Content, End
<1>4. SplitList(b).content = Content(b, r)
  BY <1>1, <1>2 DEF SplitList, Split, Taken, OfKind, Content, End
<1>5. Content(b, r) \in Seq(Byte)
  BY <1>1, <1>2, FrontIsValue DEF IsValue
<1> QED
  BY <1>3, <1>4, <1>5

LEMMA ListOpens ==
  ASSUME NEW c \in Seq(Byte), Fits(c), NEW b, b = EncodedList(c)
  PROVE  b \in Seq(Byte) /\ NewListIterator(b).err = Nil /\ SplitList(b).content = c
<1>1. IsValue(b, "list", c)
  BY DEF IsValue
<1>2. b \in Seq(Byte)
  BY <1>1, ValueType
<1>3. PICK e \in Seq(Byte) : e = <<>>
  BY EmptySeq
<1>4. Joined(b, b, e)
  BY <1>2, <1>3, ConcatEmptySeq DEF Joined
<1>5. PICK r : r = readKind(b)
  OBVIOUS
<1>6. r.err = Nil /\ r.k = "list" /\ Content(b, r) = c
  BY <1>1, <1>4, <1>5, ValueRead
<1>7. NewListIterator(b).err = Nil
  BY <1>5, <1>6 DEF NewListIterator
<1>8. SplitList(b).content = c
  BY <1>5, <1>6 DEF SplitList, Split, Taken, OfKind, Content, End
<1> QED
  BY <1>2, <1>7, <1>8

LEMMA NextIs ==
  ASSUME NEW i
  PROVE  IteratorNext(i) = [data |-> Behind(i.data, readKind(i.data)), next |-> Front(i.data, readKind(i.data)),
                            err |-> readKind(i.data).err]
BY DEF IteratorNext, Behind, Front, End

LEMMA Uint64Type == ASSUME NEW b \in Seq(Byte) PROVE SplitUint64(b).x \in Nat
<1>1. PICK r : r = readKind(b)
  OBVIOUS
<1>2. PICK s : s = SplitString(b)
  OBVIOUS
<1>3. CASE s.err # Nil
  BY <1>2, <1>3 DEF SplitUint64, Uint64In
<1>4. CASE s.err = Nil
  <2>1. r.err = Nil /\ s.content = Content(b, r)
    BY <1>1, <1>2, <1>4 DEF SplitString, Split, Taken, OfKind, Content, End, Nil
  <2>2. PICK c \in Seq(Byte) : c = s.content
    BY <1>1, <2>1, FrontIsValue DEF IsValue
  <2>3. BigEndian(c) \in Nat
    BY BigEndianType
  <2> QED
    BY <1>2, <1>4, <2>2, <2>3 DEF SplitUint64, Uint64In
<1> QED
  BY <1>3, <1>4

-----------------------------------------------------------------------------
(* What CallAppendUint64 has written.                                      *)

(* p[j] is what the first j integers of w are written as.                  *)
Codes(p, w) ==
  /\ p \in [0..Len(w) -> Seq(Byte)] /\ p[0] = <<>>
  /\ \A j \in 1..Len(w) : w[j] \in Nat /\ intsize[w[j]] <= 8 /\ p[j] = p[j - 1] \o IntCode(w[j])

(* k integers of w were taken from their encoding c, which are the bytes   *)
(* tk.                                                                     *)
Prefix(p, w, c, tk, k) == Codes(p, w) /\ c = p[Len(w)] /\ k \in 0..Len(w) /\ tk = p[k]

LEMMA CodeType ==
  ASSUME NEW i \in Nat, intsize[i] <= 8
  PROVE  IntCode(i) \in Seq(Byte) /\ IntCode(i) # <<>> /\ Len(IntCode(i)) = IntSize(i)
<1>1. PICK k \in {"byte", "string"} : \E c \in Seq(Byte) : IsValue(IntCode(i), k, c) /\ IntContent(c, i)
  BY IntValue
<1>2. PICK c \in Seq(Byte) : IsValue(IntCode(i), k, c)
  BY <1>1
<1> QED
  BY <1>2, ValueType, IntValue

LEMMA CodesStart == ASSUME NEW w, Len(w) = 0 PROVE \E p : Codes(p, w) /\ p[0] = <<>>
<1>1. PICK p : p = [j \in 0..0 |-> <<>>]
  OBVIOUS
<1>2. p \in [0..0 -> Seq(Byte)] /\ p[0] = <<>>
  BY <1>1, EmptySeq
<1>3. 1..0 = {}
  OBVIOUS
<1>4. Codes(p, w)
  BY <1>2, <1>3 DEF Codes
<1> QED
  BY <1>2, <1>4

LEMMA CodesGrow ==
  ASSUME NEW S, NEW w \in Seq(S), NEW p, Codes(p, w), NEW i \in Nat, i \in S, intsize[i] <= 8
  PROVE  \E q : Codes(q, Append(w, i)) /\ q[Len(Append(w, i))] = p[Len(w)] \o IntCode(i)
<1>1. PICK l \in Nat : l = Len(w)
  OBVIOUS
<1>2. /\ p \in [0..l -> Seq(Byte)] /\ p[0] = <<>>
      /\ \A j \in 1..l : w[j] \in Nat /\ intsize[w[j]] <= 8 /\ p[j] = p[j - 1] \o IntCode(w[j])
  BY <1>1 DEF Codes
<1>3. PICK v : v = Append(w, i)
  OBVIOUS
<1>4. Len(v) = l + 1 /\ v[l + 1] = i /\ \A j \in 1..l : v[j] = w[j]
  BY <1>1, <1>3, AppendElements
<1>5. PICK z \in Seq(Byte) : z = p[l] \o IntCode(i)
  <2>1. p[l] \in Seq(Byte) /\ IntCode(i) \in Seq(Byte)
    BY <1>2, CodeType
  <2>2. p[l] \o IntCode(i) \in Seq(Byte)
    BY <2>1, ConcatProperties
  <2> QED
    BY <2>2
<1>6. PICK q : q = [j \in 0..(l + 1) |-> IF j <= l THEN p[j] ELSE z]
  OBVIOUS
<1>7. q \in [0..(l + 1) -> Seq(Byte)]
  <2>1. ASSUME NEW j \in 0..(l + 1) PROVE (IF j <= l THEN p[j] ELSE z) \in Seq(Byte)
    <3>1. j <= l => j \in 0..l
      OBVIOUS
    <3> QED
      BY <1>2, <3>1
  <2> QED
    BY <1>6, <2>1
<1>8. q[l + 1] = z /\ \A j \in 0..l : q[j] = p[j]
  <2>1. l + 1 \in 0..(l + 1) /\ ~(l + 1 <= l) /\ \A j \in 0..l : j \in 0..(l + 1) /\ j <= l
    OBVIOUS
  <2> QED
    BY <1>6, <2>1
<1>9. ASSUME NEW j \in 1..(l + 1) PROVE v[j] \in Nat /\ intsize[v[j]] <= 8 /\ q[j] = q[j - 1] \o IntCode(v[j])
  <2>1. CASE j = l + 1
    <3>1. l \in 0..l /\ j - 1 = l
      BY <2>1
    <3> QED
      BY <1>4, <1>5, <1>8, <2>1, <3>1
  <2>2. CASE j # l + 1
    <3>1. j \in 1..l /\ j \in 0..l /\ j - 1 \in 0..l
      BY <2>2
    <3> QED
      BY <1>2, <1>4, <1>8, <3>1
  <2> QED
    BY <2>1, <2>2
<1>10. q[0] = <<>>
  <2>1. 0 \in 0..l
    OBVIOUS
  <2> QED
    BY <1>2, <1>8, <2>1
<1>11. Codes(q, v)
  BY <1>4, <1>7, <1>9, <1>10 DEF Codes
<1> QED
  BY <1>1, <1>3, <1>4, <1>5, <1>8, <1>11

(* What is written stays at the front.                                     *)
LEMMA CodesPrefix ==
  ASSUME NEW w, Len(w) \in Nat, NEW p, Codes(p, w), NEW j \in 0..Len(w)
  PROVE  \E more \in Seq(Byte) : p[Len(w)] = p[j] \o more
<1>1. PICK l \in Nat : l = Len(w)
  OBVIOUS
<1>2. /\ p \in [0..l -> Seq(Byte)]
      /\ \A i \in 1..l : w[i] \in Nat /\ intsize[w[i]] <= 8 /\ p[i] = p[i - 1] \o IntCode(w[i])
  BY <1>1 DEF Codes
<1>3. j \in 0..l /\ j \in Nat
  BY <1>1
<1> DEFINE A == {m \in Nat : j + m <= l => \E more \in Seq(Byte) : p[j + m] = p[j] \o more}
<1>4. ASSUME NEW m \in Nat, \A i \in 0..(m - 1) : i \in A PROVE m \in A
  <2>1. SUFFICES ASSUME j + m <= l PROVE \E more \in Seq(Byte) : p[j + m] = p[j] \o more
    OBVIOUS
  <2>2. CASE m = 0
    <3>1. p[j] \in Seq(Byte) /\ j + m = j
      BY <1>2, <1>3, <2>2
    <3>2. <<>> \in Seq(Byte) /\ p[j] \o <<>> = p[j]
      BY <3>1, EmptySeq, ConcatEmptySeq
    <3> QED
      BY <3>1, <3>2
  <2>3. CASE m # 0
    <3>1. m - 1 \in 0..(m - 1) /\ j + (m - 1) <= l /\ j + m \in 1..l /\ (j + m) - 1 = j + (m - 1)
      BY <1>3, <2>1, <2>3
    <3>2. PICK more \in Seq(Byte) : p[j + (m - 1)] = p[j] \o more
      BY <1>4, <3>1
    <3>3. PICK x : x = w[j + m]
      OBVIOUS
    <3>4. p[j + m] = p[j] \o more \o IntCode(x) /\ x \in Nat /\ intsize[x] <= 8
      BY <1>2, <3>1, <3>2, <3>3
    <3>5. PICK y \in Seq(Byte) : y = IntCode(x)
      BY <3>4, CodeType
    <3>6. PICK u \in Seq(Byte) : u = p[j]
      BY <1>2, <1>3
    <3>7. u \o more \o y = u \o (more \o y) /\ more \o y \in Seq(Byte)
      BY BytesAssociative, ConcatProperties
    <3>8. p[j + m] = p[j] \o (more \o y)
      BY <3>4, <3>5, <3>6, <3>7
    <3> QED
      BY <3>7, <3>8
  <2> QED
    BY <2>2, <2>3
<1>5. Nat \subseteq A
  <2> HIDE DEF A
  <2> QED
    BY <1>4, SetInduction
<1>6. PICK m \in Nat : m = l - j /\ j + m = l /\ j + m <= l
  BY <1>1, <1>3
<1>7. m \in A
  BY <1>5
<1> QED
  BY <1>1, <1>6, <1>7

(* The next integer is at the front of what is left, until all are taken.  *)
LEMMA CodesAhead ==
  ASSUME NEW w, Len(w) \in Nat, NEW p, NEW c, NEW tk, NEW k, Prefix(p, w, c, tk, k), k # Len(w),
         NEW d \in Seq(Byte), Joined(c, tk, d)
  PROVE  /\ w[k + 1] \in Nat /\ intsize[w[k + 1]] <= 8
         /\ \E more \in Seq(Byte) : Joined(d, IntCode(w[k + 1]), more)
         /\ Prefix(p, w, c, tk \o IntCode(w[k + 1]), k + 1)
<1>1. Codes(p, w) /\ c = p[Len(w)] /\ k \in 0..Len(w) /\ tk = p[k]
  BY DEF Prefix
<1>2. PICK m \in 1..Len(w) : m = k + 1 /\ m - 1 = k /\ m \in 0..Len(w)
  BY <1>1
<1>3. PICK x : x = w[m]
  OBVIOUS
<1>4. x \in Nat /\ intsize[x] <= 8 /\ p[m] = p[k] \o IntCode(x) /\ p[k] \in Seq(Byte)
  BY <1>1, <1>2, <1>3 DEF Codes
<1>5. PICK more \in Seq(Byte) : p[Len(w)] = p[m] \o more
  BY <1>1, <1>2, CodesPrefix, ZenonT(80)
<1>6. PICK y \in Seq(Byte) : y = IntCode(x)
  BY <1>4, CodeType
<1>7. PICK u \in Seq(Byte) : u = tk
  BY <1>1, <1>4
<1>8. PICK z \in Seq(Byte) : z = y \o more
  <2>1. y \o more \in Seq(Byte)
    BY ConcatProperties
  <2> QED
    BY <2>1
<1>9. u \o z = u \o d
  <2>1. c = u \o y \o more
    BY <1>1, <1>4, <1>5, <1>6, <1>7
  <2>2. u \o y \o more = u \o (y \o more)
    BY BytesAssociative, ZenonT(80)
  <2>3. c = u \o d
    BY <1>7 DEF Joined
  <2> QED
    BY <1>8, <2>1, <2>2, <2>3
<1>10. z = d
  <2>1. SubSeq(u \o z, Len(u) + 1, Len(u \o z)) = z
    BY CutConcat
  <2>2. SubSeq(u \o d, Len(u) + 1, Len(u \o d)) = d
    BY CutConcat
  <2> QED
    BY <1>9, <2>1, <2>2
<1>11. Joined(d, IntCode(w[k + 1]), more)
  BY <1>2, <1>3, <1>6, <1>8, <1>10 DEF Joined
<1>12. Prefix(p, w, c, tk \o IntCode(w[k + 1]), k + 1)
  BY <1>1, <1>2, <1>3, <1>4 DEF Prefix
<1> QED
  BY <1>2, <1>3, <1>4, <1>11, <1>12

LEMMA AllTaken ==
  ASSUME NEW w, Len(w) \in Nat, NEW p, NEW c, NEW tk, NEW k, Prefix(p, w, c, tk, k), Joined(c, tk, <<>>)
  PROVE  k = Len(w)
<1>1. SUFFICES ASSUME k # Len(w) PROVE FALSE
  OBVIOUS
<1>2. PICK d \in Seq(Byte) : d = <<>>
  BY EmptySeq
<1>3. PICK x : x = w[k + 1]
  OBVIOUS
<1>4. Joined(c, tk, d)
  BY <1>2
<1>5. x \in Nat /\ intsize[x] <= 8 /\ \E more \in Seq(Byte) : Joined(d, IntCode(x), more)
  BY <1>1, <1>3, <1>4, CodesAhead
<1>6. PICK more \in Seq(Byte) : Joined(d, IntCode(x), more)
  BY <1>5
<1>7. PICK y \in Seq(Byte) : y = IntCode(x) /\ y # <<>>
  BY <1>5, CodeType
<1>8. Len(y \o more) = Len(y) + Len(more) /\ Len(y) > 0
  BY <1>7, ConcatProperties
<1>9. d = y \o more
  BY <1>6, <1>7 DEF Joined
<1> QED
  BY <1>2, <1>8, <1>9, SMTT(80)

LEMMA NextTaken ==
  ASSUME NEW w, Len(w) \in Nat, NEW p, NEW c, NEW tk \in Seq(Byte), NEW k, Prefix(p, w, c, tk, k),
         NEW d \in Seq(Byte), Joined(c, tk, d), d # <<>>, NEW r, r = readKind(d)
  PROVE  /\ k \in 0..(Len(w) - 1) /\ r.err = Nil
         /\ SplitUint64(Front(d, r)).err = Nil /\ SplitUint64(Front(d, r)).x = w[k + 1]
         /\ Prefix(p, w, c, tk \o Front(d, r), k + 1)
<1>1. k # Len(w) /\ k \in 0..Len(w)
  <2>1. SUFFICES ASSUME k = Len(w) PROVE FALSE
    BY DEF Prefix
  <2>2. tk = c /\ c = tk \o d
    BY <2>1 DEF Prefix, Joined
  <2>3. Len(tk \o d) = Len(tk) + Len(d) /\ Len(d) > 0 /\ Len(tk) \in Nat
    BY ConcatProperties
  <2> QED
    BY <2>2, <2>3
<1>2. PICK x : x = w[k + 1]
  OBVIOUS
<1>3. /\ x \in Nat /\ intsize[x] <= 8
      /\ \E more \in Seq(Byte) : Joined(d, IntCode(x), more)
      /\ Prefix(p, w, c, tk \o IntCode(x), k + 1)
  BY <1>1, <1>2, CodesAhead
<1>4. PICK more \in Seq(Byte) : Joined(d, IntCode(x), more)
  BY <1>3
<1>5. PICK kd \in {"byte", "string"} : \E f \in Seq(Byte) : IsValue(IntCode(x), kd, f) /\ IntContent(f, x)
  BY <1>3, IntValue
<1>6. PICK f \in Seq(Byte) : IsValue(IntCode(x), kd, f)
  BY <1>5
<1>7. r.err = Nil /\ Front(d, r) = IntCode(x)
  BY <1>4, <1>6, ValueRead
<1>8. SplitUint64(IntCode(x)).err = Nil /\ SplitUint64(IntCode(x)).x = x
  BY <1>3, IntRead
<1> QED
  BY <1>1, <1>2, <1>3, <1>7, <1>8

-----------------------------------------------------------------------------
(* The client.                                                             *)

Types ==
  /\ at \in {"writing", "open", "next", "ended", "failed"}
  /\ own \in BOOLEAN /\ asks \in BOOLEAN
  /\ data \in Seq(Byte)
  /\ written \in Seq(Ints)
  /\ it.data \in Seq(Byte) /\ it.next \in Seq(Byte)
  /\ it.err \in Errors \cup {Nil}
  /\ taken \in Seq(Byte)
  /\ n \in Nat
  /\ read \in Seq(Nat)

ListContent == SplitList(data).content

Moving == Iterating => ListContent \in Seq(Byte) /\ Progress(ListContent, taken, it.data, n, it.err)

Starting == ~Iterating => n = 0 /\ taken = <<>> /\ it.err = Nil

LastIsValue ==
  n > 0 /\ it.err = Nil => \E k \in {"byte", "string", "list"}, c \in Seq(Byte) : IsValue(it.next, k, c)

(* The client has written these integers, opened the list of them, and     *)
(* taken the first n of them.                                              *)
Writing == \E p : Codes(p, written) /\ data = p[Len(written)]
Opening == \E p : Codes(p, written) /\ Fits(p[Len(written)]) /\ data = EncodedList(p[Len(written)])
Taking == \E p : Prefix(p, written, ListContent, taken, n)

Integers ==
  own => /\ at # "failed" /\ it.err = Nil
         /\ at = "writing" => Writing
         /\ at = "open" => Opening
         /\ Iterating => Taking
         /\ at = "ended" => n = Len(written)
         /\ read = SubSeq(written, 1, n) /\ n <= Len(written)

Inv == Types /\ Moving /\ Starting /\ LastIsValue /\ Integers

LEMMA IntsAre == ASSUME NEW i \in Ints PROVE i \in Nat /\ intsize[i] <= 8
BY RawAssumption

LEMMA InitInv == Init => Inv
<1> SUFFICES ASSUME Init PROVE Inv
  OBVIOUS
<1>1. PICK e \in Seq(Byte) : e = <<>>
  BY EmptySeq
<1>2. <<>> \in Seq(Ints) /\ <<>> \in Seq(Nat)
  BY EmptySeq
<1>3. data \in Seq(Byte)
  BY <1>1, RawAssumption DEF Init, Byte
<1>4. Types
  BY <1>1, <1>2, <1>3 DEF Init, Types, NoIterator
<1>5. Moving /\ Starting /\ LastIsValue
  BY DEF Init, Moving, Starting, LastIsValue, Iterating, NoIterator
<1>6. Integers
  <2>1. SUFFICES ASSUME own PROVE Integers
    BY DEF Integers
  <2>2. at = "writing" /\ data = <<>> /\ written = <<>> /\ Len(written) = 0 /\ n = 0 /\ read = <<>> /\ it.err = Nil
    BY <2>1 DEF Init, NoIterator
  <2>3. Writing
    BY <2>2, CodesStart DEF Writing
  <2>4. SubSeq(written, 1, 0) = <<>>
    BY SubSeqEmpty
  <2> QED
    BY <2>2, <2>3, <2>4 DEF Integers, Iterating
<1> QED
  BY <1>4, <1>5, <1>6 DEF Inv

LEMMA WritesOne ==
  ASSUME Inv, NEW i \in Ints, CallAppendUint64(i)
  PROVE  Inv' /\ Len(data') = Len(data) + IntSize(i)
<1>1. i \in Nat /\ intsize[i] <= 8
  BY IntsAre
<1>2. PICK y \in Seq(Byte) : y = IntCode(i) /\ Len(y) = IntSize(i)
  BY <1>1, CodeType
<1>3. /\ at = "writing" /\ data' = data \o y /\ written' = Append(written, i)
      /\ UNCHANGED <<at, own, asks, it, taken, n, read>>
  BY <1>2, AppendIs DEF CallAppendUint64
<1>4. data \in Seq(Byte) /\ written \in Seq(Ints)
  BY DEF Inv, Types
<1>5. data \o y \in Seq(Byte) /\ Len(data \o y) = Len(data) + Len(y)
  BY <1>4, ConcatProperties
<1>6. /\ Append(written, i) \in Seq(Ints) /\ Len(Append(written, i)) = Len(written) + 1
      /\ \A k \in 1..Len(written) : Append(written, i)[k] = written[k]
  BY <1>4, AppendElements
<1>7. Types'
  BY <1>3, <1>5, <1>6 DEF Inv, Types
<1>8. Moving' /\ Starting'
  BY <1>3 DEF Inv, Starting, Moving, Iterating
<1>9. LastIsValue'
  BY <1>3 DEF Inv, LastIsValue
<1>10. Integers'
  <2>1. CASE ~own
    BY <1>3, <2>1 DEF Integers
  <2>2. CASE own
    <3>1. Writing /\ n = 0 /\ it.err = Nil /\ read = SubSeq(written, 1, n)
      BY <1>3, <2>2 DEF Inv, Integers, Starting, Iterating
    <3>2. PICK p : Codes(p, written) /\ data = p[Len(written)]
      BY <3>1 DEF Writing
    <3>3. PICK q : Codes(q, Append(written, i)) /\ q[Len(Append(written, i))] = p[Len(written)] \o IntCode(i)
      BY <1>1, <1>4, <3>2, CodesGrow
    <3>4. Writing'
      BY <1>2, <1>3, <3>2, <3>3 DEF Writing
    <3>5. SubSeq(written, 1, 0) = <<>> /\ SubSeq(written', 1, 0) = <<>>
      BY SubSeqEmpty
    <3>6. 0 <= Len(written')
      BY <1>3, <1>4, <1>6
    <3> QED
      BY <1>3, <3>1, <3>4, <3>5, <3>6 DEF Integers, Iterating
  <2> QED
    BY <2>1, <2>2 DEF Inv, Types
<1> QED
  BY <1>2, <1>3, <1>5, <1>7, <1>8, <1>9, <1>10 DEF Inv

LEMMA Wraps ==
  ASSUME Inv, Wrap
  PROVE  Inv' /\ Len(data') = ListSize(Len(data))
<1>1. /\ at = "writing" /\ at' = "open" /\ data' = EncodedList(data) /\ Fits(data)
      /\ UNCHANGED <<own, asks, written, it, taken, n, read>>
  BY DEF Wrap, Fits
<1>2. data \in Seq(Byte)
  BY DEF Inv, Types
<1>3. IsValue(EncodedList(data), "list", data)
  BY <1>1, <1>2 DEF IsValue
<1>4. EncodedList(data) \in Seq(Byte)
  BY <1>3, ValueType
<1>5. Len(EncodedList(data)) = ListSize(Len(data))
  <2>1. PICK h \in Seq(Byte) : HasParts(EncodedList(data), "list", h, data)
    BY <1>3, ValueParts
  <2>2. EncodedList(data) = h \o data /\ Len(h) = headsize(Len(data))
    BY <2>1 DEF HasParts
  <2>3. Len(h \o data) = Len(h) + Len(data)
    BY <1>2, ConcatProperties
  <2> QED
    BY <2>2, <2>3 DEF ListSize
<1>6. Types'
  BY <1>1, <1>4 DEF Inv, Types
<1>7. Moving' /\ Starting'
  BY <1>1 DEF Inv, Starting, Moving, Iterating
<1>8. LastIsValue'
  BY <1>1 DEF Inv, LastIsValue
<1>9. Integers'
  <2>1. CASE ~own
    BY <1>1, <2>1 DEF Integers
  <2>2. CASE own
    <3>1. Writing /\ it.err = Nil /\ read = SubSeq(written, 1, n) /\ n <= Len(written)
      BY <1>1, <2>2 DEF Inv, Integers
    <3>2. Opening'
      BY <1>1, <3>1 DEF Writing, Opening
    <3> QED
      BY <1>1, <3>1, <3>2 DEF Integers, Iterating
  <2> QED
    BY <2>1, <2>2 DEF Inv, Types
<1> QED
  BY <1>1, <1>5, <1>6, <1>7, <1>8, <1>9 DEF Inv

LEMMA Opens == ASSUME Inv, CallNewListIterator PROVE Inv'
<1>1. PICK new : new = NewListIterator(data)
  OBVIOUS
<1>2. /\ at = "open" /\ UNCHANGED <<own, asks, data, written, taken, n, read>>
      /\ \/ new.err = Nil /\ it' = new /\ at' = "next"
         \/ new.err # Nil /\ it' = it /\ at' = "failed"
  BY <1>1 DEF CallNewListIterator
<1>3. data \in Seq(Byte) /\ n = 0 /\ taken = <<>> /\ it.err = Nil
  BY <1>2 DEF Inv, Types, Starting, Iterating
<1>4. PICK c : c = ListContent
  OBVIOUS
<1>5. new.err = Nil => new = [data |-> c, next |-> <<>>, err |-> Nil] /\ c \in Seq(Byte)
  BY <1>1, <1>3, <1>4, OpensWithContent DEF ListContent
<1>6. ListContent' = c
  BY <1>2, <1>4 DEF ListContent
<1>7. <<>> \in Seq(Byte)
  BY EmptySeq
<1>8. Types'
  <2>1. it'.data \in Seq(Byte) /\ it'.next \in Seq(Byte) /\ it'.err \in Errors \cup {Nil}
    <3>1. CASE new.err = Nil
      <4>1. PICK e \in Seq(Byte) : e = <<>>
        BY <1>7
      <4>2. it' = [data |-> c, next |-> e, err |-> Nil] /\ c \in Seq(Byte)
        BY <1>2, <1>5, <3>1, <4>1
      <4>3. it'.data = c /\ it'.next = e /\ it'.err = Nil
        BY <4>2
      <4> QED
        BY <4>2, <4>3
    <3>2. CASE new.err # Nil
      BY <1>2, <3>2 DEF Inv, Types
    <3> QED
      BY <3>1, <3>2
  <2> QED
    BY <1>2, <2>1 DEF Inv, Types
<1>9. Moving'
  <2>1. CASE new.err = Nil
    BY <1>2, <1>3, <1>5, <1>6, <2>1, ProgressStarts DEF Moving
  <2>2. CASE new.err # Nil
    BY <1>2, <2>2 DEF Moving, Iterating
  <2> QED
    BY <2>1, <2>2
<1>10. Starting' /\ LastIsValue'
  BY <1>2, <1>3 DEF Starting, LastIsValue, Iterating
<1>11. Integers'
  <2>1. CASE ~own
    BY <1>2, <2>1 DEF Integers
  <2>2. CASE own
    <3>1. Opening /\ read = SubSeq(written, 1, n) /\ n <= Len(written)
      BY <1>2, <2>2 DEF Inv, Integers
    <3>2. PICK p : Codes(p, written) /\ Fits(p[Len(written)]) /\ data = EncodedList(p[Len(written)])
      BY <3>1 DEF Opening
    <3>3. written \in Seq(Ints) /\ Len(written) \in Nat
      BY DEF Inv, Types
    <3>4. p[Len(written)] \in Seq(Byte) /\ p[0] = <<>> /\ 0 \in 0..Len(written)
      BY <3>2, <3>3 DEF Codes
    <3>5. new.err = Nil /\ c = p[Len(written)]
      BY <1>1, <1>4, <3>2, <3>4, ListOpens DEF ListContent
    <3>6. Prefix(p, written, c, taken, n)
      BY <1>3, <3>2, <3>4, <3>5 DEF Prefix
    <3>7. Taking'
      BY <1>2, <1>6, <3>6 DEF Taking
    <3> QED
      BY <1>2, <1>5, <3>1, <3>5, <3>7 DEF Integers
  <2> QED
    BY <2>1, <2>2 DEF Inv, Types
<1> QED
  BY <1>8, <1>9, <1>10, <1>11 DEF Inv

LEMMA Takes == ASSUME Inv, CallNext PROVE Inv'
<1>1. PICK d \in Seq(Byte) : d = it.data
  BY DEF Inv, Types
<1>2. PICK r : r = readKind(d)
  OBVIOUS
<1>3. PICK v \in Seq(Byte) : v = Front(d, r)
  BY <1>2, FrontAndBehind
<1>4. PICK u : u = SplitUint64(v)
  OBVIOUS
<1>5. IteratorNext(it) = [data |-> Behind(d, r), next |-> v, err |-> r.err]
  BY <1>1, <1>2, <1>3, NextIs
<1>6. /\ at = "next" /\ d # <<>> /\ it' = [data |-> Behind(d, r), next |-> v, err |-> r.err]
      /\ UNCHANGED <<at, own, asks, data, written>>
      /\ \/ /\ r.err = Nil /\ taken' = taken \o v /\ n' = n + 1
            /\ read' = IF u.err = Nil THEN Append(read, u.x) ELSE read
         \/ r.err # Nil /\ UNCHANGED <<taken, n, read>>
  BY <1>1, <1>4, <1>5 DEF CallNext, TakeValue
<1>7. PICK c : c = ListContent
  OBVIOUS
<1>8. /\ c \in Seq(Byte) /\ Progress(c, taken, d, n, it.err)
      /\ taken \in Seq(Byte) /\ n \in Nat /\ read \in Seq(Nat)
  BY <1>1, <1>6, <1>7 DEF Inv, Types, Moving, Iterating
<1>9. Behind(d, r) \in Seq(Byte) /\ (r.err # Nil => r.err \in Errors)
  BY <1>2, FrontAndBehind
<1>10. ListContent' = c
  BY <1>6, <1>7 DEF ListContent
<1>11. Types'
  <2>1. taken \o v \in Seq(Byte)
    BY <1>8, ConcatProperties
  <2>2. u.x \in Nat
    BY <1>4, Uint64Type
  <2>3. Append(read, u.x) \in Seq(Nat)
    BY <1>8, <2>2, AppendElements
  <2>4. taken' \in Seq(Byte) /\ n' \in Nat /\ read' \in Seq(Nat)
    <3>1. CASE taken' = taken \o v /\ n' = n + 1 /\ read' = IF u.err = Nil THEN Append(read, u.x) ELSE read
      BY <1>8, <2>1, <2>3, <3>1
    <3>2. CASE UNCHANGED <<taken, n, read>>
      BY <1>8, <3>2
    <3> QED
      BY <1>6, <3>1, <3>2
  <2>5. it'.data \in Seq(Byte) /\ it'.next \in Seq(Byte) /\ it'.err \in Errors \cup {Nil}
    BY <1>6, <1>9
  <2> QED
    BY <1>6, <2>4, <2>5 DEF Inv, Types
<1>12. Moving'
  <2>1. CASE r.err = Nil
    <3>1. Progress(c, taken \o v, Behind(d, r), n + 1, Nil)
      BY <1>2, <1>3, <1>6, <1>8, <2>1, ProgressMoves
    <3> QED
      BY <1>6, <1>8, <1>10, <2>1, <3>1 DEF Moving
  <2>2. CASE r.err # Nil
    <3>1. Progress(c, taken, Behind(d, r), n, r.err)
      BY <1>2, <1>6, <1>8, <2>2, ProgressFails
    <3> QED
      BY <1>6, <1>8, <1>10, <2>2, <3>1 DEF Moving
  <2> QED
    BY <2>1, <2>2
<1>13. Starting'
  BY <1>6 DEF Starting, Iterating
<1>14. LastIsValue'
  <2>1. SUFFICES ASSUME r.err = Nil
                 PROVE  \E k \in {"byte", "string", "list"}, f \in Seq(Byte) : IsValue(v, k, f)
    BY <1>6 DEF LastIsValue
  <2>2. IsValue(v, r.k, Content(d, r))
    BY <1>2, <1>3, <2>1, FrontIsValue
  <2>3. r.k \in {"byte", "string", "list"} /\ Content(d, r) \in Seq(Byte)
    BY <2>2 DEF IsValue
  <2> QED
    BY <2>2, <2>3
<1>15. Integers'
  <2>1. CASE ~own
    BY <1>6, <2>1 DEF Integers
  <2>2. CASE own
    <3>1. Taking /\ read = SubSeq(written, 1, n)
      BY <1>6, <2>2 DEF Inv, Integers, Iterating
    <3>2. PICK p : Prefix(p, written, c, taken, n)
      BY <1>7, <3>1 DEF Taking
    <3>3. written \in Seq(Ints) /\ Len(written) \in Nat
      BY DEF Inv, Types
    <3>4. Joined(c, taken, d)
      BY <1>8 DEF Progress
    <3>5. /\ n \in 0..(Len(written) - 1) /\ r.err = Nil
          /\ u.err = Nil /\ u.x = written[n + 1]
          /\ Prefix(p, written, c, taken \o v, n + 1)
      <4>1. taken \in Seq(Byte) /\ d # <<>>
        BY <1>6, <1>8
      <4>2. /\ n \in 0..(Len(written) - 1) /\ r.err = Nil
            /\ SplitUint64(Front(d, r)).err = Nil /\ SplitUint64(Front(d, r)).x = written[n + 1]
            /\ Prefix(p, written, c, taken \o Front(d, r), n + 1)
        BY <1>2, <3>2, <3>3, <3>4, <4>1, NextTaken
      <4> QED
        BY <1>3, <1>4, <4>2
    <3>6. Append(SubSeq(written, 1, n), written[n + 1]) = SubSeq(written, 1, n + 1)
      <4>1. PICK m \in 1..Len(written) : m = n + 1 /\ m - 1 = n
        BY <3>3, <3>5
      <4>2. 1 \in 1..m
        OBVIOUS
      <4> QED
        BY <3>3, <4>1, <4>2, SubSeqRecursiveSecond
    <3>7. read' = SubSeq(written, 1, n + 1) /\ n' = n + 1 /\ taken' = taken \o v
      BY <1>6, <3>1, <3>5, <3>6
    <3>8. Taking'
      BY <1>6, <1>10, <3>5, <3>7 DEF Taking
    <3>9. n' <= Len(written)
      BY <3>3, <3>5, <3>7
    <3> QED
      BY <1>6, <3>5, <3>7, <3>8, <3>9 DEF Integers
  <2> QED
    BY <2>1, <2>2 DEF Inv, Types
<1> QED
  BY <1>11, <1>12, <1>13, <1>14, <1>15 DEF Inv

LEMMA Ends == ASSUME Inv, EndLoop PROVE Inv'
<1>1. /\ at = "next" /\ at' = "ended" /\ (it.data = <<>> \/ it.err # Nil)
      /\ UNCHANGED <<own, asks, data, written, it, taken, n, read>>
  BY DEF EndLoop
<1>2. ListContent' = ListContent
  BY <1>1 DEF ListContent
<1>3. Types'
  BY <1>1 DEF Inv, Types
<1>4. Moving' /\ Starting' /\ LastIsValue'
  BY <1>1, <1>2 DEF Inv, Moving, Starting, LastIsValue, Iterating
<1>5. Integers'
  <2>1. CASE ~own
    BY <1>1, <2>1 DEF Integers
  <2>2. CASE own
    <3>1. Taking /\ it.err = Nil /\ it.data = <<>> /\ read = SubSeq(written, 1, n) /\ n <= Len(written)
      BY <1>1, <2>2 DEF Inv, Integers, Iterating
    <3>2. PICK p : Prefix(p, written, ListContent, taken, n)
      BY <3>1 DEF Taking
    <3>3. written \in Seq(Ints) /\ Len(written) \in Nat
      BY DEF Inv, Types
    <3>4. Joined(ListContent, taken, <<>>)
      BY <1>1, <3>1 DEF Inv, Moving, Iterating, Progress
    <3>5. n = Len(written)
      BY <3>2, <3>3, <3>4, AllTaken
    <3>6. Taking'
      BY <1>1, <1>2, <3>1 DEF Taking
    <3> QED
      BY <1>1, <3>1, <3>5, <3>6 DEF Integers
  <2> QED
    BY <2>1, <2>2 DEF Inv, Types
<1> QED
  BY <1>3, <1>4, <1>5 DEF Inv

LEMMA StepInv == Inv /\ [Next]_vars => Inv'
<1>1. ASSUME Inv, UNCHANGED vars PROVE Inv'
  <2>1. ListContent' = ListContent
    BY <1>1 DEF vars, ListContent
  <2>2. Types' /\ Starting' /\ LastIsValue'
    BY <1>1 DEF Inv, vars, Types, Starting, LastIsValue, Iterating
  <2>3. Moving'
    BY <1>1, <2>1 DEF Inv, vars, Moving, Iterating
  <2>4. Integers'
    BY <1>1, <2>1 DEF Inv, vars, Integers, Writing, Opening, Taking, Iterating
  <2> QED
    BY <2>2, <2>3, <2>4 DEF Inv
<1> QED
  BY <1>1, WritesOne, Wraps, Opens, Takes, Ends DEF Next, Reading

LEMMA Invariant == Spec => []Inv
<1> QED
  BY InitInv, StepInv, PTL DEF Spec

(* The slices that the functions of raw.go return are bytes, and they fail *)
(* with no other errors than those of readKind.                            *)
THEOREM TypeCorrect == Spec => []TypeOK
<1>1. Inv => TypeOK
  BY DEF Inv, Types, TypeOK, Errors, Byte
<1> QED
  BY <1>1, Invariant, PTL

(* Next of the list iterator passes over no byte of the content and yields *)
(* none twice, whatever the content is.                                    *)
THEOREM IteratorIsComplete == Spec => []NothingLost
<1>1. Inv => NothingLost
  BY DEF Inv, Moving, Progress, Joined, ListContent, NothingLost
<1> QED
  BY <1>1, Invariant, PTL

(* CountValues and the list iterator agree on the number of values, and on *)
(* the error where there is one.                                           *)
THEOREM CountAgrees == Spec => []CountExact
<1>1. Inv => CountExact
  <2>1. SUFFICES ASSUME Inv, Iterating, it.data = <<>> \/ it.err # Nil
                 PROVE  CountValues(ListContent) =
                          IF it.err = Nil THEN [n |-> n, err |-> Nil] ELSE [n |-> 0, err |-> it.err]
    BY DEF CountExact, ListContent
  <2>2. /\ Progress(ListContent, taken, it.data, n, it.err)
        /\ taken \in Seq(Byte) /\ it.data \in Seq(Byte) /\ n \in Nat
    BY <2>1 DEF Inv, Moving, Types
  <2>3. PICK d \in Seq(Byte) : d = it.data
    BY <2>2
  <2>4. PICK e : e = it.err
    OBVIOUS
  <2>5. Progress(ListContent, taken, d, n, e) /\ (d = <<>> \/ e # Nil)
    BY <2>1, <2>2, <2>3, <2>4
  <2>6. CountValues(ListContent) = IF e = Nil THEN [n |-> n, err |-> Nil] ELSE [n |-> 0, err |-> e]
    BY <2>2, <2>5, ProgressCounts
  <2> QED
    BY <2>4, <2>6
<1> QED
  BY <1>1, Invariant, PTL

(* readKind accepts one encoding of each value: what Value returns is what *)
(* the encoder makes of its content, and Split takes all of it.            *)
THEOREM OneEncoding == Spec => []ValueIsEncoding
<1>1. Inv => ValueIsEncoding
  <2>1. SUFFICES ASSUME Inv, n > 0, it.err = Nil
                 PROVE  LET r == Split(it.next)
                        IN  /\ r.err = Nil /\ r.rest = <<>>
                            /\ it.next = IF r.k = "list" THEN EncodedList(r.content) ELSE EncodedString(r.content)
    BY DEF ValueIsEncoding
  <2>2. PICK k \in {"byte", "string", "list"} : \E c \in Seq(Byte) : IsValue(it.next, k, c)
    BY <2>1 DEF Inv, LastIsValue
  <2>3. PICK c \in Seq(Byte) : IsValue(it.next, k, c)
    BY <2>2
  <2>4. PICK v \in Seq(Byte) : v = it.next
    BY <2>1 DEF Inv, Types
  <2>5. PICK e \in Seq(Byte) : e = <<>>
    BY EmptySeq
  <2>6. Joined(v, v, e)
    BY <2>5, ConcatEmptySeq DEF Joined
  <2>7. PICK r : r = readKind(v)
    OBVIOUS
  <2>8. IsValue(v, k, c)
    BY <2>3, <2>4
  <2>9. r.err = Nil /\ r.k = k /\ Content(v, r) = c /\ Behind(v, r) = e
    BY <2>6, <2>7, <2>8, ValueRead
  <2>10. Split(v) = [k |-> k, content |-> c, rest |-> e, err |-> Nil]
    BY <2>7, <2>9 DEF Split, Taken, Content, Behind, End
  <2>11. v = IF k = "list" THEN EncodedList(c) ELSE EncodedString(c)
    BY <2>8 DEF IsValue
  <2> QED
    BY <2>4, <2>5, <2>10, <2>11
<1> QED
  BY <1>1, Invariant, PTL

(* SplitUint64 and the list iterator get back every list of integers that  *)
(* AppendUint64 has written, of 64 bits and of any number.                 *)
THEOREM IntegersRoundTrip == Spec => []IntegersComeBack
<1>1. Inv => IntegersComeBack
  BY DEF Inv, Integers, IntegersComeBack
<1> QED
  BY <1>1, Invariant, PTL

(* IntSize and ListSize announce the bytes that AppendUint64 and the       *)
(* header of a list take.                                                  *)
THEOREM SizesExact == Spec => SizesAsAnnounced
<1> DEFINE A == /\ written' # written => Len(data') = Len(data) + IntSize(written'[Len(written')])
                /\ at = "writing" /\ at' = "open" => Len(data') = ListSize(Len(data))
<1>1. ASSUME Inv, NEW i \in Ints, CallAppendUint64(i) PROVE A
  <2>1. at' = at /\ at = "writing" /\ written' = Append(written, i)
    BY <1>1 DEF CallAppendUint64
  <2>2. written'[Len(written')] = i
    BY <1>1, <2>1, AppendElements DEF Inv, Types
  <2>3. Len(data') = Len(data) + IntSize(i)
    BY <1>1, WritesOne
  <2> QED
    BY <2>1, <2>2, <2>3
<1>2. ASSUME Inv, Wrap PROVE A
  <2>1. written' = written
    BY <1>2 DEF Wrap
  <2> QED
    BY <1>2, <2>1, Wraps
<1>3. ASSUME Reading PROVE A
  BY <1>3 DEF Reading, CallNewListIterator, CallNext, EndLoop
<1>4. Inv /\ [Next]_vars => [A]_vars
  BY <1>1, <1>2, <1>3 DEF Next
<1> QED
  BY <1>4, Invariant, PTL DEF Spec, SizesAsAnnounced
=============================================================================
