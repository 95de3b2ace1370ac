------------------------- MODULE RlpEncoder_proofs -------------------------
(***************************************************************************)
(* Proofs about the RLP encoder, for any number of clients, buffers,       *)
(* strings and sizes of reads: who has which buffer, and that what comes   *)
(* out of one, whole or piece by piece, is the encoding of what was        *)
(* written, and of the announced size.                                     *)
(***************************************************************************)
EXTENDS RlpEncoder, RlpHead_proofs

IInv == TypeOK /\ BufferExclusive

(* A step that gives the buffer of c back leaves the other clients theirs. *)
LEMMA PutKeeps ==
  ASSUME IInv, NEW c \in Clients, NEW what \in {"idle", "done", "failed"},
         at[c] \in Encoding \cup {"copying"}, Put(c, what)
  PROVE  IInv'
<1>1. held[c] \in Buffers
  BY DEF IInv, TypeOK, BufferExclusive, Encoding
<1>2. /\ pool' = pool \cup {held[c]}
      /\ held' = [held EXCEPT ![c] = NoBuf]
      /\ at' = [at EXCEPT ![c] = what]
  BY DEF Put
<1>3. TypeOK'
  BY <1>1, <1>2 DEF IInv, TypeOK, Encoding
<1>4. BufferExclusive'
  <2>1. held'[c] \notin pool'
    BY <1>1, <1>2, EncoderAssumption DEF IInv, TypeOK, BufferExclusive, NoBuf
  <2>2. ASSUME NEW d \in Clients, d # c
        PROVE  held'[d] = held[d] /\ held'[d] \notin pool'
    BY <1>1, <1>2, <2>2, EncoderAssumption DEF IInv, TypeOK, BufferExclusive, NoBuf
  <2>3. ASSUME NEW d \in Clients, NEW e \in Clients, d # e, held'[d] # NoBuf
        PROVE  held'[d] # held'[e]
    BY <1>2, <2>2, <2>3 DEF IInv, TypeOK, BufferExclusive
  <2>4. \A d \in Clients : (held'[d] # NoBuf) = (at'[d] \in Encoding \cup {"reading", "copying"})
    BY <1>2, EncoderAssumption DEF IInv, TypeOK, BufferExclusive, Encoding, NoBuf
  <2>5. QED
    BY <2>1, <2>2, <2>3, <2>4 DEF BufferExclusive
<1>5. QED
  BY <1>3, <1>4 DEF IInv

(* A step of c between encoding and reading leaves all buffers where they  *)
(* are.                                                                    *)
LEMMA KeepsBuffers ==
  ASSUME IInv, NEW c \in Clients, UNCHANGED <<pool, held>>,
         NEW what \in Encoding \cup {"reading", "copying"},
         at[c] \in Encoding \cup {"reading", "copying"},
         at' = [at EXCEPT ![c] = what]
  PROVE  IInv'
BY DEF IInv, TypeOK, BufferExclusive, Encoding

LEMMA Unchanged ==
  ASSUME IInv, UNCHANGED <<pool, at, held>>
  PROVE  IInv'
BY DEF IInv, TypeOK, BufferExclusive

LEMMA GetKeeps ==
  ASSUME IInv, NEW c \in Clients, NEW what \in {"writing", "buffered"},
         getEncBuffer(c, what)
  PROVE  IInv'
<1>1. PICK b \in pool : pool' = pool \ {b} /\ held' = [held EXCEPT ![c] = b]
  BY DEF getEncBuffer
<1>2. at' = [at EXCEPT ![c] = what]
  BY DEF getEncBuffer
<1>3. b \in Buffers /\ b # NoBuf
  BY EncoderAssumption DEF IInv, TypeOK, BufferExclusive, NoBuf
<1>4. TypeOK'
  BY <1>1, <1>2, <1>3 DEF IInv, TypeOK, Encoding
<1>5. BufferExclusive'
  BY <1>1, <1>2, <1>3 DEF IInv, TypeOK, BufferExclusive, Encoding
<1>6. QED
  BY <1>4, <1>5 DEF IInv

(* The type invariant and the exclusive use of buffers are inductive       *)
(* together: that a buffer given back is nobody else's needs both.         *)
LEMMA Inductive == IInv /\ [Next]_vars => IInv'
<1> SUFFICES ASSUME IInv, [Next]_vars PROVE IInv'
  OBVIOUS
<1>1. CASE UNCHANGED vars
  BY <1>1, Unchanged DEF vars
<1>2. CASE Next
  <2> PICK c \in Clients :
        \/ getEncBuffer(c, "writing") \/ getEncBuffer(c, "buffered")
        \/ \E b \in Strings : WriteBytes(c, b) \/ WriteEncoded(c, b)
        \/ List(c) \/ ListEnd(c)
        \/ EncodeFails(c) \/ EncodeToBytes(c)
        \/ EncodeToWriterFails(c) \/ ClientGivesUp(c)
        \/ Derive(c) \/ FlushDerived(c)
        \/ Reset(c) \/ ToBytes(c) \/ Flush(c)
        \/ EncodeToReader(c) \/ ReadStep(c)
    BY <1>2 DEF Next
  <2>1. CASE getEncBuffer(c, "writing") \/ getEncBuffer(c, "buffered")
    BY <2>1, GetKeeps
  <2>2. CASE (\E b \in Strings : WriteBytes(c, b) \/ WriteEncoded(c, b)) \/ List(c) \/ ListEnd(c)
    BY <2>2, Unchanged DEF WriteBytes, WriteEncoded, List, ListEnd, Writing
  <2>3. CASE EncodeFails(c) \/ EncodeToBytes(c) \/ EncodeToWriterFails(c)
    BY <2>3, PutKeeps DEF EncodeFails, EncodeToBytes, EncodeToWriterFails, Finished, Encoding
  <2>4. CASE ClientGivesUp(c)
    BY <2>4 DEF ClientGivesUp, IInv, TypeOK, BufferExclusive, Encoding
  <2>5. CASE EncodeToReader(c)
    BY <2>5, KeepsBuffers DEF EncodeToReader, Finished, Encoding
  <2>6. CASE ReadStep(c)
    <3>1. CASE \E n \in Chunks : Read(c, n)
      BY <3>1, KeepsBuffers DEF Read
    <3>2. CASE ReadPiece(c)
      <4>1. /\ at[c] = "copying" /\ UNCHANGED <<pool, held>>
            /\ \E p \in BOOLEAN : at' = [at EXCEPT ![c] = IF p THEN "reading" ELSE @]
        BY <3>2 DEF ReadPiece
      <4>2. at' = [at EXCEPT ![c] = "reading"] \/ at' = [at EXCEPT ![c] = "copying"]
        BY <4>1 DEF IInv, TypeOK, BufferExclusive
      <4>3. QED
        BY <4>1, <4>2, KeepsBuffers
    <3>3. CASE ReadEOF(c)
      BY <3>3, PutKeeps DEF ReadEOF
    <3>4. QED
      BY <2>6, <3>1, <3>2, <3>3 DEF ReadStep
  <2>7. CASE Derive(c) \/ FlushDerived(c)
    BY <2>7, KeepsBuffers DEF Derive, FlushDerived, Encoding
  <2>8. CASE Reset(c) \/ ToBytes(c)
    BY <2>8, Unchanged DEF Reset, ToBytes
  <2>9. CASE Flush(c)
    BY <2>9, PutKeeps DEF Flush, Closed, Encoding
  <2>10. QED
    BY <2>1, <2>2, <2>3, <2>4, <2>5, <2>6, <2>7, <2>8, <2>9
<1>3. QED
  BY <1>1, <1>2

LEMMA Initially == Init => IInv
BY EncoderAssumption DEF Init, IInv, TypeOK, BufferExclusive, NoBuf, Encoding

(* The types of the state.                                                 *)
THEOREM TypeCorrect == Spec => []TypeOK
BY Initially, Inductive, PTL DEF Spec, IInv

(* No buffer of encBufferPool is ever with two clients, or in the pool     *)
(* while a client still works on it; and a client has one exactly while it *)
(* encodes or reads (getEncBuffer, encReader.Read).                        *)
THEOREM BuffersAreExclusive == Spec => []BufferExclusive
BY Initially, Inductive, PTL DEF Spec, IInv

-----------------------------------------------------------------------------
(* Heads and strings.                                                      *)

LEMMA Assoc ==
  ASSUME NEW p \in Seq(Int), NEW q \in Seq(Int), NEW r \in Seq(Int)
  PROVE  (p \o q) \o r = p \o (q \o r)
BY ConcatAssociative

Heads == [offset : Nat, size : Nat]

LEMMA EncodeHeadType ==
  ASSUME NEW h \in Heads
  PROVE  /\ encodeHead(h) \in Seq(Int)
         /\ Len(encodeHead(h)) = headsize(h.size)
         /\ encodeHead(h) # <<>>
<1>1. h.size \in Nat
  BY DEF Heads
<1>2. /\ encodeHead(h) \in Seq(Int)
      /\ Len(encodeHead(h)) = headsize(h.size)
      /\ headsize(h.size) \in Nat \ {0}
  <2>1. PICK n \in Nat : n = h.size
    BY <1>1
  <2>2. \A a, b \in Int : /\ puthead(a, b, n) \in Seq(Int)
                          /\ Len(puthead(a, b, n)) = headsize(n)
                          /\ headsize(n) \in Nat \ {0}
    BY PutheadType
  <2>3. encodeHead(h) = puthead(192, 247, n)
    BY <2>1 DEF encodeHead
  <2> QED
    BY <2>1, <2>2, <2>3
<1> QED
  BY <1>2

LEMMA StringType ==
  ASSUME NEW b \in Strings
  PROVE  b \in Seq(Int) /\ EncodedString(b) \in Seq(Int)
<1>1. b \in Seq(Int)
  <2>1. b \in Seq(0..255) /\ 0..255 \subseteq Int
    BY EncoderAssumption
  <2> QED
    BY <2>1, SeqMonotonic
<1>2. puthead(128, 183, Len(b)) \in Seq(Int)
  BY <1>1, PutheadType
<1>3. puthead(128, 183, Len(b)) \o b \in Seq(Int)
  BY <1>1, <1>2
<1> QED
  BY <1>1, <1>3 DEF EncodedString

-----------------------------------------------------------------------------
(* The output between two headers.                                         *)

Contents == [str : Seq(Int), lheads : Seq(Heads), lhsize : Nat]

Off(buf, k) == IF k = 0 THEN 0 ELSE buf.lheads[k].offset

(* Headers stand in str in the order of lheads.                            *)
Ordered(buf) ==
  \A k \in 0..Len(buf.lheads) :
    /\ Off(buf, k) <= Len(buf.str)
    /\ k > 0 => Off(buf, k - 1) <= Off(buf, k)

(* f[k] is the output behind header a up to and with header k.             *)
Chain(buf, a, b, f) ==
  /\ f \in [a..b -> Seq(Int)]
  /\ f[a] = <<>>
  /\ \A k \in (a + 1)..b :
       f[k] = f[k - 1] \o SubSeq(buf.str, Off(buf, k - 1) + 1, Off(buf, k)) \o encodeHead(buf.lheads[k])

LEMMA OffType ==
  ASSUME NEW buf \in Contents, NEW k \in 0..Len(buf.lheads)
  PROVE  Off(buf, k) \in Nat
<1>1. buf.lheads \in Seq(Heads)
  BY DEF Contents
<1>2. k # 0 => buf.lheads[k] \in Heads
  BY <1>1, ElementOfSeq
<1> QED
  BY <1>2 DEF Off, Heads

(* The bytes between two neighbouring headers.                             *)
LEMMA BetweenType ==
  ASSUME NEW buf \in Contents, Ordered(buf), NEW k \in 0..Len(buf.lheads),
         NEW q \in Nat, q <= Len(buf.str)
  PROVE  SubSeq(buf.str, Off(buf, k) + 1, q) \in Seq(Int)
<1>1. PICK o \in Nat : o = Off(buf, k)
  BY OffType
<1>2. buf.str \in Seq(Int)
  BY DEF Contents
<1>3. SubSeq(buf.str, o + 1, q) \in Seq(Int)
  BY <1>2, SubType
<1> QED
  BY <1>1, <1>3

(* makeBytes merges the headers into str as a chain from the beginning     *)
(* does.                                                                   *)
LEMMA MakeBytesIs ==
  ASSUME NEW buf, Len(buf.lheads) \in Nat, NEW f, Chain(buf, 0, Len(buf.lheads), f)
  PROVE  makeBytes(buf) =
           f[Len(buf.lheads)] \o SubSeq(buf.str, Off(buf, Len(buf.lheads)) + 1, Len(buf.str))
<1> DEFINE n == Len(buf.lheads)
           offset(k) == IF k = 0 THEN 0 ELSE buf.lheads[k].offset
           E(g) == g = [k \in 0..n |->
             IF k = 0 THEN <<>>
             ELSE g[k - 1] \o SubSeq(buf.str, offset(k - 1) + 1, offset(k)) \o encodeHead(buf.lheads[k])]
           part == CHOOSE g : E(g)
<1>1. Merged(buf, n) = [out |-> part[n], strpos |-> offset(n)]
  BY DEF Merged
<1>2. n \in Nat
  OBVIOUS
<1>3. E(f)
  <2>1. f = [k \in 0..n |-> f[k]]
    BY DEF Chain
  <2>2. f[0] = <<>>
    BY DEF Chain
  <2>3. \A k \in 1..n :
          f[k] = f[k - 1] \o SubSeq(buf.str, offset(k - 1) + 1, offset(k)) \o encodeHead(buf.lheads[k])
    <3>1. \A k \in (0 + 1)..n :
            f[k] = f[k - 1] \o SubSeq(buf.str, Off(buf, k - 1) + 1, Off(buf, k)) \o encodeHead(buf.lheads[k])
      <4> HIDE DEF n
      <4> QED
        BY Zenon DEF Chain, n
    <3> SUFFICES ASSUME NEW k \in 1..n
                 PROVE  f[k] = f[k - 1] \o SubSeq(buf.str, offset(k - 1) + 1, offset(k))
                                 \o encodeHead(buf.lheads[k])
      OBVIOUS
    <3>2. k \in (0 + 1)..n
      BY <1>2
    <3>3. Off(buf, k) = offset(k) /\ Off(buf, k - 1) = offset(k - 1)
      BY DEF Off
    <3> HIDE DEF offset, n
    <3> QED
      BY <3>1, <3>2, <3>3
  <2>4. \A k \in 0..n : k = 0 \/ k \in 1..n
    BY <1>2
  <2> HIDE DEF offset, n
  <2> QED
    BY <2>1, <2>2, <2>3, <2>4
<1>4. E(part)
  <2> HIDE DEF E
  <2> QED
    BY <1>3
<1>5. part[n] = f[n]
  <2> DEFINE A == {k \in Nat : k <= n => part[k] = f[k]}
  <2>1. ASSUME NEW k \in Nat, \A j \in 0..(k - 1) : j \in A PROVE k \in A
    <3> SUFFICES ASSUME k <= n PROVE part[k] = f[k]
      OBVIOUS
    <3>1. k \in 0..n
      BY <1>2
    <3>2. CASE k = 0
      <4> HIDE DEF part
      <4> QED
        BY <1>3, <1>4, <3>1, <3>2
    <3>3. CASE k # 0
      <4>1. k - 1 \in 0..(k - 1) /\ k - 1 <= n
        BY <1>2, <3>1, <3>3
      <4>2. part[k - 1] = f[k - 1]
        BY <2>1, <4>1
      <4> HIDE DEF part, offset
      <4> QED
        BY <1>3, <1>4, <3>1, <3>3, <4>2
    <3> QED
      BY <3>2, <3>3
  <2>2. Nat \subseteq A
    <3> HIDE DEF A
    <3> QED
      BY <2>1, SetInduction
  <2>3. n \in A /\ n <= n
    <3> HIDE DEF A
    <3> QED
      BY <1>2, <2>2
  <2> HIDE DEF part
  <2> QED
    BY <2>3
<1>6. offset(n) = Off(buf, n)
  BY DEF Off
<1> HIDE DEF part, offset
<1>7. PICK m : m = Merged(buf, n)
  OBVIOUS
<1>8. m.out = f[n] /\ m.strpos = Off(buf, n)
  BY <1>1, <1>5, <1>6, <1>7
<1>9. makeBytes(buf) = m.out \o SubSeq(buf.str, m.strpos + 1, Len(buf.str))
  BY <1>7 DEF makeBytes
<1> QED
  BY <1>8, <1>9

(* s begins with r.                                                        *)
Begins(r, s) == \E t \in Seq(Int) : s = r \o t

(* What stands behind a header begins with all that stands behind an       *)
(* earlier one.                                                            *)
LEMMA ChainGrows ==
  ASSUME NEW buf \in Contents, Ordered(buf), NEW b \in Nat, b <= Len(buf.lheads),
         NEW f, Chain(buf, 0, b, f), NEW j \in 0..b
  PROVE  Begins(f[j], f[b])
<1> DEFINE A == {k \in Nat : j <= k /\ k <= b => \E t \in Seq(Int) : f[k] = f[j] \o t}
<1>1. ASSUME NEW k \in Nat, \A i \in 0..(k - 1) : i \in A PROVE k \in A
  <2> SUFFICES ASSUME j <= k, k <= b PROVE \E t \in Seq(Int) : f[k] = f[j] \o t
    OBVIOUS
  <2>1. PICK g \in Seq(Int) : g = f[j]
    BY DEF Chain
  <2>2. CASE j = k
    <3>1. <<>> \in Seq(Int) /\ f[j] = f[j] \o <<>>
      <4>1. <<>> \in Seq(Int) /\ g = g \o <<>>
        BY ConcatEmptySeq
      <4> QED
        BY <2>1, <4>1
    <3> QED
      BY <2>2, <3>1
  <2>3. CASE j # k
    <3>1. /\ k - 1 \in Nat /\ k - 1 \in 0..(k - 1) /\ j <= k - 1 /\ k - 1 <= b
          /\ k \in (0 + 1)..b /\ k - 1 \in 0..Len(buf.lheads) /\ k \in 1..Len(buf.lheads) /\ k \in 0..Len(buf.lheads)
      BY <2>3
    <3>2. PICK t \in Seq(Int) : f[k - 1] = f[j] \o t
      BY <1>1, <3>1
    <3>3. f[k] = f[k - 1] \o SubSeq(buf.str, Off(buf, k - 1) + 1, Off(buf, k)) \o encodeHead(buf.lheads[k])
      BY <3>1, Zenon DEF Chain
    <3>4. PICK u \in Seq(Int) : u = SubSeq(buf.str, Off(buf, k - 1) + 1, Off(buf, k))
      <4>1. Off(buf, k) \in Nat /\ Off(buf, k) <= Len(buf.str)
        BY <3>1, OffType DEF Ordered
      <4> QED
        BY <3>1, <4>1, BetweenType
    <3>5. PICK h \in Seq(Int) : h = encodeHead(buf.lheads[k])
      <4>1. buf.lheads[k] \in Heads
        BY <3>1, ElementOfSeq DEF Contents
      <4> QED
        BY <4>1, EncodeHeadType
    <3>6. f[k] = f[j] \o (t \o u \o h) /\ t \o u \o h \in Seq(Int)
      <4>1. f[k] = ((g \o t) \o u) \o h
        BY <2>1, <3>2, <3>3, <3>4, <3>5
      <4>0. t \o u \in Seq(Int)
        OBVIOUS
      <4>2. PICK v \in Seq(Int) : v = t \o u
        BY <4>0
      <4>3. (g \o t) \o u = g \o v
        BY <4>2, Assoc, ZenonT(80)
      <4>4. (g \o v) \o h = g \o (v \o h)
        BY Assoc, ZenonT(80)
      <4>5. v \o h \in Seq(Int)
        OBVIOUS
      <4>6. f[k] = g \o (v \o h)
        BY <4>1, <4>3, <4>4
      <4> QED
        BY <2>1, <4>2, <4>5, <4>6
    <3> QED
      BY <3>6
  <2> QED
    BY <2>2, <2>3
<1>2. Nat \subseteq A
  <2> HIDE DEF A
  <2> QED
    BY <1>1, SetInduction
<1>3. b \in A /\ j <= b
  <2> HIDE DEF A
  <2> QED
    BY <1>2
<1> QED
  BY <1>3 DEF Begins

-----------------------------------------------------------------------------
(* The encoding of what a list holds.                                      *)

(* Where the contents of list a begin, in str and the headers before it.   *)
Mark(buf, a) == IF a = 0 THEN 0 ELSE buf.lheads[a].offset + buf.lheads[a].size

(* out is the output behind header a up to the byte q of str, behind       *)
(* header b, and as long as the way from the mark of a to end.             *)
Frame(buf, a, b, q, end, out) ==
  /\ a \in Nat /\ b \in Nat /\ a <= b /\ b <= Len(buf.lheads)
  /\ q \in Nat /\ Off(buf, b) <= q /\ q <= Len(buf.str)
  /\ out \in Seq(Int)
  /\ Len(out) = end - Mark(buf, a)
  /\ \E f : Chain(buf, a, b, f) /\ out = f[b] \o SubSeq(buf.str, Off(buf, b) + 1, q)

LEMMA MarkType ==
  ASSUME NEW buf \in Contents, NEW k \in 0..Len(buf.lheads)
  PROVE  Mark(buf, k) \in Nat
<1>1. PICK l \in Seq(Heads) : l = buf.lheads
  BY DEF Contents
<1>2. k # 0 => k \in 1..Len(l)
  BY <1>1
<1>3. k # 0 => l[k] \in Heads
  BY <1>2, ElementOfSeq
<1> QED
  BY <1>1, <1>3 DEF Mark, Heads

(* A chain depends on its headers, their places and what is before them.   *)
LEMMA ChainKept ==
  ASSUME NEW buf \in Contents, Ordered(buf), NEW buf2, NEW t \in Seq(Int), buf2.str = buf.str \o t,
         NEW a \in Nat, NEW b \in Nat, a <= b, b <= Len(buf.lheads),
         \A k \in a..b : Off(buf2, k) = Off(buf, k),
         \A k \in (a + 1)..b : buf2.lheads[k] = buf.lheads[k],
         NEW f, Chain(buf, a, b, f)
  PROVE  Chain(buf2, a, b, f)
<1>1. ASSUME NEW k \in (a + 1)..b
      PROVE  SubSeq(buf2.str, Off(buf2, k - 1) + 1, Off(buf2, k))
               = SubSeq(buf.str, Off(buf, k - 1) + 1, Off(buf, k))
  <2>1. k \in a..b /\ k - 1 \in a..b /\ k \in 0..Len(buf.lheads) /\ k - 1 \in 0..Len(buf.lheads)
    OBVIOUS
  <2>2. PICK o \in Nat : o = Off(buf, k - 1) /\ Off(buf2, k - 1) = o
    BY <2>1, OffType
  <2>3. PICK p \in Nat : p = Off(buf, k) /\ Off(buf2, k) = p /\ p <= Len(buf.str)
    BY <2>1, OffType DEF Ordered
  <2>4. PICK s \in Seq(Int) : s = buf.str
    BY DEF Contents
  <2>5. PICK m \in Nat \ {0} : m = o + 1
    OBVIOUS
  <2>6. SubSeq(s \o t, m, p) = SubSeq(s, m, p)
    BY <2>3, <2>4, CutGrown, SMTT(80)
  <2> QED
    BY <2>2, <2>3, <2>4, <2>5, <2>6
<1>2. ASSUME NEW k \in (a + 1)..b
      PROVE  f[k] = f[k - 1] \o SubSeq(buf2.str, Off(buf2, k - 1) + 1, Off(buf2, k))
                      \o encodeHead(buf2.lheads[k])
  <2>1. f[k] = f[k - 1] \o SubSeq(buf.str, Off(buf, k - 1) + 1, Off(buf, k)) \o encodeHead(buf.lheads[k])
    BY Zenon DEF Chain
  <2>2. buf2.lheads[k] = buf.lheads[k]
    OBVIOUS
  <2> QED
    BY <1>1, <2>1, <2>2
<1>3. f \in [a..b -> Seq(Int)] /\ f[a] = <<>>
  BY DEF Chain
<1> QED
  BY <1>2, <1>3, Zenon DEF Chain

LEMMA SameHeads ==
  ASSUME NEW buf, NEW buf2, NEW b \in Nat, \A k \in 1..b : buf2.lheads[k] = buf.lheads[k]
  PROVE  \A k \in 0..b : Off(buf2, k) = Off(buf, k) /\ Mark(buf2, k) = Mark(buf, k)
BY DEF Off, Mark

(* What is in front of a place stays, whatever is done behind it.          *)
LEMMA FrameKept ==
  ASSUME NEW buf \in Contents, Ordered(buf), NEW buf2, NEW t \in Seq(Int), buf2.str = buf.str \o t,
         NEW a, NEW b, NEW q, NEW end, NEW out, Frame(buf, a, b, q, end, out),
         b <= Len(buf2.lheads), \A k \in 1..b : buf2.lheads[k] = buf.lheads[k]
  PROVE  Frame(buf2, a, b, q, end, out)
<1>1. /\ a \in Nat /\ b \in Nat /\ a <= b /\ b <= Len(buf.lheads)
      /\ q \in Nat /\ Off(buf, b) <= q /\ q <= Len(buf.str)
      /\ out \in Seq(Int)
      /\ Len(out) = end - Mark(buf, a)
  BY DEF Frame
<1>2. PICK f : Chain(buf, a, b, f) /\ out = f[b] \o SubSeq(buf.str, Off(buf, b) + 1, q)
  BY DEF Frame
<1>3. \A k \in 0..b : Off(buf2, k) = Off(buf, k) /\ Mark(buf2, k) = Mark(buf, k)
  BY <1>1, SameHeads
<1>4. Off(buf2, b) = Off(buf, b) /\ Mark(buf2, a) = Mark(buf, a)
  BY <1>1, <1>3
<1>5. Chain(buf2, a, b, f)
  <2>1. \A k \in a..b : Off(buf2, k) = Off(buf, k)
    BY <1>1, <1>3
  <2>2. \A k \in (a + 1)..b : buf2.lheads[k] = buf.lheads[k]
    BY <1>1
  <2> QED
    BY <1>1, <1>2, <2>1, <2>2, ChainKept
<1>6. PICK o \in Nat : o = Off(buf, b)
  BY <1>1, OffType
<1>7. buf.str \in Seq(Int) /\ Len(buf.str) \in Nat
  BY DEF Contents
<1>8. SubSeq(buf2.str, o + 1, q) = SubSeq(buf.str, o + 1, q)
  <2>1. PICK s \in Seq(Int) : s = buf.str
    BY <1>7
  <2>2. PICK m \in Nat \ {0} : m = o + 1
    OBVIOUS
  <2>3. SubSeq(s \o t, m, q) = SubSeq(s, m, q)
    BY <1>1, <2>1, CutGrown
  <2> QED
    BY <2>1, <2>2, <2>3
<1>9. q <= Len(buf2.str)
  <2>1. Len(buf2.str) = Len(buf.str) + Len(t)
    BY <1>7, ConcatProperties
  <2> QED
    BY <1>1, <1>7, <2>1
<1>10. out = f[b] \o SubSeq(buf2.str, Off(buf2, b) + 1, q)
  BY <1>2, <1>4, <1>6, <1>8
<1> QED
  BY <1>1, <1>4, <1>5, <1>9, <1>10 DEF Frame

LEMMA WriteIs ==
  ASSUME NEW buf \in Contents, Ordered(buf), NEW t \in Seq(Int), NEW buf2, buf2 = Write(buf, t)
  PROVE  /\ buf2 \in Contents /\ Ordered(buf2)
         /\ buf2.str = buf.str \o t /\ buf2.lheads = buf.lheads
         /\ size(buf2) = size(buf) + Len(t)
<1>1. PICK s \in Seq(Int) : s = buf.str
  BY DEF Contents
<1>2. s \o t \in Seq(Int) /\ Len(s \o t) = Len(s) + Len(t) /\ Len(s) \in Nat /\ Len(t) \in Nat
  BY ConcatProperties
<1>3. buf2 \in Contents
  BY <1>1, <1>2 DEF Write, Contents
<1>4. buf2.str = s \o t /\ buf2.lheads = buf.lheads /\ buf2.lhsize = buf.lhsize
  BY <1>1 DEF Write, Contents
<1>5. size(buf2) = size(buf) + Len(t)
  BY <1>1, <1>2, <1>4 DEF size, Contents
<1>6. Ordered(buf2)
  <2>1. ASSUME NEW k \in 0..Len(buf.lheads) PROVE Off(buf2, k) = Off(buf, k) /\ Off(buf2, k - 1) = Off(buf, k - 1)
    BY <1>4 DEF Off
  <2>2. \A k \in 0..Len(buf.lheads) : Off(buf, k) \in Nat
    BY OffType
  <2> QED
    BY <1>1, <1>2, <1>4, <2>1, <2>2 DEF Ordered
<1> QED
  BY <1>1, <1>3, <1>4, <1>5, <1>6

(* Writing goes to the end of the list that was opened last.               *)
LEMMA FrameGrows ==
  ASSUME NEW buf \in Contents, Ordered(buf), NEW t \in Seq(Int), NEW buf2, buf2 = Write(buf, t),
         NEW a, NEW out, Frame(buf, a, Len(buf.lheads), Len(buf.str), size(buf), out)
  PROVE  Frame(buf2, a, Len(buf2.lheads), Len(buf2.str), size(buf2), out \o t)
<1> DEFINE b == Len(buf.lheads)
<1>1. /\ a \in Nat /\ b \in Nat /\ a <= b
      /\ out \in Seq(Int)
      /\ Len(out) = size(buf) - Mark(buf, a)
  BY DEF Frame
<1>2. PICK f : Chain(buf, a, b, f) /\ out = f[b] \o SubSeq(buf.str, Off(buf, b) + 1, Len(buf.str))
  BY DEF Frame
<1>3. /\ buf2 \in Contents /\ Ordered(buf2)
      /\ buf2.str = buf.str \o t /\ buf2.lheads = buf.lheads
      /\ size(buf2) = size(buf) + Len(t)
  BY WriteIs
<1>4. \A k : Off(buf2, k) = Off(buf, k) /\ Mark(buf2, k) = Mark(buf, k)
  BY <1>3 DEF Off, Mark
<1>5. Chain(buf2, a, b, f)
  <2>1. /\ \A k \in a..b : Off(buf2, k) = Off(buf, k)
        /\ \A k \in (a + 1)..b : buf2.lheads[k] = buf.lheads[k]
        /\ b <= Len(buf.lheads)
    BY <1>1, <1>3, <1>4
  <2> HIDE DEF b
  <2> QED
    BY <1>1, <1>2, <1>3, <2>1, ChainKept
<1>6. PICK s \in Seq(Int) : s = buf.str
  BY DEF Contents
<1>7. PICK o \in Nat : o = Off(buf, b) /\ o <= Len(s)
  BY <1>1, <1>6, OffType DEF Ordered
<1>8. PICK m \in 1..(Len(s) + 1) : m = o + 1
  BY <1>7
<1>9. SubSeq(s \o t, m, Len(s \o t)) = SubSeq(s, m, Len(s)) \o t
  BY CutToEnd
<1>10. PICK u \in Seq(Int) : u = SubSeq(s, m, Len(s))
  <2>1. m \in Nat \ {0} /\ Len(s) \in Nat
    OBVIOUS
  <2>2. SubSeq(s, m, Len(s)) \in Seq(Int)
    BY <2>1, SubType
  <2> QED
    BY <2>2
<1>11. PICK g \in Seq(Int) : g = f[b]
  BY <1>1, <1>2 DEF Chain
<1>12. out \o t = g \o (u \o t)
  <2>1. out = g \o u
    BY <1>2, <1>6, <1>7, <1>8, <1>10, <1>11
  <2> QED
    BY <2>1, Assoc, ZenonT(80)
<1>13. out \o t = f[b] \o SubSeq(buf2.str, Off(buf2, b) + 1, Len(buf2.str))
  BY <1>3, <1>4, <1>6, <1>7, <1>8, <1>9, <1>10, <1>11, <1>12
<1>14. out \o t \in Seq(Int) /\ Len(out \o t) = Len(out) + Len(t) /\ Len(out) \in Nat /\ Len(t) \in Nat
  BY <1>1, ConcatProperties
<1>15. Len(out \o t) = size(buf2) - Mark(buf2, a)
  <2>1. Mark(buf, a) \in Nat
    <3>1. a # 0 => buf.lheads[a] \in Heads
      BY <1>1, ElementOfSeq DEF Contents
    <3> QED
      BY <3>1 DEF Mark, Heads
  <2>2. size(buf) \in Nat
    BY <1>6 DEF size, Contents
  <2> QED
    BY <1>1, <1>3, <1>4, <1>14, <2>1, <2>2
<1>16. Len(buf2.str) \in Nat /\ Off(buf2, b) <= Len(buf2.str) /\ Len(buf2.lheads) = b
  BY <1>1, <1>3 DEF Ordered, Contents
<1>17. \E g2 : Chain(buf2, a, b, g2) /\ out \o t = g2[b] \o SubSeq(buf2.str, Off(buf2, b) + 1, Len(buf2.str))
  <2> HIDE DEF b
  <2> QED
    BY <1>5, <1>13
<1>18. b <= Len(buf2.lheads) /\ Len(buf2.str) <= Len(buf2.str)
  BY <1>1, <1>16
<1>19. Frame(buf2, a, b, Len(buf2.str), size(buf2), out \o t)
  <2> HIDE DEF b
  <2> QED
    BY <1>1, <1>14, <1>15, <1>16, <1>17, <1>18, Zenon DEF Frame
<1> HIDE DEF b
<1> QED
  BY <1>16, <1>19

LEMMA ListIs ==
  ASSUME NEW buf \in Contents, Ordered(buf), NEW buf2, buf2 = list(buf)
  PROVE  /\ buf2 \in Contents /\ Ordered(buf2)
         /\ buf2.str = buf.str /\ size(buf2) = size(buf)
         /\ Len(buf2.lheads) = Len(buf.lheads) + 1
         /\ \A k \in 1..Len(buf.lheads) : buf2.lheads[k] = buf.lheads[k]
         /\ Off(buf2, Len(buf.lheads) + 1) = Len(buf.str)
         /\ Mark(buf2, Len(buf.lheads) + 1) = size(buf)
<1>1. PICK h \in Heads : h = [offset |-> Len(buf.str), size |-> buf.lhsize]
  <2>1. Len(buf.str) \in Nat /\ buf.lhsize \in Nat
    BY DEF Contents
  <2>2. [offset |-> Len(buf.str), size |-> buf.lhsize] \in Heads
    BY <2>1 DEF Heads
  <2> QED
    BY <2>2
<1>2. PICK l \in Seq(Heads) : l = buf.lheads
  BY DEF Contents
<1>3. /\ Append(l, h) \in Seq(Heads)
      /\ Len(Append(l, h)) = Len(l) + 1
      /\ \A k \in 1..Len(l) : Append(l, h)[k] = l[k]
      /\ Append(l, h)[Len(l) + 1] = h
      /\ Len(l) \in Nat
  BY AppendProperties
<1>4. buf2 = [buf EXCEPT !.lheads = Append(l, h)]
  BY <1>1, <1>2 DEF list
<1>5. buf2 \in Contents /\ buf2.str = buf.str /\ buf2.lheads = Append(l, h) /\ buf2.lhsize = buf.lhsize
  BY <1>3, <1>4 DEF Contents
<1>6. /\ size(buf2) = size(buf)
      /\ Off(buf2, Len(l) + 1) = Len(buf.str)
      /\ Mark(buf2, Len(l) + 1) = size(buf)
  <2>1. buf2.lheads[Len(l) + 1] = h /\ Len(l) + 1 # 0
    BY <1>3, <1>5
  <2>2. h.offset = Len(buf.str) /\ h.size = buf.lhsize
    BY <1>1
  <2> QED
    BY <1>5, <2>1, <2>2 DEF size, Off, Mark
<1>7. Ordered(buf2)
  <2>1. \A k \in 0..Len(l) : Off(buf2, k) = Off(buf, k)
    BY <1>2, <1>3, <1>5 DEF Off
  <2>2. \A k \in 0..Len(l) : Off(buf, k) \in Nat
    BY <1>2, OffType
  <2>3. Len(buf.str) \in Nat
    BY DEF Contents
  <2>4. ASSUME NEW k \in 0..Len(buf2.lheads)
        PROVE  Off(buf2, k) <= Len(buf2.str) /\ (k > 0 => Off(buf2, k - 1) <= Off(buf2, k))
    <3>1. CASE k \in 0..Len(l)
      <4>1. Off(buf, k) <= Len(buf.str) /\ (k > 0 => Off(buf, k - 1) <= Off(buf, k))
        BY <1>2, <3>1 DEF Ordered
      <4>2. k > 0 => k - 1 \in 0..Len(l)
        BY <3>1
      <4> QED
        BY <1>5, <2>1, <3>1, <4>1, <4>2
    <3>2. CASE k = Len(l) + 1
      <4>1. Len(l) \in 0..Len(l) /\ k - 1 = Len(l)
        BY <1>3, <3>2
      <4>2. Off(buf2, k - 1) = Off(buf, Len(l)) /\ Off(buf, Len(l)) <= Len(buf.str)
        BY <1>2, <2>1, <4>1 DEF Ordered
      <4> QED
        BY <1>5, <1>6, <2>3, <3>2, <4>2
    <3> QED
      BY <1>3, <1>5, <3>1, <3>2
  <2> QED
    BY <2>4 DEF Ordered
<1> QED
  BY <1>2, <1>3, <1>5, <1>6, <1>7

(* A list that is opened holds nothing.                                    *)
LEMMA FrameOpens ==
  ASSUME NEW buf \in Contents, Ordered(buf), NEW n \in Nat, n = Len(buf.lheads), Off(buf, n) = Len(buf.str),
         Mark(buf, n) = size(buf)
  PROVE  Frame(buf, n, n, Len(buf.str), size(buf), <<>>)
<1> DEFINE f == [k \in n..n |-> <<>>]
<1>1. PICK s \in Seq(Int) : s = buf.str
  BY DEF Contents
<1>2. <<>> \in Seq(Int) /\ Len(<<>>) = 0
  BY EmptySeq
<1>3. Chain(buf, n, n, f)
  <2>1. f \in [n..n -> Seq(Int)]
    BY <1>2
  <2>2. f[n] = <<>>
    OBVIOUS
  <2>3. \A k \in (n + 1)..n : FALSE
    OBVIOUS
  <2> HIDE DEF f
  <2> QED
    BY <2>1, <2>2, <2>3 DEF Chain
<1>4. SubSeq(s, Len(s) + 1, Len(s)) = <<>>
  BY SubSeqEmpty
<1>5. <<>> = f[n] \o SubSeq(buf.str, Off(buf, n) + 1, Len(buf.str))
  <2>1. <<>> \o <<>> = <<>>
    BY <1>2, ConcatEmptySeq
  <2>2. f[n] = <<>>
    OBVIOUS
  <2> HIDE DEF f
  <2> QED
    BY <1>1, <1>4, <2>1, <2>2
<1>6. size(buf) \in Nat /\ Len(buf.str) \in Nat
  BY <1>1 DEF size, Contents
<1> HIDE DEF f
<1>7. \E g : Chain(buf, n, n, g) /\ <<>> = g[n] \o SubSeq(buf.str, Off(buf, n) + 1, Len(buf.str))
  BY <1>3, <1>5
<1>8. Len(<<>>) = size(buf) - Mark(buf, n)
  BY <1>2, <1>6
<1>9. n <= n /\ Off(buf, n) <= Len(buf.str) /\ Len(buf.str) <= Len(buf.str)
  BY <1>6
<1> QED
  BY <1>2, <1>6, <1>7, <1>8, <1>9, Zenon DEF Frame

(* p is the output of the chain f before header i, with the header.        *)
Joint(buf, f, i, p) ==
  p = f[i - 1] \o SubSeq(buf.str, Off(buf, i - 1) + 1, Off(buf, i)) \o encodeHead(buf.lheads[i])

(* A chain goes on behind p as g does.                                     *)
Continued(buf, a, b, p, g) == \E h : Chain(buf, a, b, h) /\ h[b] = p \o g[b]

(* The chains before and behind header i make one.                         *)
LEMMA ChainsJoin ==
  ASSUME NEW buf \in Contents, Ordered(buf), NEW a \in Nat, NEW i \in Nat, NEW b \in Nat,
         a < i, i <= b, b <= Len(buf.lheads),
         NEW f, Chain(buf, a, i - 1, f), NEW g, Chain(buf, i, b, g),
         NEW p \in Seq(Int), Joint(buf, f, i, p)
  PROVE  Continued(buf, a, b, p, g)
<1> DEFINE h == [k \in a..b |-> IF k < i THEN f[k] ELSE p \o g[k]]
<1>1. \A k \in i..b : g[k] \in Seq(Int)
  BY DEF Chain
<1>2. \A k \in a..(i - 1) : f[k] \in Seq(Int)
  BY DEF Chain
<1>3. h \in [a..b -> Seq(Int)]
  <2>1. ASSUME NEW k \in a..b PROVE h[k] \in Seq(Int)
    <3>1. CASE k < i
      BY <1>2, <3>1
    <3>2. CASE ~(k < i)
      <4>1. PICK x \in Seq(Int) : x = g[k]
        BY <1>1, <3>2
      <4>2. p \o x \in Seq(Int)
        OBVIOUS
      <4> QED
        BY <3>2, <4>1, <4>2
    <3> QED
      BY <3>1, <3>2
  <2> QED
    BY <2>1
<1>0. \A k \in a..b : (k < i => h[k] = f[k]) /\ (~(k < i) => h[k] = p \o g[k])
  OBVIOUS
<1> HIDE DEF h
<1>4. h[a] = <<>>
  <2>1. h[a] = f[a]
    BY <1>0
  <2> QED
    BY <2>1, Zenon DEF Chain
<1>5. ASSUME NEW k \in (a + 1)..b
      PROVE  h[k] = h[k - 1] \o SubSeq(buf.str, Off(buf, k - 1) + 1, Off(buf, k)) \o encodeHead(buf.lheads[k])
  <2>1. CASE k < i
    <3>1. k \in (a + 1)..(i - 1) /\ h[k] = f[k] /\ h[k - 1] = f[k - 1]
      <4>1. k \in (a + 1)..(i - 1) /\ k \in a..b
        BY <2>1
      <4>2. k - 1 \in a..b /\ k - 1 < i
        BY <2>1
      <4> QED
        BY <1>0, <2>1, <4>1, <4>2
    <3>2. f[k] = f[k - 1] \o SubSeq(buf.str, Off(buf, k - 1) + 1, Off(buf, k)) \o encodeHead(buf.lheads[k])
      BY <3>1, Zenon DEF Chain
    <3> QED
      BY <3>1, <3>2
  <2>2. CASE k = i
    <3>1. h[k] = p \o g[i] /\ h[k - 1] = f[i - 1]
      <4>1. k \in a..b /\ ~(k < i) /\ k - 1 \in a..b /\ k - 1 < i /\ k - 1 = i - 1
        BY <2>2
      <4>2. h[k] = p \o g[k] /\ h[k - 1] = f[k - 1]
        BY <1>0, <4>1
      <4> QED
        BY <2>2, <4>2
    <3>2. g[i] = <<>> /\ p \o <<>> = p
      <4>1. g[i] = <<>>
        BY DEF Chain
      <4> QED
        BY <4>1, ConcatEmptySeq
    <3> QED
      BY <2>2, <3>1, <3>2 DEF Joint
  <2>3. CASE i < k
    <3>0. k \in a..b /\ k \in (i + 1)..b /\ k - 1 \in i..b /\ k - 1 \in a..b /\ ~(k < i) /\ ~(k - 1 < i)
      BY <2>3
    <3>1. k \in (i + 1)..b /\ k - 1 \in i..b /\ h[k] = p \o g[k] /\ h[k - 1] = p \o g[k - 1]
      BY <1>0, <3>0
    <3>2. g[k] = g[k - 1] \o SubSeq(buf.str, Off(buf, k - 1) + 1, Off(buf, k)) \o encodeHead(buf.lheads[k])
      BY <3>1, Zenon DEF Chain
    <3>3. PICK x \in Seq(Int) : x = g[k - 1]
      BY <1>1, <3>1
    <3>4. k \in 0..Len(buf.lheads) /\ k \in 1..Len(buf.lheads) /\ k - 1 \in 0..Len(buf.lheads)
      <4>1. Len(buf.lheads) \in Nat
        BY DEF Contents
      <4> QED
        BY <3>0, <4>1
    <3>5. PICK u \in Seq(Int) : u = SubSeq(buf.str, Off(buf, k - 1) + 1, Off(buf, k))
      <4>1. Off(buf, k) \in Nat /\ Off(buf, k) <= Len(buf.str)
        BY <3>4, OffType DEF Ordered
      <4> QED
        BY <3>4, <4>1, BetweenType
    <3>6. PICK e \in Seq(Int) : e = encodeHead(buf.lheads[k])
      <4>1. buf.lheads[k] \in Heads
        BY <3>4, ElementOfSeq DEF Contents
      <4> QED
        BY <4>1, EncodeHeadType
    <3>7. x \o u \in Seq(Int)
      OBVIOUS
    <3>8. PICK y \in Seq(Int) : y = x \o u
      BY <3>7
    <3>9. PICK w \in Seq(Int) : w = p \o x /\ w = h[k - 1]
      BY <1>3, <3>0, <3>1, <3>3
    <3>10. w \o u = p \o y
      <4>1. (p \o x) \o u = p \o (x \o u)
        BY Assoc, ZenonT(80)
      <4> QED
        BY <3>8, <3>9, <4>1, Zenon
    <3>11. (p \o y) \o e = p \o (y \o e)
      BY Assoc, ZenonT(80)
    <3>12. h[k] = p \o (y \o e)
      BY <3>1, <3>2, <3>3, <3>5, <3>6, <3>8
    <3>13. h[k] = w \o u \o e
      BY <3>10, <3>11, <3>12
    <3> QED
      BY <3>5, <3>6, <3>9, <3>13, Zenon
  <2>4. k < i \/ k = i \/ i < k
    OBVIOUS
  <2> QED
    BY <2>1, <2>2, <2>3, <2>4, Zenon
<1>6. h[b] = p \o g[b]
  <2>1. b \in a..b /\ ~(b < i)
    OBVIOUS
  <2> QED
    BY <1>0, <2>1
<1>7. Chain(buf, a, b, h)
  BY <1>3, <1>4, <1>5, Zenon DEF Chain
<1> QED
  BY <1>6, <1>7 DEF Continued

LEMMA ListEndIs ==
  ASSUME NEW buf \in Contents, Ordered(buf), NEW i \in 1..Len(buf.lheads),
         NEW n \in Nat, n = size(buf) - Mark(buf, i), NEW buf2, buf2 = listEnd(buf, i)
  PROVE  /\ buf2 \in Contents /\ Ordered(buf2)
         /\ buf2.str = buf.str /\ Len(buf2.lheads) = Len(buf.lheads)
         /\ \A k \in 1..Len(buf.lheads) : k # i => buf2.lheads[k] = buf.lheads[k]
         /\ \A k \in 0..Len(buf.lheads) : Off(buf2, k) = Off(buf, k)
         /\ buf2.lheads[i] \in Heads /\ buf2.lheads[i].size = n
         /\ size(buf2) = size(buf) + headsize(n)
<1>1. PICK l \in Seq(Heads) : l = buf.lheads
  BY DEF Contents
<1>2. l[i] \in Heads
  BY <1>1, ElementOfSeq
<1>3. PICK o \in Nat, z \in Nat : l[i].offset = o /\ l[i].size = z
  BY <1>2 DEF Heads
<1>4. PICK s \in Nat : s = size(buf)
  BY DEF size, Contents
<1>5. n = s - o - z
  BY <1>1, <1>3, <1>4 DEF Mark
<1>6. headsize(n) \in Nat
  BY PutheadType
<1> DEFINE h == [l[i] EXCEPT !.size = n]
           m == [l EXCEPT ![i] = h]
<1>7. buf2 = [buf EXCEPT !.lheads = m, !.lhsize = @ + headsize(n)]
  <2>1. size(buf) - buf.lheads[i].offset - buf.lheads[i].size = n
    BY <1>1, <1>3, <1>4, <1>5
  <2>2. buf2 = [buf EXCEPT !.lheads[i].size = n, !.lhsize = @ + headsize(n)]
    BY <2>1 DEF listEnd
  <2>3. m = [buf.lheads EXCEPT ![i].size = n]
    BY <1>1
  <2> QED
    BY <1>1, <2>2, <2>3
<1>8. h \in Heads /\ h.size = n /\ h.offset = o
  BY <1>2, <1>3 DEF Heads
<1> HIDE DEF h
<1>9. m \in Seq(Heads) /\ Len(m) = Len(l) /\ \A k \in 1..Len(l) : m[k] = IF k = i THEN h ELSE l[k]
  BY <1>1, <1>8, ExceptSeq
<1> HIDE DEF m
<1>10. /\ buf2 \in Contents /\ buf2.str = buf.str /\ buf2.lheads = m
       /\ buf2.lhsize = buf.lhsize + headsize(n)
  <2>1. PICK e \in Nat : e = headsize(n)
    BY <1>6
  <2>2. buf2 = [buf EXCEPT !.lheads = m, !.lhsize = @ + e]
    BY <1>7, <2>1
  <2>3. PICK y \in Seq(Heads) : y = m
    BY <1>9
  <2>4. PICK w \in Nat : w = buf.lhsize + e
    BY DEF Contents
  <2>5. buf2 = [buf EXCEPT !.lheads = y, !.lhsize = w]
    BY <2>2, <2>3, <2>4 DEF Contents
  <2>6. buf2 \in Contents /\ buf2.str = buf.str /\ buf2.lheads = m /\ buf2.lhsize = buf.lhsize + e
    BY <2>3, <2>4, <2>5 DEF Contents
  <2> QED
    BY <2>1, <2>6
<1>11. size(buf2) = size(buf) + headsize(n)
  <2>1. buf.lhsize \in Nat /\ Len(buf.str) \in Nat
    BY DEF Contents
  <2> QED
    BY <1>6, <1>10, <2>1 DEF size
<1>12. \A k \in 0..Len(l) : Off(buf2, k) = Off(buf, k)
  <2>1. ASSUME NEW k \in 1..Len(l) PROVE m[k].offset = l[k].offset
    BY <1>3, <1>8, <1>9
  <2>2. \A k \in 0..Len(l) : k = 0 \/ k \in 1..Len(l)
    OBVIOUS
  <2> QED
    BY <1>1, <1>10, <2>1, <2>2 DEF Off
<1>13. Ordered(buf2)
  <2>1. \A k \in 0..Len(l) : k > 0 => k - 1 \in 0..Len(l)
    OBVIOUS
  <2> QED
    BY <1>1, <1>9, <1>10, <1>12, <2>1 DEF Ordered
<1>14. buf2.lheads[i] = h
  BY <1>1, <1>9, <1>10
<1>15. \A k \in 1..Len(buf.lheads) : k # i => buf2.lheads[k] = buf.lheads[k]
  BY <1>1, <1>9, <1>10
<1> QED
  BY <1>1, <1>8, <1>9, <1>10, <1>11, <1>12, <1>13, <1>14, <1>15

(* What listEnd leaves as it was.                                          *)
OnlyCloses(buf, i, buf2) ==
  /\ buf2 \in Contents /\ Ordered(buf2)
  /\ buf2.str = buf.str /\ Len(buf2.lheads) = Len(buf.lheads)
  /\ \A k \in 1..Len(buf.lheads) : k # i => buf2.lheads[k] = buf.lheads[k]

(* The contents of a list with the item that the list inside it becomes.   *)
WithItem(outer, inner) == outer \o (puthead(192, 247, Len(inner)) \o inner)

(* A list that is closed becomes an item of the list around it.            *)
LEMMA FrameCloses ==
  ASSUME NEW buf \in Contents, Ordered(buf), NEW i \in 1..Len(buf.lheads),
         NEW a, NEW outer, Frame(buf, a, i - 1, Off(buf, i), Mark(buf, i), outer),
         NEW inner, Frame(buf, i, Len(buf.lheads), Len(buf.str), size(buf), inner),
         NEW buf2, buf2 = listEnd(buf, i)
  PROVE  /\ Frame(buf2, a, Len(buf2.lheads), Len(buf2.str), size(buf2), WithItem(outer, inner))
         /\ OnlyCloses(buf, i, buf2)
<1>1. PICK b \in Nat : b = Len(buf.lheads)
  BY DEF Contents
<1>2. PICK o \in Nat : o = Off(buf, i) /\ o <= Len(buf.str)
  BY <1>1, OffType DEF Ordered
<1>3. /\ a \in Nat /\ i \in Nat /\ a <= i - 1 /\ i <= b
      /\ outer \in Seq(Int) /\ Len(outer) = Mark(buf, i) - Mark(buf, a)
      /\ inner \in Seq(Int) /\ Len(inner) = size(buf) - Mark(buf, i)
  BY <1>1 DEF Frame
<1>4. PICK n \in Nat : n = Len(inner)
  BY <1>3
<1>5. /\ buf2 \in Contents /\ Ordered(buf2)
      /\ buf2.str = buf.str /\ Len(buf2.lheads) = b
      /\ \A k \in 1..b : k # i => buf2.lheads[k] = buf.lheads[k]
      /\ \A k \in 0..b : Off(buf2, k) = Off(buf, k)
      /\ buf2.lheads[i] \in Heads /\ buf2.lheads[i].size = n
      /\ size(buf2) = size(buf) + headsize(n)
  BY <1>1, <1>3, <1>4, ListEndIs
<1>6. PICK f : Chain(buf, a, i - 1, f) /\ outer = f[i - 1] \o SubSeq(buf.str, Off(buf, i - 1) + 1, Off(buf, i))
  BY DEF Frame
<1>7. PICK g : Chain(buf, i, b, g) /\ inner = g[b] \o SubSeq(buf.str, Off(buf, b) + 1, Len(buf.str))
  BY <1>1 DEF Frame
<1>8. buf2.str = buf.str \o <<>> /\ <<>> \in Seq(Int)
  <2>1. PICK s \in Seq(Int) : s = buf.str
    BY DEF Contents
  <2>2. s = s \o <<>> /\ <<>> \in Seq(Int)
    BY ConcatEmptySeq
  <2> QED
    BY <1>5, <2>1, <2>2
<1>9. Chain(buf2, a, i - 1, f)
  <2>1. PICK j \in Nat : j = i - 1 /\ a <= j /\ j <= Len(buf.lheads)
    BY <1>1, <1>3
  <2>2. \A k \in a..j : Off(buf2, k) = Off(buf, k)
    BY <1>1, <1>3, <1>5, <2>1
  <2>3. \A k \in (a + 1)..j : buf2.lheads[k] = buf.lheads[k]
    BY <1>1, <1>3, <1>5, <2>1, SMTT(60)
  <2> QED
    BY <1>3, <1>6, <1>8, <2>1, <2>2, <2>3, ChainKept
<1>10. Chain(buf2, i, b, g)
  <2>1. \A k \in i..b : Off(buf2, k) = Off(buf, k)
    BY <1>3, <1>5
  <2>2. \A k \in (i + 1)..b : buf2.lheads[k] = buf.lheads[k]
    BY <1>3, <1>5
  <2>3. b <= Len(buf.lheads)
    BY <1>1
  <2> QED
    BY <1>3, <1>7, <1>8, <2>1, <2>2, <2>3, ChainKept, Zenon
<1>11. PICK h \in Seq(Int) : h = puthead(192, 247, n) /\ h = encodeHead(buf2.lheads[i]) /\ Len(h) = headsize(n)
  BY <1>5, EncodeHeadType DEF encodeHead
<1>12. outer \o h \in Seq(Int)
  BY <1>3
<1>13. PICK p \in Seq(Int) : p = outer \o h
  BY <1>12
<1>14. Joint(buf2, f, i, p)
  <2>1. Off(buf2, i - 1) = Off(buf, i - 1) /\ Off(buf2, i) = Off(buf, i)
    BY <1>3, <1>5
  <2> QED
    BY <1>5, <1>6, <1>11, <1>13, <2>1, Zenon DEF Joint
<1>15. PICK c : Chain(buf2, a, b, c) /\ c[b] = p \o g[b]
  <2>1. a < i /\ i <= b /\ b <= Len(buf2.lheads) /\ a \in Nat /\ i \in Nat
    BY <1>3, <1>5
  <2>2. buf2 \in Contents /\ Ordered(buf2)
    BY <1>5
  <2>3. Continued(buf2, a, b, p, g)
    BY <1>9, <1>10, <1>14, <2>1, <2>2, ChainsJoin
  <2> QED
    BY <2>3 DEF Continued
<1>16. PICK x \in Seq(Int) : x = g[b]
  BY <1>3, <1>7 DEF Chain
<1>17. PICK r \in Seq(Int) : r = SubSeq(buf.str, Off(buf, b) + 1, Len(buf.str))
  <2>1. b \in 0..Len(buf.lheads)
    BY <1>1
  <2>2. PICK q \in Nat : q = Len(buf.str) /\ q <= Len(buf.str)
    BY DEF Contents
  <2>3. SubSeq(buf.str, Off(buf, b) + 1, q) \in Seq(Int)
    BY <2>1, <2>2, BetweenType
  <2> QED
    BY <2>2, <2>3
<1>18. outer \o (h \o inner) = c[b] \o r
  <2>1. inner = x \o r
    BY <1>7, <1>16, <1>17
  <2>2. (outer \o h) \o inner = outer \o (h \o inner)
    BY <1>3, Assoc, ZenonT(80)
  <2>3. (p \o x) \o r = p \o (x \o r)
    BY Assoc
  <2> QED
    BY <1>13, <1>15, <1>16, <2>1, <2>2, <2>3, Zenon
<1>19. \E d : Chain(buf2, a, b, d)
           /\ outer \o (h \o inner) = d[b] \o SubSeq(buf2.str, Off(buf2, b) + 1, Len(buf2.str))
  <2>1. Off(buf2, b) = Off(buf, b)
    BY <1>1, <1>5
  <2> QED
    BY <1>5, <1>15, <1>17, <1>18, <2>1, Zenon
<1>20. /\ h \o inner \in Seq(Int) /\ Len(h \o inner) = Len(h) + Len(inner)
  BY <1>3, ConcatProperties
<1>21. PICK item \in Seq(Int) : item = h \o inner
  BY <1>20
<1>22. outer \o item \in Seq(Int) /\ Len(outer \o item) = Len(outer) + Len(item)
  BY <1>3, ConcatProperties
<1>23. Mark(buf2, a) = Mark(buf, a)
  <2>1. a # 0 => a \in 1..b /\ a # i
    BY <1>3
  <2>2. a # 0 => buf2.lheads[a] = buf.lheads[a]
    BY <1>5, <2>1
  <2> QED
    BY <2>2 DEF Mark
<1>24. Len(outer \o item) = size(buf2) - Mark(buf2, a)
  <2>1. Mark(buf, a) \in Nat /\ Mark(buf, i) \in Nat
    <3>1. a \in 0..Len(buf.lheads) /\ i \in 0..Len(buf.lheads)
      BY <1>1, <1>3
    <3> QED
      BY <3>1, MarkType
  <2>2. PICK ma \in Nat, mi \in Nat : ma = Mark(buf, a) /\ mi = Mark(buf, i)
    BY <2>1
  <2>3. PICK sz \in Nat : sz = size(buf)
    BY DEF size, Contents
  <2>4. PICK hs \in Nat : hs = headsize(n)
    BY <1>11
  <2>5. PICK k \in Nat, j \in Nat : k = Len(outer) /\ j = Len(item)
    BY <1>3
  <2>6. k = mi - ma /\ n = sz - mi /\ j = hs + n
    BY <1>3, <1>4, <1>11, <1>20, <1>21, <2>2, <2>3, <2>4, <2>5
  <2>7. k + j = sz + hs - ma
    BY <2>6
  <2>8. Len(outer \o item) = k + j /\ size(buf2) = sz + hs /\ Mark(buf2, a) = ma
    BY <1>5, <1>22, <1>23, <2>2, <2>3, <2>4, <2>5
  <2> QED
    BY <2>7, <2>8
<1>25. /\ a <= b /\ b <= Len(buf2.lheads)
       /\ Len(buf2.str) \in Nat /\ Off(buf2, b) <= Len(buf2.str) /\ Len(buf2.str) <= Len(buf2.str)
  BY <1>1, <1>3, <1>5, SMTT(80) DEF Ordered, Contents
<1>26. Frame(buf2, a, b, Len(buf2.str), size(buf2), outer \o item)
  BY <1>3, <1>19, <1>21, <1>22, <1>24, <1>25, Zenon DEF Frame
<1>27. OnlyCloses(buf, i, buf2)
  BY <1>1, <1>5 DEF OnlyCloses
<1> QED
  BY <1>4, <1>5, <1>11, <1>21, <1>26, <1>27 DEF WithItem

-----------------------------------------------------------------------------
(* A buffer that is being filled.                                          *)

(* The header behind which frame j begins; 0 is the beginning.             *)
Outer(open, j) == IF j = 1 THEN 0 ELSE open[j - 1]

(* frames has what the top level and each open list hold up to the header  *)
(* of the next one inside it, and the last what comes up to the end.       *)
Filling(open, frames, buf) ==
  /\ Ordered(buf)
  /\ open \in Seq(Nat \ {0}) /\ frames \in Seq(Seq(Int))
  /\ Len(frames) = Len(open) + 1
  /\ \A j \in 1..Len(open) : open[j] <= Len(buf.lheads) /\ \A k \in 1..(j - 1) : open[k] < open[j]
  /\ \A j \in 1..Len(open) :
       Frame(buf, Outer(open, j), open[j] - 1, Off(buf, open[j]), Mark(buf, open[j]), frames[j])
  /\ Frame(buf, Outer(open, Len(open) + 1), Len(buf.lheads), Len(buf.str), size(buf), frames[Len(open) + 1])

LEMMA BeginsItself == ASSUME NEW s \in Seq(Int) PROVE Begins(s, s)
<1>1. s = s \o <<>> /\ <<>> \in Seq(Int)
  BY ConcatEmptySeq
<1> QED
  BY <1>1, Zenon DEF Begins

LEMMA FillingBegins ==
  /\ emptyBuffer \in Contents
  /\ Filling(<<>>, <<<<>>>>, emptyBuffer)
<1>1. emptyBuffer \in Contents /\ emptyBuffer.str = <<>> /\ emptyBuffer.lheads = <<>> /\ emptyBuffer.lhsize = 0
  BY DEF emptyBuffer, Contents
<1>2. PICK buf \in Contents : buf = emptyBuffer
  BY <1>1
<1>3. Len(buf.str) = 0 /\ Len(buf.lheads) = 0 /\ size(buf) = 0 /\ Off(buf, 0) = 0 /\ Mark(buf, 0) = 0
  BY <1>1, <1>2 DEF size, Off, Mark
<1>4. Ordered(buf)
  BY <1>3 DEF Ordered
<1>5. Frame(buf, 0, 0, Len(buf.str), size(buf), <<>>)
  <2>1. PICK n \in Nat : n = 0 /\ n = Len(buf.lheads) /\ Off(buf, n) = Len(buf.str) /\ Mark(buf, n) = size(buf)
    BY <1>3
  <2>2. Frame(buf, n, n, Len(buf.str), size(buf), <<>>)
    BY <1>4, <2>1, FrameOpens
  <2> QED
    BY <2>1, <2>2
<1>6. PICK o \in Seq(Nat \ {0}), e \in Seq(Seq(Int)) :
        o = <<>> /\ e = <<<<>>>> /\ Len(o) = 0 /\ Len(e) = 1 /\ e[1] = <<>>
  <2>1. <<>> \in Seq(Nat \ {0}) /\ Len(<<>>) = 0
    BY EmptySeq
  <2>2. <<>> \in Seq(Int)
    BY EmptySeq
  <2>3. PICK z \in Seq(Int) : z = <<>>
    BY <2>2
  <2>4. <<z>> \in Seq(Seq(Int)) /\ Len(<<z>>) = 1 /\ <<z>>[1] = z
    OBVIOUS
  <2> QED
    BY <2>1, <2>3, <2>4
<1>7. Filling(o, e, buf)
  <2>1. Outer(o, Len(o) + 1) = 0 /\ e[Len(o) + 1] = <<>>
    BY <1>6 DEF Outer
  <2>2. Frame(buf, Outer(o, Len(o) + 1), Len(buf.lheads), Len(buf.str), size(buf), e[Len(o) + 1])
    BY <1>3, <1>5, <2>1
  <2>3. \A j \in 1..Len(o) : FALSE
    BY <1>6
  <2>4. Len(e) = Len(o) + 1
    BY <1>6
  <2> QED
    BY <1>4, <2>2, <2>3, <2>4 DEF Filling
<1> QED
  BY <1>1, <1>2, <1>6, <1>7

(* t is written behind what is there.                                      *)
Writes(buf, frames, t, buf2, frames2) ==
  buf2 = Write(buf, t) /\ frames2 = [frames EXCEPT ![Len(frames)] = @ \o t]

LEMMA FillingWrites ==
  ASSUME NEW buf \in Contents, NEW open, NEW frames, Filling(open, frames, buf),
         NEW t \in Seq(Int), NEW buf2, NEW frames2, Writes(buf, frames, t, buf2, frames2)
  PROVE  buf2 \in Contents /\ Filling(open, frames2, buf2) /\ Begins(frames[1], frames2[1])
<1> USE DEF Writes
<1>1. /\ Ordered(buf)
      /\ open \in Seq(Nat \ {0}) /\ frames \in Seq(Seq(Int))
      /\ Len(frames) = Len(open) + 1
  BY DEF Filling
<1>2. PICK n \in Nat : n = Len(open)
  BY <1>1
<1>3. PICK last \in Seq(Int) : last = frames[n + 1]
  BY <1>1, <1>2, ElementOfSeq
<1>4. PICK w \in Seq(Int) : w = last \o t
  <2>1. last \o t \in Seq(Int)
    OBVIOUS
  <2> QED
    BY <2>1
<1>5. /\ frames2 \in Seq(Seq(Int)) /\ Len(frames2) = n + 1
      /\ frames2[n + 1] = w
      /\ \A j \in 1..n : frames2[j] = frames[j]
  <2>1. frames2 = [frames EXCEPT ![n + 1] = w]
    BY <1>1, <1>2, <1>3, <1>4
  <2>2. n + 1 \in 1..Len(frames)
    BY <1>1, <1>2
  <2> QED
    BY <1>1, <1>2, <2>1, <2>2, ExceptSeq
<1>6. /\ buf2 \in Contents /\ Ordered(buf2)
      /\ buf2.str = buf.str \o t /\ buf2.lheads = buf.lheads
  BY <1>1, WriteIs
<1>7. Frame(buf2, Outer(open, n + 1), Len(buf2.lheads), Len(buf2.str), size(buf2), w)
  <2>1. Frame(buf, Outer(open, n + 1), Len(buf.lheads), Len(buf.str), size(buf), last)
    BY <1>2, <1>3 DEF Filling
  <2> QED
    BY <1>1, <1>4, <2>1, FrameGrows
<1>8. ASSUME NEW j \in 1..n
      PROVE  Frame(buf2, Outer(open, j), open[j] - 1, Off(buf2, open[j]), Mark(buf2, open[j]), frames2[j])
  <2>1. Frame(buf, Outer(open, j), open[j] - 1, Off(buf, open[j]), Mark(buf, open[j]), frames[j])
    BY <1>2 DEF Filling
  <2>2. Off(buf2, open[j]) = Off(buf, open[j]) /\ Mark(buf2, open[j]) = Mark(buf, open[j])
    BY <1>6 DEF Off, Mark
  <2>3. open[j] - 1 <= Len(buf2.lheads) /\ \A k \in 1..(open[j] - 1) : buf2.lheads[k] = buf.lheads[k]
    BY <1>6, <2>1 DEF Frame
  <2>4. Frame(buf2, Outer(open, j), open[j] - 1, Off(buf, open[j]), Mark(buf, open[j]), frames[j])
    BY <1>1, <1>6, <2>1, <2>3, FrameKept
  <2> QED
    BY <1>5, <2>2, <2>4
<1>9. \A j \in 1..Len(open) : open[j] <= Len(buf2.lheads) /\ \A k \in 1..(j - 1) : open[k] < open[j]
  BY <1>6 DEF Filling
<1>10. Filling(open, frames2, buf2)
  BY <1>1, <1>2, <1>5, <1>6, <1>7, <1>8, <1>9 DEF Filling
<1>11. Begins(frames[1], frames2[1])
  <2>1. CASE n = 0
    <3>1. frames[1] = last /\ frames2[1] = w
      BY <1>3, <1>5, <2>1
    <3>2. w = last \o t
      BY <1>4
    <3> QED
      BY <3>1, <3>2, Zenon DEF Begins
  <2>2. CASE n # 0
    <3>1. frames2[1] = frames[1] /\ frames[1] \in Seq(Int)
      BY <1>1, <1>2, <1>5, <2>2, ElementOfSeq
    <3>2. PICK r \in Seq(Int) : r = frames[1]
      BY <3>1
    <3> QED
      BY <3>1, <3>2, BeginsItself
  <2> QED
    BY <2>1, <2>2
<1> QED
  BY <1>6, <1>10, <1>11

(* A list is opened.                                                       *)
Opens(buf, open, frames, buf2, open2, frames2) ==
  /\ buf2 = list(buf)
  /\ open2 = Append(open, Len(buf.lheads) + 1)
  /\ frames2 = Append(frames, <<>>)

LEMMA FillingOpens ==
  ASSUME NEW buf \in Contents, NEW open, NEW frames, Filling(open, frames, buf),
         NEW buf2, NEW open2, NEW frames2, Opens(buf, open, frames, buf2, open2, frames2)
  PROVE  buf2 \in Contents /\ Filling(open2, frames2, buf2) /\ frames2[1] = frames[1]
<1> USE DEF Opens
<1>1. /\ Ordered(buf)
      /\ open \in Seq(Nat \ {0}) /\ frames \in Seq(Seq(Int))
      /\ Len(frames) = Len(open) + 1
  BY DEF Filling
<1>2. PICK n \in Nat : n = Len(open)
  BY <1>1
<1>3. PICK l \in Nat : l = Len(buf.lheads)
  BY DEF Contents
<1>4. /\ open2 \in Seq(Nat \ {0}) /\ Len(open2) = n + 1 /\ open2[n + 1] = l + 1
      /\ \A j \in 1..n : open2[j] = open[j]
  <2>1. PICK e \in Nat \ {0} : e = l + 1
    OBVIOUS
  <2>2. open2 = Append(open, e)
    BY <1>3, <2>1
  <2> QED
    BY <1>1, <1>2, <2>1, <2>2, AppendProperties
<1>5. /\ frames2 \in Seq(Seq(Int)) /\ Len(frames2) = n + 2 /\ frames2[n + 2] = <<>>
      /\ \A j \in 1..(n + 1) : frames2[j] = frames[j]
  <2>1. PICK e \in Seq(Int) : e = <<>>
    BY EmptySeq
  <2>2. frames2 = Append(frames, e)
    BY <2>1
  <2> QED
    BY <1>1, <1>2, <2>1, <2>2, AppendProperties
<1>6. /\ buf2 \in Contents /\ Ordered(buf2)
      /\ buf2.str = buf.str /\ size(buf2) = size(buf)
      /\ Len(buf2.lheads) = l + 1
      /\ \A k \in 1..l : buf2.lheads[k] = buf.lheads[k]
      /\ Off(buf2, l + 1) = Len(buf.str)
      /\ Mark(buf2, l + 1) = size(buf)
  BY <1>1, <1>3, ListIs
<1>7. buf2.str = buf.str \o <<>> /\ <<>> \in Seq(Int)
  <2>1. PICK s \in Seq(Int) : s = buf.str
    BY DEF Contents
  <2>2. s = s \o <<>> /\ <<>> \in Seq(Int)
    BY ConcatEmptySeq
  <2> QED
    BY <1>6, <2>1, <2>2
<1>8. \A j \in 1..n : open[j] \in Nat \ {0} /\ open[j] <= l
  <2>1. \A j \in 1..n : open[j] <= l
    BY <1>2, <1>3 DEF Filling
  <2> QED
    BY <1>1, <1>2, <2>1, ElementOfSeq
<1>9. \A j \in 1..(n + 1) : Outer(open2, j) = Outer(open, j)
  BY <1>4 DEF Outer
<1>10. ASSUME NEW j \in 1..n
       PROVE  Frame(buf2, Outer(open2, j), open2[j] - 1, Off(buf2, open2[j]), Mark(buf2, open2[j]), frames2[j])
  <2>1. Frame(buf, Outer(open, j), open[j] - 1, Off(buf, open[j]), Mark(buf, open[j]), frames[j])
    BY <1>2 DEF Filling
  <2>2. PICK i \in Nat \ {0} : i = open[j] /\ i <= l
    BY <1>8
  <2>3. i - 1 <= Len(buf2.lheads) /\ \A k \in 1..(i - 1) : buf2.lheads[k] = buf.lheads[k]
    BY <1>6, <2>2
  <2>4. Frame(buf2, Outer(open, j), i - 1, Off(buf, i), Mark(buf, i), frames[j])
    BY <1>1, <1>7, <2>1, <2>2, <2>3, FrameKept
  <2>5. Off(buf2, i) = Off(buf, i) /\ Mark(buf2, i) = Mark(buf, i)
    BY <1>6, <2>2, SMTT(80) DEF Off, Mark
  <2>6. open2[j] = i /\ frames2[j] = frames[j] /\ Outer(open2, j) = Outer(open, j)
    BY <1>4, <1>5, <1>9, <2>2, SMTT(80)
  <2> QED
    BY <2>4, <2>5, <2>6
<1>11. Frame(buf2, Outer(open2, n + 1), l, Off(buf2, l + 1), Mark(buf2, l + 1), frames2[n + 1])
  <2>1. Frame(buf, Outer(open, n + 1), l, Len(buf.str), size(buf), frames[n + 1])
    BY <1>2, <1>3 DEF Filling
  <2>2. Frame(buf2, Outer(open, n + 1), l, Len(buf.str), size(buf), frames[n + 1])
    <3>1. l <= Len(buf2.lheads)
      BY <1>6
    <3> QED
      BY <1>1, <1>6, <1>7, <2>1, <3>1, FrameKept
  <2>3. frames2[n + 1] = frames[n + 1] /\ Outer(open2, n + 1) = Outer(open, n + 1)
    BY <1>5, <1>9
  <2> QED
    BY <1>6, <2>2, <2>3
<1>12. Frame(buf2, Outer(open2, n + 2), l + 1, Len(buf2.str), size(buf2), frames2[n + 2])
  <2>1. PICK m \in Nat : m = l + 1
    OBVIOUS
  <2>2. Frame(buf2, m, m, Len(buf2.str), size(buf2), <<>>)
    BY <1>6, <2>1, FrameOpens
  <2>3. Outer(open2, n + 2) = l + 1
    BY <1>4 DEF Outer
  <2> QED
    BY <1>5, <2>1, <2>2, <2>3
<1>13. \A j \in 1..(n + 1) : open2[j] <= l + 1 /\ \A k \in 1..(j - 1) : open2[k] < open2[j]
  <2>1. \A j \in 1..n : \A k \in 1..(j - 1) : open[k] < open[j]
    BY <1>2 DEF Filling
  <2> QED
    BY <1>4, <1>8, <2>1
<1>14. Filling(open2, frames2, buf2)
  <2>1. \A j \in 1..(n + 1) :
          Frame(buf2, Outer(open2, j), open2[j] - 1, Off(buf2, open2[j]), Mark(buf2, open2[j]), frames2[j])
    <3>1. open2[n + 1] - 1 = l
      BY <1>4
    <3>2. \A j \in 1..(n + 1) : j \in 1..n \/ j = n + 1
      OBVIOUS
    <3> QED
      BY <1>4, <1>10, <1>11, <3>1, <3>2
  <2>2. Len(open2) + 1 = n + 2
    BY <1>4
  <2> QED
    BY <1>4, <1>5, <1>6, <1>12, <1>13, <2>1, <2>2 DEF Filling
<1> QED
  BY <1>5, <1>6, <1>14

(* Headers before the header i.                                            *)
LEMMA Below ==
  ASSUME NEW k \in Nat \ {0}, NEW i \in Nat, NEW l \in Nat, i <= l, k < i
  PROVE  /\ k \in 1..l /\ k # i /\ k - 1 <= l
         /\ \A h \in 1..(k - 1) : h \in 1..l /\ h # i
OBVIOUS

(* The list of header i, the last one that is open, is closed; item is its *)
(* encoding.                                                               *)
Closes(buf, open, frames, i, item, buf2, open2, frames2) ==
  /\ i = Top(open) /\ buf2 = listEnd(buf, i) /\ open2 = Pop(open)
  /\ item = puthead(192, 247, Len(Top(frames))) \o Top(frames)
  /\ frames2 = [Pop(frames) EXCEPT ![Len(Pop(frames))] = @ \o item]

LEMMA FillingCloses ==
  ASSUME NEW buf \in Contents, NEW open, NEW frames, Filling(open, frames, buf), open # <<>>,
         NEW i, NEW item, NEW buf2, NEW open2, NEW frames2,
         Closes(buf, open, frames, i, item, buf2, open2, frames2)
  PROVE  buf2 \in Contents /\ Filling(open2, frames2, buf2) /\ Begins(frames[1], frames2[1])
<1> USE DEF Closes
<1>1. /\ Ordered(buf)
      /\ open \in Seq(Nat \ {0}) /\ frames \in Seq(Seq(Int))
      /\ Len(frames) = Len(open) + 1
  BY DEF Filling
<1>2. PICK n \in Nat : n + 1 = Len(open)
  <2>1. PICK m \in Nat \ {0} : m = Len(open)
    BY <1>1, EmptySeq
  <2>2. m - 1 \in Nat /\ (m - 1) + 1 = m
    OBVIOUS
  <2> QED
    BY <2>1, <2>2
<1>3. i \in Nat \ {0} /\ i = open[n + 1] /\ i <= Len(buf.lheads)
  <2>1. open[n + 1] \in Nat \ {0} /\ open[n + 1] <= Len(buf.lheads)
    <3>1. n + 1 \in 1..Len(open)
      BY <1>2
    <3>2. open[n + 1] <= Len(buf.lheads)
      BY <3>1 DEF Filling
    <3> QED
      BY <1>1, <3>1, <3>2, ElementOfSeq
  <2> QED
    BY <1>2, <2>1 DEF Top
<1>4. PICK inner \in Seq(Int) : inner = frames[n + 2] /\ inner = Top(frames)
  <2>1. n + 2 \in 1..Len(frames) /\ Len(frames) = n + 2
    BY <1>1, <1>2
  <2>2. frames[n + 2] \in Seq(Int)
    BY <1>1, <2>1, ElementOfSeq
  <2> QED
    BY <2>1, <2>2 DEF Top
<1>5. PICK outer \in Seq(Int) : outer = frames[n + 1]
  <2>1. n + 1 \in 1..Len(frames)
    BY <1>1, <1>2
  <2> QED
    BY <1>1, <2>1, ElementOfSeq
<1>6. PICK e \in Seq(Int) : e = item
  <2>1. PICK m \in Nat : m = Len(inner)
    OBVIOUS
  <2>2. \A x, y \in Int : puthead(x, y, m) \in Seq(Int)
    BY PutheadType
  <2>3. puthead(192, 247, m) \in Seq(Int)
    BY <2>2
  <2>4. puthead(192, 247, m) \o inner \in Seq(Int)
    BY <2>3
  <2> QED
    BY <1>4, <2>1, <2>4
<1>7. PICK w \in Seq(Int) : w = outer \o e
  <2>1. outer \o e \in Seq(Int)
    OBVIOUS
  <2> QED
    BY <2>1
<1>8. /\ open2 \in Seq(Nat \ {0}) /\ Len(open2) = n
      /\ \A j \in 1..n : open2[j] = open[j]
  <2>1. open2 = SubSeq(open, 1, n)
    BY <1>2 DEF Pop
  <2>2. \A j \in 1..n : open[j] \in Nat \ {0}
    BY <1>1, <1>2, ElementOfSeq, SMTT(80)
  <2>3. 1 \in Int /\ n \in Int
    OBVIOUS
  <2>4. /\ SubSeq(open, 1, n) \in Seq(Nat \ {0})
        /\ Len(SubSeq(open, 1, n)) = IF 1 <= n THEN n - 1 + 1 ELSE 0
        /\ \A j \in 1..(n - 1 + 1) : SubSeq(open, 1, n)[j] = open[1 + j - 1]
    BY <2>2, <2>3, SubSeqProperties
  <2>5. \A j \in 1..n : j \in 1..(n - 1 + 1) /\ 1 + j - 1 = j
    OBVIOUS
  <2>6. Len(SubSeq(open, 1, n)) = n
    BY <2>4
  <2> QED
    BY <2>1, <2>4, <2>5, <2>6
<1>9. PICK p \in Seq(Seq(Int)) : p = Pop(frames) /\ Len(p) = n + 1 /\ \A j \in 1..(n + 1) : p[j] = frames[j]
  <2>1. PICK m \in Nat : m = n + 1
    OBVIOUS
  <2>2. Pop(frames) = SubSeq(frames, 1, m)
    BY <1>1, <1>2, <2>1 DEF Pop
  <2>3. \A j \in 1..m : frames[j] \in Seq(Int)
    BY <1>1, <1>2, <2>1, ElementOfSeq, SMTT(40)
  <2>4. 1 \in Int /\ m \in Int
    OBVIOUS
  <2>5. /\ SubSeq(frames, 1, m) \in Seq(Seq(Int))
        /\ Len(SubSeq(frames, 1, m)) = IF 1 <= m THEN m - 1 + 1 ELSE 0
        /\ \A j \in 1..(m - 1 + 1) : SubSeq(frames, 1, m)[j] = frames[1 + j - 1]
    BY <2>3, <2>4, SubSeqProperties
  <2>6. \A j \in 1..m : j \in 1..(m - 1 + 1) /\ 1 + j - 1 = j
    OBVIOUS
  <2>7. Len(SubSeq(frames, 1, m)) = m
    BY <2>4, <2>5
  <2>8. \A j \in 1..m : SubSeq(frames, 1, m)[j] = frames[j]
    BY <2>5, <2>6
  <2> QED
    BY <2>1, <2>2, <2>5, <2>7, <2>8
<1>10. /\ frames2 \in Seq(Seq(Int)) /\ Len(frames2) = n + 1
       /\ frames2[n + 1] = w
       /\ \A j \in 1..n : frames2[j] = frames[j]
  <2>1. n + 1 \in 1..Len(p) /\ p[n + 1] = outer
    BY <1>5, <1>9
  <2>2. frames2 = [p EXCEPT ![n + 1] = w]
    BY <1>6, <1>7, <1>9, <2>1
  <2>3. /\ [p EXCEPT ![n + 1] = w] \in Seq(Seq(Int))
        /\ Len([p EXCEPT ![n + 1] = w]) = Len(p)
        /\ \A j \in 1..Len(p) : [p EXCEPT ![n + 1] = w][j] = IF j = n + 1 THEN w ELSE p[j]
    BY <2>1, ExceptSeq
  <2>4. \A j \in 1..n : j \in 1..Len(p) /\ j \in 1..(n + 1) /\ j # n + 1
    BY <1>9
  <2>5. frames2 \in Seq(Seq(Int)) /\ Len(frames2) = n + 1
    BY <1>9, <2>2, <2>3
  <2>6. \A j \in 1..Len(p) : frames2[j] = IF j = n + 1 THEN w ELSE p[j]
    BY <2>2, <2>3
  <2>7. \A j \in 1..n : frames2[j] = frames[j]
    BY <1>9, <2>4, <2>6
  <2>8. frames2[n + 1] = w
    BY <2>1, <2>6
  <2> QED
    BY <2>5, <2>7, <2>8
<1>11. Frame(buf, Outer(open, n + 1), i - 1, Off(buf, i), Mark(buf, i), outer)
  <2>1. n + 1 \in 1..Len(open)
    BY <1>2
  <2> QED
    BY <1>3, <1>5, <2>1 DEF Filling
<1>12. Frame(buf, i, Len(buf.lheads), Len(buf.str), size(buf), inner)
  <2>1. Outer(open, n + 2) = i
    <3>1. n + 2 # 1 /\ (n + 2) - 1 = n + 1
      OBVIOUS
    <3> QED
      BY <1>3, <3>1 DEF Outer
  <2>2. Len(open) + 1 = n + 2
    BY <1>2
  <2> QED
    BY <1>4, <2>1, <2>2 DEF Filling
<1>13. Frame(buf2, Outer(open, n + 1), Len(buf2.lheads), Len(buf2.str), size(buf2), w)
  <2>1. i \in 1..Len(buf.lheads)
    BY <1>3 DEF Contents
  <2>3. Frame(buf2, Outer(open, n + 1), Len(buf2.lheads), Len(buf2.str), size(buf2), WithItem(outer, inner))
    BY <1>1, <1>11, <1>12, <2>1, FrameCloses
  <2>4. w = WithItem(outer, inner)
    BY <1>4, <1>6, <1>7, Zenon DEF WithItem
  <2> QED
    BY <2>3, <2>4
<1>14. /\ buf2 \in Contents /\ Ordered(buf2)
       /\ buf2.str = buf.str /\ Len(buf2.lheads) = Len(buf.lheads)
       /\ \A k \in 1..Len(buf.lheads) : k # i => buf2.lheads[k] = buf.lheads[k]
  <2>1. i \in 1..Len(buf.lheads)
    BY <1>3 DEF Contents
  <2>2. OnlyCloses(buf, i, buf2)
    BY <1>1, <1>11, <1>12, <2>1, FrameCloses
  <2> QED
    BY <2>2 DEF OnlyCloses
<1>15. buf2.str = buf.str \o <<>> /\ <<>> \in Seq(Int)
  <2>1. PICK s \in Seq(Int) : s = buf.str
    BY DEF Contents
  <2>2. s = s \o <<>> /\ <<>> \in Seq(Int)
    BY ConcatEmptySeq
  <2> QED
    BY <1>14, <2>1, <2>2
<1>16. \A j \in 1..n : open[j] \in Nat \ {0} /\ open[j] < i
  <2>1. \A j \in 1..n : j \in 1..Len(open) /\ j \in 1..((n + 1) - 1) /\ n + 1 \in 1..Len(open)
    BY <1>2
  <2>2. \A j \in 1..n : open[j] < open[n + 1]
    BY <2>1 DEF Filling
  <2> QED
    BY <1>1, <1>3, <2>1, <2>2, ElementOfSeq
<1>17. \A j \in 1..(n + 1) : Outer(open2, j) = Outer(open, j)
  BY <1>8 DEF Outer
<1>18. ASSUME NEW j \in 1..n
       PROVE  Frame(buf2, Outer(open2, j), open2[j] - 1, Off(buf2, open2[j]), Mark(buf2, open2[j]), frames2[j])
  <2>1. Frame(buf, Outer(open, j), open[j] - 1, Off(buf, open[j]), Mark(buf, open[j]), frames[j])
    <3>1. j \in 1..Len(open)
      BY <1>2
    <3> QED
      BY <3>1 DEF Filling
  <2>2. PICK k \in Nat \ {0} : k = open[j] /\ k < i
    BY <1>16
  <2>3. PICK l \in Nat : l = Len(buf.lheads) /\ l = Len(buf2.lheads)
    BY <1>14 DEF Contents
  <2>4. k - 1 <= Len(buf2.lheads) /\ \A h \in 1..(k - 1) : buf2.lheads[h] = buf.lheads[h]
    <3>0. i \in Nat /\ i <= l /\ k < i
      BY <1>3, <2>2, <2>3
    <3>1. \A h \in 1..(k - 1) : h \in 1..l /\ h # i
      BY <3>0, Below, Zenon
    <3>2. k - 1 <= l
      BY <3>0, Below, Zenon
    <3> QED
      BY <1>14, <2>3, <3>1, <3>2
  <2>5. Frame(buf2, Outer(open, j), k - 1, Off(buf, k), Mark(buf, k), frames[j])
    BY <1>1, <1>15, <2>1, <2>2, <2>4, FrameKept
  <2>6. Off(buf2, k) = Off(buf, k) /\ Mark(buf2, k) = Mark(buf, k)
    <3>0. i \in Nat /\ i <= l /\ k < i
      BY <1>3, <2>2, <2>3
    <3>1. k \in 1..l /\ k # i
      BY <3>0, Below, Zenon
    <3>2. buf2.lheads[k] = buf.lheads[k]
      BY <1>14, <2>3, <3>1
    <3> QED
      BY <3>2 DEF Off, Mark
  <2>7. open2[j] = k /\ frames2[j] = frames[j] /\ Outer(open2, j) = Outer(open, j)
    BY <1>8, <1>10, <1>17, <2>2, SMTT(80)
  <2> QED
    BY <2>5, <2>6, <2>7
<1>19. \A j \in 1..n : open2[j] <= Len(buf2.lheads) /\ \A k \in 1..(j - 1) : open2[k] < open2[j]
  <2>1. \A j \in 1..n : open[j] <= Len(buf.lheads) /\ \A k \in 1..(j - 1) : open[k] < open[j]
    <3>1. \A j \in 1..n : j \in 1..Len(open)
      BY <1>2
    <3> QED
      BY <3>1 DEF Filling
  <2>2. \A j \in 1..n : \A k \in 1..(j - 1) : k \in 1..n
    OBVIOUS
  <2>3. \A j \in 1..n : open2[j] <= Len(buf2.lheads)
    BY <1>8, <1>14, <2>1
  <2>4. \A j \in 1..n : \A k \in 1..(j - 1) : open2[k] < open2[j]
    BY <1>8, <2>1, <2>2
  <2> QED
    BY <2>3, <2>4
<1>20. Filling(open2, frames2, buf2)
  <2>1. Outer(open2, n + 1) = Outer(open, n + 1) /\ Len(open2) + 1 = n + 1
    BY <1>8, <1>17
  <2> QED
    BY <1>8, <1>10, <1>13, <1>14, <1>18, <1>19, <2>1 DEF Filling
<1>21. Begins(frames[1], frames2[1])
  <2>1. CASE n = 0
    <3>1. frames[1] = outer /\ frames2[1] = w
      <4>1. n + 1 = 1
        BY <2>1
      <4>2. frames[n + 1] = outer /\ frames2[n + 1] = w
        BY <1>5, <1>10
      <4> QED
        BY <4>1, <4>2, Zenon
    <3>2. w = outer \o e
      BY <1>7
    <3> QED
      BY <3>1, <3>2, Zenon DEF Begins
  <2>2. CASE n # 0
    <3>1. frames2[1] = frames[1] /\ frames[1] \in Seq(Int)
      <4>1. 1 \in 1..n /\ 1 \in 1..Len(frames)
        BY <1>1, <1>2, <2>2
      <4>2. frames2[1] = frames[1]
        BY <1>10, <4>1
      <4>3. frames[1] \in Seq(Int)
        BY <1>1, <4>1, ElementOfSeq
      <4> QED
        BY <4>2, <4>3
    <3>2. PICK r \in Seq(Int) : r = frames[1]
      BY <3>1
    <3> QED
      BY <3>1, <3>2, BeginsItself
  <2> QED
    BY <2>1, <2>2
<1> QED
  BY <1>14, <1>20, <1>21

(* When all lists are closed, the bytes that makeBytes and its like give   *)
(* are what was written, and as many as size says.                         *)
LEMMA FilledIsOutput ==
  ASSUME NEW buf \in Contents, NEW frames, Filling(<<>>, frames, buf)
  PROVE  /\ makeBytes(buf) = frames[1] /\ frames[1] \in Seq(Int)
         /\ size(buf) = Len(frames[1])
         /\ Frame(buf, 0, Len(buf.lheads), Len(buf.str), size(buf), frames[1])
<1>1. Frame(buf, 0, Len(buf.lheads), Len(buf.str), size(buf), frames[1])
  <2>1. Len(<<>>) + 1 = 1 /\ Outer(<<>>, 1) = 0
    BY EmptySeq DEF Outer
  <2>2. Frame(buf, Outer(<<>>, Len(<<>>) + 1), Len(buf.lheads), Len(buf.str), size(buf), frames[Len(<<>>) + 1])
    BY Zenon DEF Filling
  <2> QED
    BY <2>1, <2>2
<1>2. PICK f : /\ Chain(buf, 0, Len(buf.lheads), f)
               /\ frames[1] = f[Len(buf.lheads)] \o SubSeq(buf.str, Off(buf, Len(buf.lheads)) + 1, Len(buf.str))
  BY <1>1 DEF Frame
<1>3. makeBytes(buf) = frames[1]
  <2>1. Len(buf.lheads) \in Nat
    BY DEF Contents
  <2> QED
    BY <1>2, <2>1, MakeBytesIs, Zenon
<1>4. frames[1] \in Seq(Int) /\ Len(frames[1]) = size(buf) - Mark(buf, 0)
  BY <1>1 DEF Frame
<1>5. Mark(buf, 0) = 0 /\ size(buf) \in Nat
  BY DEF Mark, size, Contents
<1> QED
  BY <1>1, <1>3, <1>4, <1>5

-----------------------------------------------------------------------------
(* Reading.                                                                *)

(* Behind header k and the byte o of str, out has been read, of the whole  *)
(* output.                                                                 *)
Reached(buf, f, k, o, out, whole) ==
  /\ Ordered(buf)
  /\ k \in 0..Len(buf.lheads)
  /\ o \in Nat /\ Off(buf, k) <= o /\ o <= Len(buf.str)
  /\ k < Len(buf.lheads) => o <= Off(buf, k + 1)
  /\ Chain(buf, 0, Len(buf.lheads), f)
  /\ whole = f[Len(buf.lheads)] \o SubSeq(buf.str, Off(buf, Len(buf.lheads)) + 1, Len(buf.str))
  /\ out = f[k] \o SubSeq(buf.str, Off(buf, k) + 1, o)

LEMMA ReachedBegins ==
  ASSUME NEW buf \in Contents, NEW frames, Filling(<<>>, frames, buf)
  PROVE  \E f : Reached(buf, f, 0, 0, <<>>, frames[1])
<1>1. Frame(buf, 0, Len(buf.lheads), Len(buf.str), size(buf), frames[1]) /\ Ordered(buf)
  BY FilledIsOutput DEF Filling
<1>2. PICK f : /\ Chain(buf, 0, Len(buf.lheads), f)
               /\ frames[1] = f[Len(buf.lheads)] \o SubSeq(buf.str, Off(buf, Len(buf.lheads)) + 1, Len(buf.str))
  BY <1>1 DEF Frame
<1>3. f[0] = <<>>
  BY <1>2 DEF Chain
<1>4. Off(buf, 0) = 0
  BY DEF Off
<1>5. SubSeq(buf.str, 1, 0) = <<>>
  BY SubSeqEmpty
<1>6. <<>> = f[0] \o SubSeq(buf.str, Off(buf, 0) + 1, 0)
  <2>1. <<>> \o <<>> = <<>>
    BY ConcatEmptySeq, EmptySeq
  <2>2. Off(buf, 0) + 1 = 1
    BY <1>4
  <2> QED
    BY <1>3, <1>5, <2>1, <2>2, Zenon
<1>7. Len(buf.lheads) \in Nat /\ Len(buf.str) \in Nat
  BY DEF Contents
<1>8. 0 < Len(buf.lheads) => 0 <= Off(buf, 0 + 1)
  <2>1. 0 < Len(buf.lheads) => 1 \in 0..Len(buf.lheads)
    BY <1>7
  <2>2. 0 < Len(buf.lheads) => Off(buf, 1) \in Nat
    BY <2>1, OffType
  <2> QED
    BY <2>2
<1>9. 0 \in 0..Len(buf.lheads) /\ 0 \in Nat /\ Off(buf, 0) <= 0 /\ 0 <= Len(buf.str)
  BY <1>4, <1>7
<1>10. Reached(buf, f, 0, 0, <<>>, frames[1])
  BY <1>1, <1>2, <1>6, <1>8, <1>9, Zenon DEF Reached
<1> QED
  BY <1>10

LEMMA ReachedType ==
  ASSUME NEW buf \in Contents, NEW f, NEW k, NEW o, NEW out, NEW whole, Reached(buf, f, k, o, out, whole)
  PROVE  /\ f[k] \in Seq(Int) /\ Off(buf, k) \in Nat /\ k \in Nat
         /\ out \in Seq(Int)
<1>1. k \in 0..Len(buf.lheads) /\ Len(buf.lheads) \in Nat
  BY DEF Reached, Contents
<1>2. Off(buf, k) \in Nat
  BY <1>1, OffType
<1>3. PICK g \in Seq(Int) : g = f[k]
  BY <1>1 DEF Reached, Chain
<1>4. PICK r \in Seq(Int) : r = SubSeq(buf.str, Off(buf, k) + 1, o)
  <2>1. Ordered(buf) /\ o \in Nat /\ o <= Len(buf.str)
    BY DEF Reached
  <2> QED
    BY <1>1, <2>1, BetweenType
<1>5. out = g \o r
  BY <1>3, <1>4, Zenon DEF Reached
<1>6. g \o r \in Seq(Int)
  OBVIOUS
<1> QED
  BY <1>1, <1>2, <1>3, <1>5, <1>6

(* The bytes o + 1 to p of str are read behind out.                        *)
Takes(buf, o, p, piece, out, out2) == piece = SubSeq(buf.str, o + 1, p) /\ out2 = out \o piece

(* The next bytes of str.                                                  *)
LEMMA ReachedString ==
  ASSUME NEW buf \in Contents, NEW f, NEW k, NEW o, NEW out, NEW whole, Reached(buf, f, k, o, out, whole),
         NEW p \in Nat, o <= p, p <= Len(buf.str), k < Len(buf.lheads) => p <= Off(buf, k + 1),
         NEW piece, NEW out2, Takes(buf, o, p, piece, out, out2)
  PROVE  Reached(buf, f, k, p, out2, whole) /\ piece \in Seq(Int)
<1>0. piece = SubSeq(buf.str, o + 1, p) /\ out2 = out \o piece
  BY DEF Takes
<1>1. k \in Nat /\ k \in 0..Len(buf.lheads) /\ o \in Nat
  BY ReachedType DEF Reached
<1>2. PICK m \in Nat : m = Off(buf, k) /\ m <= o
  BY ReachedType DEF Reached
<1>3. PICK s \in Seq(Int) : s = buf.str
  BY DEF Contents
<1>4. PICK g \in Seq(Int) : g = f[k]
  BY ReachedType
<1>5. SubSeq(s, m + 1, o) \o SubSeq(s, o + 1, p) = SubSeq(s, m + 1, p)
  <2>1. PICK n \in 1..(Len(s) + 1) : n = m + 1 /\ m = n - 1
    BY <1>1, <1>2, <1>3
  <2>2. o \in (n - 1)..Len(s) /\ p \in o..Len(s)
    BY <1>1, <1>2, <1>3, <2>1
  <2>3. SubSeq(s, n, o) \o SubSeq(s, o + 1, p) = SubSeq(s, n, p)
    BY <2>2, ConcatAdjacentSubSeq
  <2> QED
    BY <2>1, <2>3
<1>6. PICK r \in Seq(Int) : r = SubSeq(s, m + 1, o)
  <2>1. PICK n \in Nat \ {0} : n = m + 1
    OBVIOUS
  <2>2. SubSeq(s, n, o) \in Seq(Int)
    BY <1>1, <1>3, SubType DEF Reached
  <2> QED
    BY <2>1, <2>2
<1>7. PICK t \in Seq(Int) : t = SubSeq(s, o + 1, p) /\ t = piece
  <2>1. PICK n \in Nat \ {0} : n = o + 1
    BY <1>1
  <2>2. SubSeq(s, n, p) \in Seq(Int)
    BY <1>3, SubType
  <2> QED
    BY <1>0, <1>3, <2>1, <2>2
<1>8. out2 = g \o SubSeq(s, m + 1, p)
  <2>1. out = g \o r
    BY <1>2, <1>3, <1>4, <1>6, Zenon DEF Reached
  <2>2. (g \o r) \o t = g \o (r \o t)
    BY Assoc
  <2> QED
    BY <1>0, <1>5, <1>6, <1>7, <2>1, <2>2, Zenon
<1>9. out2 = f[k] \o SubSeq(buf.str, Off(buf, k) + 1, p)
  BY <1>2, <1>3, <1>4, <1>8, Zenon
<1>10. Off(buf, k) <= p
  BY <1>1, <1>2
<1>11. Reached(buf, f, k, p, out2, whole)
  BY <1>9, <1>10, Zenon DEF Reached
<1> QED
  BY <1>7, <1>11

(* The next header.                                                        *)
LEMMA ReachedHead ==
  ASSUME NEW buf \in Contents, NEW f, NEW k, NEW o, NEW out, NEW whole, Reached(buf, f, k, o, out, whole),
         k < Len(buf.lheads), o = Off(buf, k + 1),
         NEW head, head = encodeHead(buf.lheads[k + 1]),
         NEW out2, out2 = out \o head
  PROVE  /\ Reached(buf, f, k + 1, o, out2, whole)
         /\ head \in Seq(Int) /\ head # <<>>
<1>1. PICK l \in Nat : l = Len(buf.lheads)
  BY DEF Contents
<1>2. PICK j \in 1..l : j = k + 1 /\ j \in (0 + 1)..l /\ j - 1 = k
  BY <1>1 DEF Reached
<1>3. buf.lheads[j] \in Heads
  BY <1>1, <1>2, ElementOfSeq DEF Contents
<1>4. head \in Seq(Int) /\ head # <<>>
  BY <1>2, <1>3, EncodeHeadType
<1>5. f[j] = f[j - 1] \o SubSeq(buf.str, Off(buf, j - 1) + 1, Off(buf, j)) \o encodeHead(buf.lheads[j])
  BY <1>1, <1>2, Zenon DEF Reached, Chain
<1>6. f[j] = out2
  BY <1>2, <1>5 DEF Reached
<1>7. PICK g \in Seq(Int) : g = f[j]
  <2>1. f \in [0..l -> Seq(Int)]
    BY <1>1, Zenon DEF Reached, Chain
  <2>2. j \in 0..l
    OBVIOUS
  <2> QED
    BY <2>1, <2>2
<1>8. SubSeq(buf.str, Off(buf, j) + 1, o) = <<>>
  <2>1. o \in Nat /\ o = Off(buf, j)
    BY <1>2 DEF Reached
  <2>2. o + 1 \in Int /\ o < o + 1 /\ o \in Int
    BY <2>1
  <2>3. SubSeq(buf.str, o + 1, o) = <<>>
    BY <2>2, SubSeqEmpty
  <2> QED
    BY <2>1, <2>3
<1>9. g \o <<>> = g
  BY ConcatEmptySeq
<1>10. out2 = f[j] \o SubSeq(buf.str, Off(buf, j) + 1, o)
  BY <1>6, <1>7, <1>8, <1>9, Zenon
<1>11. j < Len(buf.lheads) => o <= Off(buf, j + 1)
  <2>1. j < l => j + 1 \in 0..l /\ j + 1 > 0 /\ (j + 1) - 1 = j
    BY <1>1, <1>2
  <2>2. Ordered(buf) /\ o = Off(buf, j)
    BY <1>2 DEF Reached
  <2> QED
    BY <1>1, <2>1, <2>2 DEF Ordered
<1>12. j \in 0..Len(buf.lheads) /\ Off(buf, j) <= o
  BY <1>1, <1>2 DEF Reached
<1>13. Reached(buf, f, j, o, out2, whole)
  BY <1>10, <1>11, <1>12, Zenon DEF Reached
<1> QED
  BY <1>2, <1>4, <1>13

LEMMA BeginsTransitive ==
  ASSUME NEW p \in Seq(Int), NEW q, NEW r, Begins(p, q), Begins(q, r)
  PROVE  Begins(p, r)
<1>1. PICK t \in Seq(Int) : q = p \o t
  BY DEF Begins
<1>2. PICK u \in Seq(Int) : r = q \o u
  BY DEF Begins
<1>3. t \o u \in Seq(Int)
  OBVIOUS
<1>4. (p \o t) \o u = p \o (t \o u)
  BY Assoc
<1>5. r = p \o (t \o u)
  BY <1>1, <1>2, <1>4, Zenon
<1> QED
  BY <1>3, <1>5, Zenon DEF Begins

(* At the end of str, behind all headers, everything has been read.        *)
LEMMA ReachedAll ==
  ASSUME NEW buf, NEW f, NEW out, NEW whole,
         Reached(buf, f, Len(buf.lheads), Len(buf.str), out, whole)
  PROVE  out = whole
BY Zenon DEF Reached

(* What has been read is always the beginning of the whole output.         *)
LEMMA ReachedPrefix ==
  ASSUME NEW buf \in Contents, NEW f, NEW k, NEW o, NEW out, NEW whole, Reached(buf, f, k, o, out, whole)
  PROVE  Begins(out, whole)
<1>1. PICK l \in Nat : l = Len(buf.lheads)
  BY DEF Contents
<1>2. Ordered(buf) /\ k \in 0..l /\ k \in Nat /\ o \in Nat /\ o <= Len(buf.str) /\ out \in Seq(Int)
  BY <1>1, ReachedType DEF Reached
<1>3. CASE k = l
  <2>1. PICK p \in Nat : p = Len(buf.str) /\ p <= Len(buf.str) /\ o <= p
    BY <1>2 DEF Contents
  <2>2. PICK t : t = SubSeq(buf.str, o + 1, p)
    OBVIOUS
  <2>3. PICK w : w = out \o t
    OBVIOUS
  <2>4. ~(k < Len(buf.lheads))
    BY <1>1, <1>3
  <2>5. Reached(buf, f, k, p, w, whole) /\ t \in Seq(Int)
    <3>1. Takes(buf, o, p, t, out, w)
      BY <2>2, <2>3 DEF Takes
    <3> QED
      BY <2>1, <2>4, <3>1, ReachedString
  <2>6. Reached(buf, f, Len(buf.lheads), Len(buf.str), w, whole)
    BY <1>1, <1>3, <2>1, <2>5
  <2>7. w = whole
    BY <2>6, ReachedAll
  <2> QED
    BY <2>3, <2>5, <2>7, Zenon DEF Begins
<1>4. CASE k < l
  <2>1. PICK j \in 0..l : j = k + 1
    BY <1>2, <1>4
  <2>2. PICK p \in Nat : p = Off(buf, j) /\ p <= Len(buf.str) /\ o <= p
    <3>1. Off(buf, j) \in Nat /\ Off(buf, j) <= Len(buf.str)
      BY <1>1, <1>2, OffType DEF Ordered
    <3>2. o <= Off(buf, j)
      BY <1>1, <1>4, <2>1 DEF Reached
    <3> QED
      BY <3>1, <3>2
  <2>3. PICK t : t = SubSeq(buf.str, o + 1, p)
    OBVIOUS
  <2>4. PICK w : w = out \o t
    OBVIOUS
  <2>5. Reached(buf, f, k, p, w, whole) /\ t \in Seq(Int)
    <3>1. p <= Off(buf, k + 1)
      BY <2>1, <2>2
    <3>2. Takes(buf, o, p, t, out, w)
      BY <2>3, <2>4 DEF Takes
    <3> QED
      BY <2>2, <3>1, <3>2, ReachedString
  <2>6. PICK h : h = encodeHead(buf.lheads[k + 1])
    OBVIOUS
  <2>7. PICK v : v = w \o h
    OBVIOUS
  <2>8. Reached(buf, f, k + 1, p, v, whole) /\ h \in Seq(Int)
    <3>1. k < Len(buf.lheads) /\ p = Off(buf, k + 1)
      BY <1>1, <1>4, <2>1, <2>2
    <3> QED
      BY <2>5, <2>6, <2>7, <3>1, ReachedHead
  <2>9. w \in Seq(Int) /\ Begins(out, w)
    BY <1>2, <2>4, <2>5, Zenon, ReachedType DEF Begins
  <2>10. v \in Seq(Int) /\ Begins(w, v)
    BY <2>7, <2>8, Zenon, ReachedType DEF Begins
  <2>11. v = f[j]
    <3>1. PICK g \in Seq(Int) : g = f[j]
      BY <2>1, <2>8, ReachedType
    <3>2. p + 1 \in Int /\ p < p + 1 /\ p \in Int
      OBVIOUS
    <3>3. SubSeq(buf.str, p + 1, p) = <<>>
      BY <3>2, SubSeqEmpty
    <3>4. g \o <<>> = g
      BY ConcatEmptySeq
    <3>5. v = f[k + 1] \o SubSeq(buf.str, Off(buf, k + 1) + 1, p)
      BY <2>8, Zenon DEF Reached
    <3> QED
      BY <2>1, <2>2, <3>1, <3>3, <3>4, <3>5, Zenon
  <2>12. Begins(f[j], f[l])
    <3>1. Chain(buf, 0, l, f) /\ l <= Len(buf.lheads)
      BY <1>1 DEF Reached
    <3> QED
      BY <1>2, <3>1, ChainGrows
  <2>13. Begins(f[l], whole)
    <3>1. whole = f[l] \o SubSeq(buf.str, Off(buf, l) + 1, Len(buf.str))
      BY <1>1 DEF Reached
    <3>2. SubSeq(buf.str, Off(buf, l) + 1, Len(buf.str)) \in Seq(Int)
      <4>1. l \in 0..Len(buf.lheads)
        BY <1>1
      <4>2. PICK q \in Nat : q = Len(buf.str) /\ q <= Len(buf.str)
        BY DEF Contents
      <4>3. SubSeq(buf.str, Off(buf, l) + 1, q) \in Seq(Int)
        BY <1>2, <4>1, <4>2, BetweenType
      <4> QED
        BY <4>2, <4>3
    <3> QED
      BY <3>1, <3>2, Zenon DEF Begins
  <2>14. Begins(out, v)
    BY <1>2, <2>9, <2>10, BeginsTransitive
  <2>15. Begins(v, f[l])
    BY <2>11, <2>12
  <2>16. Begins(out, f[l])
    BY <1>2, <2>14, <2>15, BeginsTransitive
  <2> QED
    BY <1>2, <2>13, <2>16, BeginsTransitive
<1> QED
  BY <1>2, <1>3, <1>4

(* The beginning of a sequence, as OutputIsEncoding says it.               *)
LEMMA BeginsIsPrefix ==
  ASSUME NEW p \in Seq(Int), NEW q, Begins(p, q)
  PROVE  IsPrefixOf(p, q)
<1>1. PICK t \in Seq(Int) : q = p \o t
  BY DEF Begins
<1>2. PICK n \in Nat : n = Len(p)
  OBVIOUS
<1>3. Len(p \o t) = n + Len(t) /\ Len(t) \in Nat
  BY <1>2, ConcatProperties
<1>4. SubSeq(p \o t, 1, n) = SubSeq(p, 1, n)
  <2>1. PICK m \in Nat \ {0} : m = 1
    OBVIOUS
  <2>2. SubSeq(p \o t, m, n) = SubSeq(p, m, n)
    BY <1>2, CutGrown
  <2> QED
    BY <2>1, <2>2
<1>5. SubSeq(p, 1, n) = p
  BY <1>2, SubSeqFull
<1> QED
  BY <1>1, <1>2, <1>3, <1>4, <1>5 DEF IsPrefixOf

LEMMA CutBegins ==
  ASSUME NEW s \in Seq(Int), NEW n \in Nat, n <= Len(s)
  PROVE  SubSeq(s, 1, n) \in Seq(Int) /\ Begins(SubSeq(s, 1, n), s)
<1>1. PICK m \in 1..(Len(s) + 1) : m = 1
  OBVIOUS
<1>2. n \in (m - 1)..Len(s) /\ Len(s) \in n..Len(s)
  BY <1>1
<1>3. SubSeq(s, m, n) \o SubSeq(s, n + 1, Len(s)) = SubSeq(s, m, Len(s))
  BY <1>2, ConcatAdjacentSubSeq
<1>4. SubSeq(s, 1, Len(s)) = s
  BY SubSeqFull
<1>5. SubSeq(s, 1, n) \in Seq(Int)
  BY SubType
<1>6. SubSeq(s, n + 1, Len(s)) \in Seq(Int)
  <2>1. PICK k \in Nat \ {0} : k = n + 1
    OBVIOUS
  <2>2. PICK l \in Nat : l = Len(s)
    OBVIOUS
  <2>3. SubSeq(s, k, l) \in Seq(Int)
    BY <2>2, SubType
  <2> QED
    BY <2>1, <2>2, <2>3
<1> QED
  BY <1>1, <1>3, <1>4, <1>5, <1>6, Zenon DEF Begins

-----------------------------------------------------------------------------
(* The clients.                                                            *)

ClientType ==
  [open : Seq(Nat), lhpos : Nat, strpos : Nat, piece : Seq(Int), room : Nat,
   got : Seq(Int), frames : Seq(Seq(Int)), writes : Nat]

(* A client at what, with the state x and the buffer buf.                  *)
ClientOK(what, x, buf) ==
  /\ what \in Encoding \cup {"reading", "copying"} => Filling(x.open, x.frames, buf)
  /\ what \in Encoding => x.piece = <<>> /\ x.lhpos = 1 /\ x.strpos = 0
  /\ what \in {"writing", "derived"} => x.got = <<>>
  /\ what \in {"buffered", "failed"} => Begins(x.got, x.frames[1])
  /\ what = "done" => x.got = x.frames[1]
  /\ what \in {"reading", "copying"} =>
       /\ x.open = <<>>
       /\ \E f : Reached(buf, f, x.lhpos - 1, x.strpos, x.got \o x.piece, x.frames[1])

OutInv ==
  /\ IInv
  /\ bufs \in [Buffers -> Contents]
  /\ cl \in [Clients -> ClientType]
  /\ \A c \in Clients : ClientOK(at[c], cl[c], bufs[held[c]])

(* A step of c does nothing to the others, and is right for c.             *)
Local(c) ==
  /\ \A d \in Clients \ {c} : at'[d] = at[d] /\ cl'[d] = cl[d] /\ held'[d] = held[d]
  /\ \A b \in Buffers \ pool : b # held[c] => bufs'[b] = bufs[b]
  /\ bufs' \in [Buffers -> Contents]
  /\ cl' \in [Clients -> ClientType]
  /\ ClientOK(at'[c], cl'[c], bufs'[held'[c]])

LEMMA LocalKeeps ==
  ASSUME OutInv, IInv', NEW c \in Clients, Local(c)
  PROVE  OutInv'
<1>1. ASSUME NEW d \in Clients, d # c
      PROVE  ClientOK(at'[d], cl'[d], bufs'[held'[d]])
  <2>1. ClientOK(at[d], cl[d], bufs[held[d]])
    BY DEF OutInv
  <2>2. at'[d] = at[d] /\ cl'[d] = cl[d] /\ held'[d] = held[d]
    BY <1>1 DEF Local
  <2>3. CASE held[d] = NoBuf
    <3>1. at[d] \notin Encoding \cup {"reading", "copying"}
      BY <2>3 DEF OutInv, IInv, TypeOK, BufferExclusive
    <3> QED
      BY <2>1, <2>2, <3>1, Zenon DEF ClientOK
  <2>4. CASE held[d] # NoBuf
    <3>1. held[d] \in Buffers /\ held[d] \notin pool /\ held[d] # held[c]
      BY <1>1, <2>4 DEF OutInv, IInv, TypeOK, BufferExclusive
    <3>2. bufs'[held[d]] = bufs[held[d]]
      BY <3>1 DEF Local
    <3> QED
      BY <2>1, <2>2, <3>2
  <2> QED
    BY <2>3, <2>4
<1>2. \A d \in Clients : ClientOK(at'[d], cl'[d], bufs'[held'[d]])
  BY <1>1 DEF Local
<1> QED
  BY <1>2 DEF OutInv, Local

(* A client without a buffer, or between encodings.                        *)
LEMMA IdleOK == ASSUME NEW x, NEW buf PROVE ClientOK("idle", x, buf)
BY DEF ClientOK, Encoding

LEMMA FreshType == fresh \in ClientType /\ \A n \in Nat : [fresh EXCEPT !.writes = n] \in ClientType
<1>1. PICK o \in Seq(Nat), p \in Seq(Int), e \in Seq(Seq(Int)) : o = <<>> /\ p = <<>> /\ e = <<<<>>>>
  <2>1. <<>> \in Seq(Nat) /\ <<>> \in Seq(Int)
    BY EmptySeq
  <2>2. PICK z \in Seq(Int) : z = <<>>
    BY <2>1
  <2>3. <<z>> \in Seq(Seq(Int))
    OBVIOUS
  <2> QED
    BY <2>1, <2>2, <2>3
<1>2. fresh = [open |-> o, lhpos |-> 1, strpos |-> 0, piece |-> p, room |-> 0, got |-> p,
               frames |-> e, writes |-> 0]
  BY <1>1 DEF fresh
<1> QED
  BY <1>2 DEF ClientType

LEMMA FreshOK ==
  ASSUME NEW what \in Encoding, NEW x,
         x.open = <<>>, x.frames = <<<<>>>>, x.got = <<>>, x.piece = <<>>, x.lhpos = 1, x.strpos = 0
  PROVE  ClientOK(what, x, emptyBuffer)
<1>1. Filling(x.open, x.frames, emptyBuffer)
  BY FillingBegins
<1>2. Begins(x.got, x.frames[1])
  <2>1. x.frames[1] = <<>>
    OBVIOUS
  <2>2. Begins(<<>>, <<>>)
    BY BeginsItself, EmptySeq
  <2> QED
    BY <2>1, <2>2
<1> QED
  BY <1>1, <1>2 DEF ClientOK, Encoding

LEMMA GetLocal ==
  ASSUME OutInv, NEW c \in Clients, NEW what \in {"writing", "buffered"}, getEncBuffer(c, what)
  PROVE  Local(c)
<1>1. PICK b \in pool : held' = [held EXCEPT ![c] = b] /\ bufs' = [bufs EXCEPT ![b] = emptyBuffer]
  BY DEF getEncBuffer
<1>2. b \in Buffers
  BY DEF OutInv, IInv, TypeOK, BufferExclusive
<1>3. at' = [at EXCEPT ![c] = what] /\ cl' = [cl EXCEPT ![c] = fresh]
  BY DEF getEncBuffer
<1>4. at'[c] = what /\ cl'[c] = fresh /\ bufs'[held'[c]] = emptyBuffer
  BY <1>1, <1>2, <1>3 DEF OutInv, IInv, TypeOK, BufferExclusive
<1>5. ClientOK(what, fresh, emptyBuffer)
  <2>1. what \in Encoding
    BY DEF Encoding
  <2>2. /\ fresh.open = <<>> /\ fresh.frames = <<<<>>>> /\ fresh.got = <<>> /\ fresh.piece = <<>>
        /\ fresh.lhpos = 1 /\ fresh.strpos = 0
    BY DEF fresh
  <2> QED
    BY <2>1, <2>2, FreshOK
<1>6. cl' \in [Clients -> ClientType]
  BY <1>3, FreshType DEF OutInv
<1>7. bufs' \in [Buffers -> Contents]
  BY <1>1, FillingBegins DEF OutInv
<1>8. \A d \in Clients \ {c} : at'[d] = at[d] /\ cl'[d] = cl[d] /\ held'[d] = held[d]
  BY <1>1, <1>3 DEF OutInv, IInv, TypeOK, BufferExclusive
<1>9. \A d \in Buffers \ pool : bufs'[d] = bufs[d]
  BY <1>1 DEF OutInv
<1> QED
  BY <1>4, <1>5, <1>6, <1>7, <1>8, <1>9 DEF Local

(* A step of encoding: the buffer and what was written grow together.      *)
LEMMA FillLocal ==
  ASSUME OutInv, NEW c \in Clients, at[c] \in Encoding, UNCHANGED <<at, held>>,
         NEW buf2 \in Contents, bufs' = [bufs EXCEPT ![held[c]] = buf2],
         NEW x \in ClientType, cl' = [cl EXCEPT ![c] = x],
         x.piece = cl[c].piece, x.lhpos = cl[c].lhpos, x.strpos = cl[c].strpos, x.got = cl[c].got,
         Filling(x.open, x.frames, buf2), Begins(cl[c].frames[1], x.frames[1])
  PROVE  Local(c)
<1>1. held[c] \in Buffers
  BY DEF OutInv, IInv, TypeOK, BufferExclusive, Encoding
<1>2. at'[c] = at[c] /\ cl'[c] = x /\ bufs'[held'[c]] = buf2
  BY <1>1 DEF OutInv
<1>3. cl' \in [Clients -> ClientType] /\ bufs' \in [Buffers -> Contents]
  BY DEF OutInv
<1>4. \A d \in Clients \ {c} : at'[d] = at[d] /\ cl'[d] = cl[d] /\ held'[d] = held[d]
  BY DEF OutInv
<1>5. \A b \in Buffers \ pool : b # held[c] => bufs'[b] = bufs[b]
  BY DEF OutInv
<1>6. ClientOK(at[c], cl[c], bufs[held[c]])
  BY DEF OutInv
<1>7. ASSUME at[c] = "buffered" PROVE Begins(x.got, x.frames[1])
  <2>1. Begins(cl[c].got, cl[c].frames[1])
    BY <1>6, <1>7 DEF ClientOK
  <2>2. cl[c].got \in Seq(Int)
    BY DEF OutInv, ClientType
  <2>3. Begins(cl[c].got, x.frames[1])
    BY <2>1, <2>2, BeginsTransitive
  <2> QED
    BY <2>3
<1>8. ClientOK(at[c], x, buf2)
  BY <1>6, <1>7 DEF ClientOK, Encoding
<1> QED
  BY <1>2, <1>3, <1>4, <1>5, <1>8 DEF Local

(* A step that gives the buffer back.                                      *)
LEMMA PutLocal ==
  ASSUME OutInv, NEW c \in Clients, NEW what \in {"idle", "done", "failed"},
         at[c] \in Encoding \cup {"copying"}, Put(c, what),
         NEW x \in ClientType, cl' = [cl EXCEPT ![c] = x],
         what = "done" => x.got = x.frames[1],
         what = "failed" => Begins(x.got, x.frames[1])
  PROVE  Local(c)
<1>1. held[c] \in Buffers
  BY DEF OutInv, IInv, TypeOK, BufferExclusive, Encoding
<1>2. /\ held' = [held EXCEPT ![c] = NoBuf]
      /\ at' = [at EXCEPT ![c] = what]
      /\ bufs' = [bufs EXCEPT ![held[c]] = Stale]
  BY DEF Put
<1>3. Stale \in Contents
  <2>1. <<[offset |-> 0, size |-> 1]>> \in Seq(Heads)
    BY DEF Heads
  <2>2. <<5>> \in Seq(Int)
    OBVIOUS
  <2>3. PICK h \in Seq(Heads), p \in Seq(Int) : h = <<[offset |-> 0, size |-> 1]>> /\ p = <<5>>
    BY <2>1, <2>2
  <2>4. Stale = [str |-> p, lheads |-> h, lhsize |-> 1]
    BY <2>3 DEF Stale
  <2> QED
    BY <2>4 DEF Contents
<1>4. at'[c] = what /\ cl'[c] = x
  BY <1>2 DEF OutInv, IInv, TypeOK, BufferExclusive
<1>5. cl' \in [Clients -> ClientType] /\ bufs' \in [Buffers -> Contents]
  BY <1>2, <1>3 DEF OutInv
<1>6. \A d \in Clients \ {c} : at'[d] = at[d] /\ cl'[d] = cl[d] /\ held'[d] = held[d]
  BY <1>2 DEF OutInv, IInv, TypeOK, BufferExclusive
<1>7. \A b \in Buffers \ pool : b # held[c] => bufs'[b] = bufs[b]
  BY <1>2 DEF OutInv
<1>8. ClientOK(what, x, bufs'[held'[c]])
  BY DEF ClientOK, Encoding
<1> QED
  BY <1>4, <1>5, <1>6, <1>7, <1>8 DEF Local

(* A step that leaves the buffer with the client as it is.                 *)
LEMMA HoldLocal ==
  ASSUME OutInv, NEW c \in Clients, UNCHANGED <<bufs, held>>,
         NEW what, at' = [at EXCEPT ![c] = what],
         NEW x \in ClientType, cl' = [cl EXCEPT ![c] = x],
         ClientOK(what, x, bufs[held[c]])
  PROVE  Local(c)
<1>1. at'[c] = what /\ cl'[c] = x /\ bufs'[held'[c]] = bufs[held[c]]
  BY DEF OutInv, IInv, TypeOK, BufferExclusive
<1>2. cl' \in [Clients -> ClientType] /\ bufs' \in [Buffers -> Contents]
  BY DEF OutInv
<1>3. \A d \in Clients \ {c} : at'[d] = at[d] /\ cl'[d] = cl[d] /\ held'[d] = held[d]
  BY DEF OutInv, IInv, TypeOK, BufferExclusive
<1> QED
  BY <1>1, <1>2, <1>3 DEF Local

(* A client that encodes has a buffer that is being filled.                *)
LEMMA EncodingHas ==
  ASSUME OutInv, NEW c \in Clients, at[c] \in Encoding \cup {"reading", "copying"}
  PROVE  /\ held[c] \in Buffers /\ buffer(c) \in Contents
         /\ Filling(cl[c].open, cl[c].frames, buffer(c))
<1>1. held[c] \in Buffers
  BY DEF OutInv, IInv, TypeOK, BufferExclusive, Encoding
<1>2. ClientOK(at[c], cl[c], buffer(c)) /\ buffer(c) \in Contents
  BY <1>1 DEF OutInv, buffer
<1> QED
  BY <1>1, <1>2, Zenon DEF ClientOK

LEMMA ClientGrows ==
  ASSUME NEW y \in ClientType, NEW frames \in Seq(Seq(Int))
  PROVE  [y EXCEPT !.writes = @ + 1, !.frames = frames] \in ClientType
<1>1. PICK n \in Nat : n = y.writes + 1
  BY DEF ClientType
<1>2. PICK z : z = [y EXCEPT !.writes = n]
  OBVIOUS
<1>3. z \in ClientType
  BY <1>2 DEF ClientType
<1>4. [z EXCEPT !.frames = frames] \in ClientType
  BY <1>3 DEF ClientType
<1>5. [y EXCEPT !.writes = @ + 1, !.frames = frames] = [z EXCEPT !.frames = frames]
  BY <1>1, <1>2 DEF ClientType
<1> QED
  BY <1>4, <1>5

(* Bytes that are appended, whatever they are.                             *)
LEMMA AppendLocal ==
  ASSUME OutInv, NEW c \in Clients, Writing(c), NEW t \in Seq(Int),
         NEW buf2, buf2 = Write(buffer(c), t), bufs' = [bufs EXCEPT ![held[c]] = buf2],
         NEW frames2, frames2 = [cl[c].frames EXCEPT ![Len(cl[c].frames)] = @ \o t],
         cl' = [cl EXCEPT ![c] = [cl[c] EXCEPT !.writes = @ + 1, !.frames = frames2]]
  PROVE  Local(c)
<1>1. at[c] \in Encoding /\ UNCHANGED <<at, held>>
  BY DEF Writing
<1>2. PICK buf, open, frames :
        /\ buf \in Contents /\ buf = buffer(c) /\ open = cl[c].open /\ frames = cl[c].frames
        /\ Filling(open, frames, buf)
  BY <1>1, EncodingHas, Zenon
<1>3. buf2 \in Contents /\ Filling(open, frames2, buf2) /\ Begins(frames[1], frames2[1])
  <2>1. buf2 = Write(buf, t) /\ frames2 = [frames EXCEPT ![Len(frames)] = @ \o t]
    BY <1>2, Zenon
  <2>2. Writes(buf, frames, t, buf2, frames2)
    BY <2>1 DEF Writes
  <2> QED
    BY <1>2, <2>2, FillingWrites
<1>4. PICK y \in ClientType : y = cl[c]
  BY DEF OutInv
<1>5. frames2 \in Seq(Seq(Int))
  BY <1>3 DEF Filling
<1>6. PICK x : x = [y EXCEPT !.writes = @ + 1, !.frames = frames2]
  OBVIOUS
<1>7. x \in ClientType
  BY <1>5, <1>6, ClientGrows
<1>8. /\ x.piece = y.piece /\ x.lhpos = y.lhpos /\ x.strpos = y.strpos /\ x.got = y.got
      /\ x.open = y.open /\ x.frames = frames2
  BY <1>6 DEF ClientType
<1>9. cl' = [cl EXCEPT ![c] = x]
  BY <1>4, <1>6
<1>10. Filling(x.open, x.frames, buf2) /\ Begins(cl[c].frames[1], x.frames[1])
  BY <1>2, <1>3, <1>4, <1>8, Zenon
<1> QED
  BY <1>1, <1>3, <1>4, <1>7, <1>8, <1>9, <1>10, FillLocal

LEMMA WriteEncodedLocal ==
  ASSUME OutInv, NEW c \in Clients, NEW b \in Strings, WriteEncoded(c, b)
  PROVE  Local(c)
<1>1. Writing(c) /\ bufs' = [bufs EXCEPT ![held[c]] = Write(@, b)]
  BY DEF WriteEncoded
<1>2. held[c] \in Buffers
  BY <1>1, EncodingHas DEF Writing
<1>3. PICK buf2 : buf2 = Write(buffer(c), b) /\ bufs' = [bufs EXCEPT ![held[c]] = buf2]
  BY <1>1, <1>2 DEF OutInv, buffer
<1>4. PICK frames2 : frames2 = [cl[c].frames EXCEPT ![Len(cl[c].frames)] = @ \o b]
  OBVIOUS
<1>5. cl' = [cl EXCEPT ![c] = [cl[c] EXCEPT !.writes = @ + 1, !.frames = frames2]]
  BY <1>4 DEF WriteEncoded, OutInv, ClientType
<1> QED
  BY <1>1, <1>3, <1>4, <1>5, StringType, AppendLocal

(* writeBytes appends the encoding of the string.                          *)
LEMMA WriteBytesIs ==
  ASSUME NEW buf \in Contents, NEW b \in Strings
  PROVE  writeBytes(buf, b) = Write(buf, EncodedString(b))
<1>1. PICK p \in Seq(Int) : p = puthead(128, 183, Len(b))
  BY StringType, PutheadType
<1>2. PICK s \in Seq(Int), e \in Seq(Int) : s = buf.str /\ e = b
  BY StringType DEF Contents
<1>3. CASE Len(b) = 1 /\ b[1] < 128
  BY <1>3 DEF writeBytes, EncodedString
<1>4. CASE ~(Len(b) = 1 /\ b[1] < 128)
  <2>1. writeBytes(buf, b) = Write(Write(buf, p), b) /\ EncodedString(b) = p \o e
    BY <1>1, <1>2, <1>4 DEF writeBytes, EncodedString, encodeStringHeader
  <2>2. Write(Write(buf, p), b) = [buf EXCEPT !.str = (s \o p) \o e]
    BY <1>2 DEF Write, Contents
  <2>3. (s \o p) \o e = s \o (p \o e)
    BY Assoc
  <2>4. Write(buf, p \o e) = [buf EXCEPT !.str = s \o (p \o e)]
    BY <1>2 DEF Write
  <2> QED
    BY <2>1, <2>2, <2>3, <2>4, Zenon
<1> QED
  BY <1>3, <1>4

LEMMA WriteBytesLocal ==
  ASSUME OutInv, NEW c \in Clients, NEW b \in Strings, WriteBytes(c, b)
  PROVE  Local(c)
<1>1. Writing(c) /\ bufs' = [bufs EXCEPT ![held[c]] = writeBytes(@, b)]
  BY DEF WriteBytes
<1>2. held[c] \in Buffers /\ buffer(c) \in Contents
  BY <1>1, EncodingHas DEF Writing
<1>3. PICK t \in Seq(Int) : t = EncodedString(b)
  BY StringType
<1>4. PICK buf2 : buf2 = Write(buffer(c), t) /\ bufs' = [bufs EXCEPT ![held[c]] = buf2]
  <2>1. writeBytes(buffer(c), b) = Write(buffer(c), t)
    BY <1>2, <1>3, WriteBytesIs
  <2>2. bufs' = [bufs EXCEPT ![held[c]] = writeBytes(buffer(c), b)]
    BY <1>1, <1>2 DEF OutInv, buffer
  <2> QED
    BY <2>1, <2>2
<1>5. PICK frames2 : frames2 = [cl[c].frames EXCEPT ![Len(cl[c].frames)] = @ \o t]
  OBVIOUS
<1>6. cl' = [cl EXCEPT ![c] = [cl[c] EXCEPT !.writes = @ + 1, !.frames = frames2]]
  BY <1>3, <1>5 DEF WriteBytes, OutInv, ClientType
<1> QED
  BY <1>1, <1>4, <1>5, <1>6, AppendLocal

LEMMA ListLocal ==
  ASSUME OutInv, NEW c \in Clients, List(c)
  PROVE  Local(c)
<1>1. at[c] \in Encoding /\ UNCHANGED <<at, held>>
  BY DEF List, Writing
<1>2. held[c] \in Buffers
  BY <1>1, EncodingHas
<1>3. PICK buf, open, frames :
        /\ buf \in Contents /\ buf = buffer(c) /\ open = cl[c].open /\ frames = cl[c].frames
        /\ Filling(open, frames, buf)
  BY <1>1, EncodingHas, Zenon
<1>4. PICK buf2 : buf2 = list(buf) /\ bufs' = [bufs EXCEPT ![held[c]] = buf2]
  BY <1>2, <1>3 DEF List, OutInv, buffer
<1>5. PICK open2, frames2 : /\ open2 = Append(open, Len(buf.lheads) + 1)
                            /\ frames2 = Append(frames, <<>>)
  OBVIOUS
<1>6. buf2 \in Contents /\ Filling(open2, frames2, buf2) /\ frames2[1] = frames[1]
  <2>1. Opens(buf, open, frames, buf2, open2, frames2)
    BY <1>4, <1>5 DEF Opens
  <2> QED
    BY <1>3, <2>1, FillingOpens
<1>7. frames2 \in Seq(Seq(Int)) /\ open2 \in Seq(Nat)
  <2>1. open2 \in Seq(Nat \ {0}) /\ frames2 \in Seq(Seq(Int))
    BY <1>6 DEF Filling
  <2>2. Seq(Nat \ {0}) \subseteq Seq(Nat)
    BY SeqMonotonic
  <2> QED
    BY <2>1, <2>2
<1>8. PICK y \in ClientType : y = cl[c]
  BY DEF OutInv
<1>9. PICK x : x = [y EXCEPT !.writes = @ + 1, !.open = open2, !.frames = frames2]
  OBVIOUS
<1>10. x \in ClientType
  <2>1. PICK z \in ClientType : z = [y EXCEPT !.writes = @ + 1, !.frames = frames2]
    BY <1>7, ClientGrows
  <2>2. x = [z EXCEPT !.open = open2]
    BY <1>9, <2>1 DEF ClientType
  <2>3. [z EXCEPT !.open = open2] \in ClientType
    BY <1>7 DEF ClientType
  <2> QED
    BY <2>2, <2>3
<1>11. /\ x.piece = y.piece /\ x.lhpos = y.lhpos /\ x.strpos = y.strpos /\ x.got = y.got
       /\ x.open = open2 /\ x.frames = frames2
  BY <1>9 DEF ClientType
<1>12. cl' = [cl EXCEPT ![c] = x]
  BY <1>3, <1>5, <1>8, <1>9 DEF List, OutInv, ClientType
<1>13. Begins(cl[c].frames[1], x.frames[1])
  <2>1. frames \in Seq(Seq(Int)) /\ Len(frames) = Len(open) + 1 /\ Len(open) \in Nat
    BY <1>3 DEF Filling
  <2>2. frames[1] \in Seq(Int)
    BY <2>1, ElementOfSeq
  <2> QED
    BY <1>3, <1>6, <1>11, <2>2, BeginsItself
<1>14. Filling(x.open, x.frames, buf2)
  BY <1>6, <1>11, Zenon
<1> QED
  BY <1>1, <1>4, <1>6, <1>8, <1>10, <1>11, <1>12, <1>13, <1>14, FillLocal

LEMMA ListEndLocal ==
  ASSUME OutInv, NEW c \in Clients, ListEnd(c)
  PROVE  Local(c)
<1>1. at[c] \in Encoding /\ UNCHANGED <<at, held>>
  BY DEF ListEnd, Writing
<1>2. held[c] \in Buffers
  BY <1>1, EncodingHas
<1>3. PICK buf, open, frames :
        /\ buf \in Contents /\ buf = buffer(c) /\ open = cl[c].open /\ frames = cl[c].frames
        /\ Filling(open, frames, buf)
  BY <1>1, EncodingHas, Zenon
<1>4. PICK i : i = Top(open)
  OBVIOUS
<1>5. PICK buf2 : buf2 = listEnd(buf, i) /\ bufs' = [bufs EXCEPT ![held[c]] = buf2]
  <2>1. bufs' = [bufs EXCEPT ![held[c]] = listEnd(bufs[held[c]], Top(cl[c].open))]
    BY <1>2 DEF ListEnd, OutInv
  <2> QED
    BY <1>3, <1>4, <2>1, Zenon DEF buffer
<1>6. PICK open2, item, frames2 :
        /\ open2 = Pop(open)
        /\ item = puthead(192, 247, Len(Top(frames))) \o Top(frames)
        /\ frames2 = [Pop(frames) EXCEPT ![Len(Pop(frames))] = @ \o item]
  OBVIOUS
<1>7. buf2 \in Contents /\ Filling(open2, frames2, buf2) /\ Begins(frames[1], frames2[1])
  <2>1. Closes(buf, open, frames, i, item, buf2, open2, frames2)
    BY <1>4, <1>5, <1>6, Zenon DEF Closes
  <2>2. open # <<>>
    BY <1>3 DEF ListEnd
  <2> QED
    BY <1>3, <2>1, <2>2, FillingCloses
<1>8. frames2 \in Seq(Seq(Int)) /\ open2 \in Seq(Nat)
  <2>1. open2 \in Seq(Nat \ {0}) /\ frames2 \in Seq(Seq(Int))
    BY <1>7 DEF Filling
  <2>2. Seq(Nat \ {0}) \subseteq Seq(Nat)
    BY SeqMonotonic
  <2> QED
    BY <2>1, <2>2
<1>9. PICK y \in ClientType : y = cl[c]
  BY DEF OutInv
<1>10. PICK x : x = [y EXCEPT !.open = open2, !.frames = frames2]
  OBVIOUS
<1>11. x \in ClientType
  BY <1>8, <1>10 DEF ClientType
<1>12. /\ x.piece = y.piece /\ x.lhpos = y.lhpos /\ x.strpos = y.strpos /\ x.got = y.got
       /\ x.open = open2 /\ x.frames = frames2
  BY <1>10 DEF ClientType
<1>13. cl' = [cl EXCEPT ![c] = x]
  <2>1. cl' = [cl EXCEPT ![c].open = open2, ![c].frames = frames2]
    BY <1>3, <1>6, <1>9 DEF ListEnd, OutInv, ClientType
  <2> QED
    BY <1>9, <1>10, <2>1 DEF OutInv
<1>14. Filling(x.open, x.frames, buf2) /\ Begins(cl[c].frames[1], x.frames[1])
  BY <1>3, <1>7, <1>12, Zenon
<1> QED
  BY <1>1, <1>5, <1>7, <1>9, <1>11, <1>12, <1>13, <1>14, FillLocal

LEMMA EncodeFailsLocal ==
  ASSUME OutInv, NEW c \in Clients, EncodeFails(c)
  PROVE  Local(c)
<1>1. at[c] \in Encoding /\ Put(c, "idle") /\ cl' = [cl EXCEPT ![c] = fresh]
  BY DEF EncodeFails, Encoding
<1> QED
  BY <1>1, FreshType, PutLocal

(* The buffer of a client that has closed all its lists.                   *)
LEMMA ClosedHas ==
  ASSUME OutInv, NEW c \in Clients, Finished(c) \/ Closed(c)
  PROVE  /\ buffer(c) \in Contents /\ Filling(<<>>, cl[c].frames, buffer(c))
         /\ makeBytes(buffer(c)) = cl[c].frames[1] /\ cl[c].frames[1] \in Seq(Int)
         /\ size(buffer(c)) = Len(cl[c].frames[1])
<1>1. at[c] \in Encoding /\ cl[c].open = <<>>
  BY DEF Finished, Closed, Encoding
<1>2. buffer(c) \in Contents /\ Filling(<<>>, cl[c].frames, buffer(c))
  BY <1>1, EncodingHas
<1> QED
  BY <1>2, FilledIsOutput, Zenon

(* What came out, as a client keeps it.                                    *)
LEMMA GotType ==
  ASSUME NEW y \in ClientType, NEW out \in Seq(Int)
  PROVE  /\ [y EXCEPT !.got = out] \in ClientType
         /\ [y EXCEPT !.got = out].got = out /\ [y EXCEPT !.got = out].frames = y.frames
BY DEF ClientType

LEMMA DoneLocal ==
  ASSUME OutInv, NEW c \in Clients, Finished(c) \/ Closed(c), Put(c, "done"),
         cl' = [cl EXCEPT ![c].got = makeBytes(buffer(c))]
  PROVE  Local(c)
<1>1. PICK out \in Seq(Int) : out = makeBytes(buffer(c)) /\ out = cl[c].frames[1]
  BY ClosedHas
<1>2. PICK y \in ClientType : y = cl[c]
  BY DEF OutInv
<1>3. PICK x : x = [y EXCEPT !.got = out]
  OBVIOUS
<1>4. x \in ClientType /\ x.got = x.frames[1]
  BY <1>1, <1>2, <1>3, GotType
<1>5. cl' = [cl EXCEPT ![c] = x]
  BY <1>1, <1>2, <1>3
<1>6. at[c] \in Encoding
  BY DEF Finished, Closed, Encoding
<1> QED
  BY <1>4, <1>5, <1>6, PutLocal

(* A writer that fails has taken the beginning of the output.              *)
LEMMA FailedLocal ==
  ASSUME OutInv, NEW c \in Clients, Finished(c) \/ Closed(c), Put(c, "failed"),
         NEW n \in Nat, n <= Len(makeBytes(buffer(c))), NEW taken,
         taken = SubSeq(makeBytes(buffer(c)), 1, n), cl' = [cl EXCEPT ![c].got = taken]
  PROVE  Local(c)
<1>1. PICK out \in Seq(Int) : out = makeBytes(buffer(c)) /\ out = cl[c].frames[1]
  BY ClosedHas
<1>2. taken \in Seq(Int) /\ Begins(taken, out)
  BY <1>1, CutBegins
<1>3. PICK y \in ClientType : y = cl[c]
  BY DEF OutInv
<1>4. PICK x : x = [y EXCEPT !.got = taken]
  OBVIOUS
<1>5. x \in ClientType /\ Begins(x.got, x.frames[1])
  BY <1>1, <1>2, <1>3, <1>4, GotType, ZenonT(80)
<1>6. cl' = [cl EXCEPT ![c] = x]
  BY <1>3, <1>4
<1>7. at[c] \in Encoding
  BY DEF Finished, Closed, Encoding
<1> QED
  BY <1>5, <1>6, <1>7, PutLocal

LEMMA WriterFailsLocal ==
  ASSUME OutInv, NEW c \in Clients, EncodeToWriterFails(c)
  PROVE  Local(c)
<1>1. PICK n \in Chunks \cup {0} :
        /\ n < Len(makeBytes(buffer(c)))
        /\ cl' = [cl EXCEPT ![c].got = SubSeq(makeBytes(buffer(c)), 1, n)]
  BY DEF EncodeToWriterFails
<1>2. n \in Nat
  BY EncoderAssumption
<1>3. Finished(c) /\ Put(c, "failed")
  BY DEF EncodeToWriterFails
<1>4. Len(makeBytes(buffer(c))) \in Nat
  BY <1>3, ClosedHas
<1>5. n <= Len(makeBytes(buffer(c)))
  BY <1>1, <1>2, <1>4
<1> QED
  BY <1>1, <1>2, <1>3, <1>5, FailedLocal

LEMMA FlushLocal ==
  ASSUME OutInv, NEW c \in Clients, Flush(c)
  PROVE  Local(c)
<1>1. Closed(c) /\ at[c] \in Encoding
  BY DEF Flush, Closed, Encoding
<1>2. CASE Put(c, "done") /\ cl' = [cl EXCEPT ![c].got = makeBytes(buffer(c))]
  BY <1>1, <1>2, DoneLocal
<1>3. CASE Put(c, "failed") /\ cl' = [cl EXCEPT ![c].got = <<>>]
  <2>1. PICK out \in Seq(Int) : out = makeBytes(buffer(c))
    BY <1>1, ClosedHas
  <2>2. SubSeq(out, 1, 0) = <<>>
    BY SubSeqEmpty
  <2>3. PICK n \in Nat : n = 0 /\ n <= Len(out)
    OBVIOUS
  <2>4. PICK taken : taken = SubSeq(makeBytes(buffer(c)), 1, n) /\ taken = <<>>
    BY <2>1, <2>2, <2>3
  <2> QED
    BY <1>1, <1>3, <2>1, <2>3, <2>4, FailedLocal
<1>4. CASE Put(c, "idle") /\ cl' = [cl EXCEPT ![c] = fresh]
  BY <1>1, <1>4, FreshType, PutLocal
<1> QED
  BY <1>2, <1>3, <1>4 DEF Flush

LEMMA GivesUpLocal ==
  ASSUME OutInv, NEW c \in Clients, ClientGivesUp(c)
  PROVE  Local(c)
<1>1. /\ UNCHANGED <<bufs, held>>
      /\ at' = [at EXCEPT ![c] = "idle"] /\ cl' = [cl EXCEPT ![c] = fresh]
  BY DEF ClientGivesUp
<1> QED
  BY <1>1, IdleOK, FreshType, HoldLocal

LEMMA DeriveLocal ==
  ASSUME OutInv, NEW c \in Clients, Derive(c) \/ FlushDerived(c)
  PROVE  Local(c)
<1>1. PICK what \in {"writing", "derived"} : at' = [at EXCEPT ![c] = what]
  BY DEF Derive, FlushDerived
<1>2. at[c] \in {"writing", "derived"} /\ UNCHANGED <<bufs, held, cl>>
  BY DEF Derive, FlushDerived
<1>3. PICK x \in ClientType : x = cl[c]
  BY DEF OutInv
<1>4. cl' = [cl EXCEPT ![c] = x]
  BY <1>2, <1>3 DEF OutInv
<1>5. ClientOK(at[c], x, bufs[held[c]])
  BY <1>3 DEF OutInv
<1>6. ClientOK(what, x, bufs[held[c]])
  BY <1>2, <1>5 DEF ClientOK, Encoding
<1> QED
  BY <1>1, <1>2, <1>4, <1>6, HoldLocal

LEMMA ResetLocal ==
  ASSUME OutInv, NEW c \in Clients, Reset(c)
  PROVE  Local(c)
<1>1. /\ at[c] = "buffered" /\ UNCHANGED <<pool, at, held>>
      /\ bufs' = [bufs EXCEPT ![held[c]] = emptyBuffer]
      /\ cl' = [cl EXCEPT ![c] = [fresh EXCEPT !.writes = cl[c].writes]]
  BY DEF Reset
<1>2. held[c] \in Buffers
  BY <1>1, EncodingHas DEF Encoding
<1>3. PICK n \in Nat : n = cl[c].writes
  BY DEF OutInv, ClientType
<1>4. PICK x \in ClientType : x = [fresh EXCEPT !.writes = n]
  BY FreshType
<1>5. /\ x.open = <<>> /\ x.frames = <<<<>>>> /\ x.got = <<>> /\ x.piece = <<>>
      /\ x.lhpos = 1 /\ x.strpos = 0
  BY <1>4 DEF fresh
<1>6. ClientOK("buffered", x, emptyBuffer)
  <2>1. "buffered" \in Encoding
    BY DEF Encoding
  <2> QED
    BY <1>5, <2>1, FreshOK
<1>7. at'[c] = "buffered" /\ cl'[c] = x /\ bufs'[held'[c]] = emptyBuffer
  BY <1>1, <1>2, <1>3, <1>4 DEF OutInv
<1>8. cl' \in [Clients -> ClientType]
  BY <1>1, <1>3, <1>4 DEF OutInv
<1>9. bufs' \in [Buffers -> Contents]
  BY <1>1, FillingBegins DEF OutInv
<1>10. \A d \in Clients \ {c} : at'[d] = at[d] /\ cl'[d] = cl[d] /\ held'[d] = held[d]
  BY <1>1 DEF OutInv
<1>11. \A b \in Buffers \ pool : b # held[c] => bufs'[b] = bufs[b]
  BY <1>1 DEF OutInv
<1> QED
  BY <1>6, <1>7, <1>8, <1>9, <1>10, <1>11 DEF Local

LEMMA ToBytesLocal ==
  ASSUME OutInv, NEW c \in Clients, ToBytes(c)
  PROVE  Local(c)
<1>1. Closed(c) /\ at[c] = "buffered" /\ UNCHANGED <<bufs, at, held>>
  BY DEF ToBytes, Closed
<1>2. PICK out \in Seq(Int) : out = makeBytes(buffer(c)) /\ out = cl[c].frames[1]
  BY <1>1, ClosedHas
<1>3. PICK y \in ClientType : y = cl[c]
  BY DEF OutInv
<1>4. PICK x : x = [y EXCEPT !.got = out]
  OBVIOUS
<1>5. x \in ClientType /\ x.got = out /\ x.frames = y.frames
  BY <1>4, GotType
<1>6. x.open = y.open /\ x.piece = y.piece /\ x.lhpos = y.lhpos /\ x.strpos = y.strpos
  BY <1>4 DEF ClientType
<1>7. cl' = [cl EXCEPT ![c] = x] /\ at' = [at EXCEPT ![c] = "buffered"]
  BY <1>1, <1>2, <1>3, <1>4 DEF ToBytes, OutInv, IInv, TypeOK, BufferExclusive
<1>8. Begins(x.got, x.frames[1])
  BY <1>2, <1>3, <1>5, BeginsItself
<1>9. ClientOK("buffered", y, bufs[held[c]])
  BY <1>1, <1>3 DEF OutInv
<1>10. ClientOK("buffered", x, bufs[held[c]])
  <2>1. Filling(x.open, x.frames, bufs[held[c]])
    BY <1>5, <1>6, <1>9 DEF ClientOK, Encoding
  <2>2. x.piece = <<>> /\ x.lhpos = 1 /\ x.strpos = 0
    BY <1>6, <1>9 DEF ClientOK, Encoding
  <2> QED
    BY <1>8, <2>1, <2>2 DEF ClientOK
<1> QED
  BY <1>1, <1>5, <1>7, <1>10, HoldLocal

-----------------------------------------------------------------------------
(* The readers.                                                            *)

(* A reader with the rest of its output.                                   *)
ReaderOK(x, buf) ==
  /\ Filling(x.open, x.frames, buf) /\ x.open = <<>>
  /\ \E f : Reached(buf, f, x.lhpos - 1, x.strpos, x.got \o x.piece, x.frames[1])

LEMMA ReaderIs ==
  ASSUME NEW what \in {"reading", "copying"}, NEW x, NEW buf
  PROVE  ClientOK(what, x, buf) <=> ReaderOK(x, buf)
BY Zenon DEF ClientOK, ReaderOK, Encoding

LEMMA ToReaderLocal ==
  ASSUME OutInv, NEW c \in Clients, EncodeToReader(c)
  PROVE  Local(c)
<1>1. /\ Finished(c) /\ at[c] = "writing" /\ UNCHANGED <<bufs, held, cl>>
      /\ at' = [at EXCEPT ![c] = "reading"] /\ cl[c].open = <<>>
  BY DEF EncodeToReader, Finished
<1>2. PICK x \in ClientType : x = cl[c]
  BY DEF OutInv
<1>3. PICK buf \in Contents : buf = buffer(c) /\ Filling(<<>>, x.frames, buf)
  BY <1>1, <1>2, ClosedHas
<1>4. ClientOK("writing", x, buf)
  BY <1>1, <1>2, <1>3 DEF OutInv, buffer
<1>5. x.got = <<>> /\ x.piece = <<>> /\ x.lhpos = 1 /\ x.strpos = 0
  BY <1>4 DEF ClientOK, Encoding
<1>6. PICK f : Reached(buf, f, 0, 0, <<>>, x.frames[1])
  BY <1>3, ReachedBegins
<1>7. Reached(buf, f, x.lhpos - 1, x.strpos, x.got \o x.piece, x.frames[1])
  <2>1. x.got \o x.piece = <<>>
    BY <1>5, ConcatEmptySeq, EmptySeq
  <2>2. x.lhpos - 1 = 0
    BY <1>5
  <2> QED
    BY <1>5, <1>6, <2>1, <2>2, Zenon
<1>8. ReaderOK(x, buf)
  BY <1>1, <1>2, <1>3, <1>7, Zenon DEF ReaderOK
<1>9. ClientOK("reading", x, bufs[held[c]])
  BY <1>3, <1>8, ReaderIs DEF buffer
<1>10. cl' = [cl EXCEPT ![c] = x]
  BY <1>1, <1>2 DEF OutInv
<1> QED
  BY <1>1, <1>9, <1>10, HoldLocal

LEMMA ReadLocal ==
  ASSUME OutInv, NEW c \in Clients, NEW n \in Chunks, Read(c, n)
  PROVE  Local(c)
<1>1. /\ at[c] = "reading" /\ UNCHANGED <<bufs, held>>
      /\ at' = [at EXCEPT ![c] = "copying"] /\ cl' = [cl EXCEPT ![c].room = n]
  BY DEF Read
<1>2. PICK y \in ClientType : y = cl[c]
  BY DEF OutInv
<1>3. PICK x : x = [y EXCEPT !.room = n]
  OBVIOUS
<1>4. n \in Nat
  BY EncoderAssumption
<1>5. /\ x \in ClientType /\ x.open = y.open /\ x.piece = y.piece /\ x.lhpos = y.lhpos
      /\ x.strpos = y.strpos /\ x.got = y.got /\ x.frames = y.frames
  BY <1>3, <1>4 DEF ClientType
<1>6. cl' = [cl EXCEPT ![c] = x]
  BY <1>1, <1>2, <1>3
<1>7. ReaderOK(y, bufs[held[c]])
  BY <1>1, <1>2, ReaderIs DEF OutInv
<1>8. ReaderOK(x, bufs[held[c]])
  BY <1>5, <1>7, Zenon DEF ReaderOK
<1>9. ClientOK("copying", x, bufs[held[c]])
  BY <1>8, ReaderIs
<1> QED
  BY <1>1, <1>5, <1>6, <1>9, HoldLocal

(* The reader x follows r: it has read as much and has a piece to go on    *)
(* with, unless it is at the end.                                          *)
Follows(r, x, buf) ==
  /\ x \in ClientType /\ ReaderOK(x, buf)
  /\ x.got = r.got /\ x.frames = r.frames
  /\ x.piece = <<>> => x.got = x.frames[1]

LEMMA ReaderHas ==
  ASSUME NEW buf \in Contents, NEW r \in ClientType, ReaderOK(r, buf), r.piece = <<>>
  PROVE  \E f : /\ Reached(buf, f, r.lhpos - 1, r.strpos, r.got, r.frames[1])
                /\ r.lhpos - 1 \in 0..Len(buf.lheads) /\ r.lhpos \in Nat \ {0}
                /\ r.strpos \in Nat /\ r.strpos <= Len(buf.str)
<1>1. PICK f : Reached(buf, f, r.lhpos - 1, r.strpos, r.got \o r.piece, r.frames[1])
  BY DEF ReaderOK
<1>2. PICK g \in Seq(Int) : g = r.got
  BY DEF ClientType
<1>3. r.got \o r.piece = r.got
  BY <1>2, ConcatEmptySeq
<1>4. Reached(buf, f, r.lhpos - 1, r.strpos, r.got, r.frames[1])
  BY <1>1, <1>3, Zenon
<1>5. /\ r.lhpos - 1 \in 0..Len(buf.lheads)
      /\ r.strpos \in Nat /\ r.strpos <= Len(buf.str)
  BY <1>1 DEF Reached
<1>6. r.lhpos \in Nat \ {0}
  <2>1. r.lhpos \in Nat /\ Len(buf.lheads) \in Nat
    BY DEF ClientType, Contents
  <2> QED
    BY <1>5, <2>1
<1> QED
  BY <1>4, <1>5, <1>6

(* The next piece comes from str.                                          *)
LEMMA PieceOfString ==
  ASSUME NEW buf \in Contents, NEW r \in ClientType, ReaderOK(r, buf), r.piece = <<>>,
         NEW p \in Nat, r.strpos <= p, p <= Len(buf.str),
         r.lhpos <= Len(buf.lheads) => r.strpos < p /\ p <= Off(buf, r.lhpos),
         r.lhpos > Len(buf.lheads) => p = Len(buf.str),
         NEW piece, piece = SubSeq(buf.str, r.strpos + 1, p),
         NEW x, x = [r EXCEPT !.piece = piece, !.strpos = p]
  PROVE  Follows(r, x, buf)
<1>1. PICK f : /\ Reached(buf, f, r.lhpos - 1, r.strpos, r.got, r.frames[1])
               /\ r.lhpos - 1 \in 0..Len(buf.lheads) /\ r.lhpos \in Nat \ {0}
               /\ r.strpos \in Nat /\ r.strpos <= Len(buf.str)
  BY ReaderHas
<1>2. PICK k \in Nat : k = r.lhpos - 1 /\ k + 1 = r.lhpos /\ Len(buf.lheads) \in Nat
  <2>1. PICK n \in Nat \ {0} : n = r.lhpos
    BY <1>1
  <2>2. n - 1 \in Nat /\ (n - 1) + 1 = n
    OBVIOUS
  <2>3. Len(buf.lheads) \in Nat
    BY DEF Contents
  <2> QED
    BY <2>1, <2>2, <2>3
<1>3. PICK out2 : out2 = r.got \o piece
  OBVIOUS
<1>4. Reached(buf, f, k, p, out2, r.frames[1]) /\ piece \in Seq(Int)
  <2>1. Takes(buf, r.strpos, p, piece, r.got, out2)
    BY <1>3 DEF Takes
  <2>2. k < Len(buf.lheads) => p <= Off(buf, k + 1)
    BY <1>1, <1>2
  <2> QED
    BY <1>1, <1>2, <2>1, <2>2, ReachedString
<1>5. /\ x \in ClientType /\ x.open = r.open /\ x.frames = r.frames /\ x.got = r.got
      /\ x.piece = piece /\ x.strpos = p /\ x.lhpos = r.lhpos
  BY <1>4 DEF ClientType
<1>6. x.got \o x.piece = out2
  BY <1>3, <1>5, Zenon
<1>7. Reached(buf, f, x.lhpos - 1, x.strpos, x.got \o x.piece, x.frames[1])
  BY <1>2, <1>4, <1>5, <1>6, Zenon
<1>8. ReaderOK(x, buf)
  <2>1. Filling(r.open, r.frames, buf) /\ r.open = <<>>
    BY DEF ReaderOK
  <2> QED
    BY <1>5, <1>7, <2>1, Zenon DEF ReaderOK
<1>9. ASSUME piece = <<>> PROVE r.got = r.frames[1]
  <2>1. r.lhpos > Len(buf.lheads)
    <3>1. CASE r.strpos < p
      <4>1. PICK s \in Seq(Int), m \in Nat \ {0} : s = buf.str /\ m = r.strpos + 1
        BY <1>1, SMTT(80) DEF Contents
      <4>2. Len(SubSeq(s, m, p)) = p - m + 1
        BY <3>1, <4>1, <1>1, SubType
      <4>3. Len(piece) = 0
        BY <1>9, EmptySeq
      <4> QED
        BY <1>1, <3>1, <4>1, <4>2, <4>3
    <3>2. CASE ~(r.strpos < p)
      BY <1>2, <3>2
    <3> QED
      BY <3>1, <3>2
  <2>2. p = Len(buf.str) /\ k = Len(buf.lheads)
    BY <1>1, <1>2, <2>1
  <2>3. out2 = r.frames[1]
    BY <1>4, <2>2, ReachedAll
  <2>4. out2 = r.got
    <3>1. PICK g \in Seq(Int) : g = r.got
      BY DEF ClientType
    <3> QED
      BY <1>3, <1>9, <3>1, ConcatEmptySeq
  <2> QED
    BY <2>3, <2>4
<1> QED
  BY <1>5, <1>8, <1>9 DEF Follows

(* The next piece is a header.                                             *)
LEMMA PieceOfHead ==
  ASSUME NEW buf \in Contents, NEW r \in ClientType, ReaderOK(r, buf), r.piece = <<>>,
         r.lhpos <= Len(buf.lheads), Off(buf, r.lhpos) <= r.strpos,
         NEW piece, piece = encodeHead(buf.lheads[r.lhpos]),
         NEW x, x = [r EXCEPT !.piece = piece, !.lhpos = @ + 1]
  PROVE  Follows(r, x, buf)
<1>1. PICK f : /\ Reached(buf, f, r.lhpos - 1, r.strpos, r.got, r.frames[1])
               /\ r.lhpos - 1 \in 0..Len(buf.lheads) /\ r.lhpos \in Nat \ {0}
               /\ r.strpos \in Nat /\ r.strpos <= Len(buf.str)
  BY ReaderHas
<1>2. PICK k \in Nat, l \in Nat : k = r.lhpos - 1 /\ l = Len(buf.lheads) /\ k + 1 = r.lhpos
  <2>1. Len(buf.lheads) \in Nat
    BY DEF Contents
  <2> QED
    BY <1>1, <2>1
<1>3. r.strpos = Off(buf, k + 1) /\ k < Len(buf.lheads)
  <2>1. k < Len(buf.lheads)
    BY <1>2
  <2>2. r.strpos <= Off(buf, k + 1)
    BY <1>1, <1>2, <2>1 DEF Reached
  <2>3. Off(buf, k + 1) \in Nat
    <3>1. k + 1 \in 0..Len(buf.lheads)
      BY <1>2
    <3> QED
      BY <3>1, OffType
  <2> QED
    BY <1>1, <1>2, <2>1, <2>2, <2>3
<1>4. PICK out2 : out2 = r.got \o piece
  OBVIOUS
<1>5. /\ Reached(buf, f, k + 1, r.strpos, out2, r.frames[1])
      /\ piece \in Seq(Int) /\ piece # <<>>
  <2>1. piece = encodeHead(buf.lheads[k + 1])
    BY <1>2
  <2> QED
    BY <1>1, <1>2, <1>3, <1>4, <2>1, ReachedHead
<1>6. /\ x \in ClientType /\ x.open = r.open /\ x.frames = r.frames /\ x.got = r.got
      /\ x.piece = piece /\ x.strpos = r.strpos /\ x.lhpos = r.lhpos + 1
  <2>1. PICK n \in Nat : n = r.lhpos + 1
    BY <1>1
  <2> QED
    BY <1>5, <2>1 DEF ClientType
<1>7. x.got \o x.piece = out2 /\ x.lhpos - 1 = k + 1
  <2>1. x.lhpos - 1 = k + 1
    BY <1>2, <1>6
  <2>2. x.got \o x.piece = out2
    BY <1>4, <1>6, Zenon
  <2> QED
    BY <2>1, <2>2
<1>8. Reached(buf, f, x.lhpos - 1, x.strpos, x.got \o x.piece, x.frames[1])
  BY <1>5, <1>6, <1>7, Zenon
<1>9. ReaderOK(x, buf)
  <2>1. Filling(r.open, r.frames, buf) /\ r.open = <<>>
    BY DEF ReaderOK
  <2> QED
    BY <1>6, <1>8, <2>1, Zenon DEF ReaderOK
<1>10. x.piece # <<>>
  BY <1>5, <1>6
<1> QED
  BY <1>6, <1>9, <1>10, Zenon DEF Follows

(* next, from any place in the output.                                     *)
LEMMA NextFollows ==
  ASSUME OutInv, NEW c \in Clients, at[c] = "copying"
  PROVE  Follows(cl[c], next(c), buffer(c))
<1>1. PICK buf \in Contents : buf = buffer(c)
  BY EncodingHas
<1>2. PICK r \in ClientType : r = cl[c]
  BY DEF OutInv
<1>3. ReaderOK(r, buf)
  BY <1>1, <1>2, ReaderIs DEF OutInv, buffer
<1>4. CASE r.piece # <<>>
  <2>1. next(c) = r
    BY <1>2, <1>4 DEF next
  <2> QED
    BY <1>1, <1>2, <1>3, <1>4, <2>1 DEF Follows
<1>5. CASE r.piece = <<>>
  <2>1. PICK f : /\ Reached(buf, f, r.lhpos - 1, r.strpos, r.got, r.frames[1])
                 /\ r.lhpos - 1 \in 0..Len(buf.lheads) /\ r.lhpos \in Nat \ {0}
                 /\ r.strpos \in Nat /\ r.strpos <= Len(buf.str)
    BY <1>3, <1>5, ReaderHas
  <2>2. PICK l \in Nat, q \in Nat : l = Len(buf.lheads) /\ q = Len(buf.str)
    BY DEF Contents
  <2>3. CASE r.lhpos > Len(buf.lheads)
    <3>1. PICK piece : piece = SubSeq(buf.str, r.strpos + 1, q)
      OBVIOUS
    <3>2. PICK x : x = [r EXCEPT !.piece = piece, !.strpos = q]
      OBVIOUS
    <3>3. next(c) = x
      BY <1>1, <1>2, <1>5, <2>2, <2>3, <3>1, <3>2 DEF next
    <3>4. ~(r.lhpos <= Len(buf.lheads))
      BY <2>1, <2>2, <2>3
    <3>5. Follows(r, x, buf)
      <4>1. r.strpos <= q /\ q <= Len(buf.str)
        BY <2>1, <2>2
      <4> QED
        BY <1>3, <1>5, <2>2, <3>1, <3>2, <3>4, <4>1, PieceOfString, Zenon
    <3> QED
      BY <1>1, <1>2, <3>3, <3>5
  <2>4. CASE r.lhpos <= Len(buf.lheads)
    <3>1. Off(buf, r.lhpos) = buf.lheads[r.lhpos].offset /\ Off(buf, r.lhpos) <= Len(buf.str)
          /\ Off(buf, r.lhpos) \in Nat /\ ~(r.lhpos > Len(buf.lheads))
      <4>1. r.lhpos \in 0..Len(buf.lheads) /\ r.lhpos # 0 /\ ~(r.lhpos > Len(buf.lheads))
        BY <2>1, <2>2, <2>4
      <4>2. Ordered(buf)
        BY <2>1 DEF Reached
      <4> QED
        BY <4>1, <4>2, OffType DEF Ordered, Off
    <3>2. CASE Off(buf, r.lhpos) > r.strpos
      <4>1. PICK p \in Nat : p = Off(buf, r.lhpos)
        BY <3>1
      <4>2. PICK piece : piece = SubSeq(buf.str, r.strpos + 1, p)
        OBVIOUS
      <4>3. PICK x : x = [r EXCEPT !.piece = piece, !.strpos = p]
        OBVIOUS
      <4>4. next(c) = x
        BY <1>1, <1>2, <1>5, <3>1, <3>2, <4>1, <4>2, <4>3 DEF next
      <4>5. r.strpos <= p /\ p <= Len(buf.str) /\ r.strpos < p /\ p <= Off(buf, r.lhpos)
        BY <2>1, <3>1, <3>2, <4>1
      <4>6. Follows(r, x, buf)
        BY <1>3, <1>5, <3>1, <4>2, <4>3, <4>5, PieceOfString
      <4> QED
        BY <1>1, <1>2, <4>4, <4>6
    <3>3. CASE ~(Off(buf, r.lhpos) > r.strpos)
      <4>1. PICK piece : piece = encodeHead(buf.lheads[r.lhpos])
        OBVIOUS
      <4>2. PICK x : x = [r EXCEPT !.piece = piece, !.lhpos = @ + 1]
        OBVIOUS
      <4>3. next(c) = x
        BY <1>1, <1>2, <1>5, <3>1, <3>3, <4>1, <4>2 DEF next
      <4>4. Off(buf, r.lhpos) <= r.strpos
        BY <2>1, <3>1, <3>3
      <4>5. Follows(r, x, buf)
        BY <1>3, <1>5, <2>4, <4>1, <4>2, <4>4, PieceOfHead
      <4> QED
        BY <1>1, <1>2, <4>3, <4>5
    <3> QED
      BY <3>2, <3>3
  <2> QED
    BY <2>1, <2>2, <2>3, <2>4
<1> QED
  BY <1>4, <1>5

LEMMA Lesser ==
  ASSUME NEW r \in Nat, NEW l \in Nat, NEW n, n = IF r < l THEN r ELSE l
  PROVE  n \in Nat /\ n <= l /\ n <= r /\ r - n \in Nat
OBVIOUS

(* Part of a piece is copied, and the rest is kept for later.              *)
LEMMA PieceCopied ==
  ASSUME NEW buf, NEW x \in ClientType, ReaderOK(x, buf),
         NEW nn, nn = IF x.room < Len(x.piece) THEN x.room ELSE Len(x.piece),
         NEW got, got = x.got \o SubSeq(x.piece, 1, nn),
         NEW piece, piece = SubSeq(x.piece, nn + 1, Len(x.piece)),
         NEW y, y = [x EXCEPT !.got = got, !.piece = piece, !.room = @ - nn]
  PROVE  y \in ClientType /\ ReaderOK(y, buf)
<1>1. PICK g \in Seq(Int), p \in Seq(Int) : g = x.got /\ p = x.piece
  BY DEF ClientType
<1>2. PICK n \in Nat, l \in Nat : n = nn /\ l = Len(p) /\ n <= l /\ n <= x.room /\ x.room - nn \in Nat
  <2>1. x.room \in Nat
    BY DEF ClientType
  <2>2. PICK r \in Nat : r = x.room
    BY <2>1
  <2>3. PICK l \in Nat : l = Len(p)
    BY LenProperties, Zenon
  <2>4. l = Len(x.piece)
    BY <1>1, <2>3
  <2>5. nn = IF r < l THEN r ELSE l
    BY <2>2, <2>4
  <2>6. nn \in Nat /\ nn <= l /\ nn <= r /\ r - nn \in Nat
    BY <2>5, Lesser, Zenon
  <2> QED
    BY <2>2, <2>3, <2>6
<1>3. PICK a \in Seq(Int) : a = SubSeq(p, 1, n) /\ got = g \o a
  <2>1. SubSeq(p, 1, n) \in Seq(Int)
    BY <1>2, CutBegins
  <2>2. got = g \o SubSeq(p, 1, n)
    BY <1>1, <1>2, Zenon
  <2> QED
    BY <2>1, <2>2
<1>4. PICK b \in Seq(Int) : b = SubSeq(p, n + 1, l) /\ piece = b
  <2>1. PICK m \in Nat \ {0} : m = n + 1
    OBVIOUS
  <2>2. SubSeq(p, m, l) \in Seq(Int)
    BY <1>2, SubType
  <2> QED
    BY <1>1, <1>2, <2>1, <2>2
<1>5. a \o b = p
  <2>1. PICK m \in 1..(Len(p) + 1) : m = 1
    BY <1>2
  <2>2. n \in (m - 1)..Len(p) /\ l \in n..Len(p)
    BY <1>2, <2>1
  <2>3. SubSeq(p, m, n) \o SubSeq(p, n + 1, l) = SubSeq(p, m, l)
    BY <2>2, ConcatAdjacentSubSeq
  <2>4. SubSeq(p, 1, l) = p
    BY <1>2, SubSeqFull
  <2> QED
    BY <1>3, <1>4, <2>1, <2>3, <2>4
<1>6. got \o piece = x.got \o x.piece
  <2>1. (g \o a) \o b = g \o (a \o b)
    BY Assoc
  <2> QED
    BY <1>1, <1>3, <1>4, <1>5, <2>1, Zenon
<1>7. got \in Seq(Int)
  <2>1. g \o a \in Seq(Int)
    OBVIOUS
  <2> QED
    BY <1>3, <2>1
<1>8. /\ y \in ClientType /\ y.open = x.open /\ y.frames = x.frames /\ y.lhpos = x.lhpos
      /\ y.strpos = x.strpos /\ y.got = got /\ y.piece = piece
  <2>1. PICK k \in Nat : k = x.room - nn
    BY <1>2
  <2>2. y = [x EXCEPT !.got = got, !.piece = piece, !.room = k]
    BY <2>1
  <2>3. PICK z : z = [x EXCEPT !.got = got]
    OBVIOUS
  <2>4. z \in ClientType
    BY <1>7, <2>3 DEF ClientType
  <2>5. PICK w : w = [z EXCEPT !.piece = piece]
    OBVIOUS
  <2>6. w \in ClientType
    BY <1>4, <2>4, <2>5 DEF ClientType
  <2>7. [w EXCEPT !.room = k] \in ClientType
    BY <2>6 DEF ClientType
  <2>8. y = [w EXCEPT !.room = k]
    BY <2>2, <2>3, <2>5 DEF ClientType
  <2>9. /\ w.open = x.open /\ w.frames = x.frames /\ w.lhpos = x.lhpos
        /\ w.strpos = x.strpos /\ w.got = got /\ w.piece = piece
    BY <2>3, <2>5 DEF ClientType
  <2> QED
    BY <2>6, <2>7, <2>8, <2>9 DEF ClientType
<1>9. y.got \o y.piece = x.got \o x.piece
  BY <1>6, <1>8, Zenon
<1>10. ReaderOK(y, buf)
  BY <1>8, <1>9, Zenon DEF ReaderOK
<1> QED
  BY <1>8, <1>10

LEMMA ReadPieceLocal ==
  ASSUME OutInv, NEW c \in Clients, ReadPiece(c)
  PROVE  Local(c)
<1>1. at[c] = "copying" /\ UNCHANGED <<bufs, held>>
  BY DEF ReadPiece
<1>2. PICK x \in ClientType : x = next(c) /\ ReaderOK(x, buffer(c))
  BY <1>1, NextFollows DEF Follows
<1>3. PICK nn, got, piece :
        /\ nn = IF x.room < Len(x.piece) THEN x.room ELSE Len(x.piece)
        /\ got = x.got \o SubSeq(x.piece, 1, nn)
        /\ piece = SubSeq(x.piece, nn + 1, Len(x.piece))
  OBVIOUS
<1>4. PICK y : y = [x EXCEPT !.got = got, !.piece = piece, !.room = @ - nn]
  OBVIOUS
<1>5. y \in ClientType /\ ReaderOK(y, buffer(c))
  BY <1>2, <1>3, <1>4, PieceCopied, ZenonT(80)
<1>6. cl' = [cl EXCEPT ![c] = y]
  BY <1>2, <1>3, <1>4, Zenon DEF ReadPiece
<1>7. PICK what \in {"reading", "copying"} : at' = [at EXCEPT ![c] = what]
  <2>1. \E p \in BOOLEAN : at' = [at EXCEPT ![c] = IF p THEN "reading" ELSE @]
    BY DEF ReadPiece
  <2>2. at' = [at EXCEPT ![c] = "reading"] \/ at' = [at EXCEPT ![c] = "copying"]
    BY <1>1, <2>1 DEF OutInv, IInv, TypeOK, BufferExclusive
  <2> QED
    BY <2>2
<1>8. ClientOK(what, y, bufs[held[c]])
  BY <1>5, ReaderIs DEF buffer
<1> QED
  BY <1>1, <1>5, <1>6, <1>7, <1>8, HoldLocal

LEMMA ReadEOFLocal ==
  ASSUME OutInv, NEW c \in Clients, ReadEOF(c)
  PROVE  Local(c)
<1>1. /\ at[c] = "copying" /\ next(c).piece = <<>> /\ Put(c, "done")
      /\ cl' = [cl EXCEPT ![c] = next(c)]
  BY DEF ReadEOF
<1>2. PICK x \in ClientType : x = next(c) /\ x.got = x.frames[1]
  BY <1>1, NextFollows DEF Follows
<1> QED
  BY <1>1, <1>2, PutLocal

-----------------------------------------------------------------------------
(* Every step is right for the client that takes it.                       *)
LEMMA StepLocal ==
  ASSUME OutInv, Next
  PROVE  \E c \in Clients : Local(c)
<1> PICK c \in Clients :
      \/ getEncBuffer(c, "writing") \/ getEncBuffer(c, "buffered")
      \/ \E b \in Strings : WriteBytes(c, b) \/ WriteEncoded(c, b)
      \/ List(c) \/ ListEnd(c)
      \/ EncodeFails(c) \/ EncodeToBytes(c)
      \/ EncodeToWriterFails(c) \/ ClientGivesUp(c)
      \/ Derive(c) \/ FlushDerived(c)
      \/ Reset(c) \/ ToBytes(c) \/ Flush(c)
      \/ EncodeToReader(c) \/ ReadStep(c)
  BY DEF Next
<1>1. CASE getEncBuffer(c, "writing") \/ getEncBuffer(c, "buffered")
  BY <1>1, GetLocal
<1>2. CASE \E b \in Strings : WriteBytes(c, b) \/ WriteEncoded(c, b)
  BY <1>2, WriteBytesLocal, WriteEncodedLocal
<1>3. CASE List(c) \/ ListEnd(c)
  BY <1>3, ListLocal, ListEndLocal
<1>4. CASE EncodeToBytes(c)
  BY <1>4, DoneLocal DEF EncodeToBytes
<1>5. CASE EncodeFails(c) \/ EncodeToWriterFails(c) \/ ClientGivesUp(c)
  BY <1>5, EncodeFailsLocal, WriterFailsLocal, GivesUpLocal
<1>6. CASE Derive(c) \/ FlushDerived(c) \/ Reset(c) \/ ToBytes(c) \/ Flush(c)
  BY <1>6, DeriveLocal, ResetLocal, ToBytesLocal, FlushLocal
<1>7. CASE EncodeToReader(c) \/ ReadStep(c)
  BY <1>7, ToReaderLocal, ReadLocal, ReadPieceLocal, ReadEOFLocal DEF ReadStep
<1> QED
  BY <1>1, <1>2, <1>3, <1>4, <1>5, <1>6, <1>7

LEMMA OutInvInitially == Init => OutInv
<1> SUFFICES ASSUME Init PROVE OutInv
  OBVIOUS
<1>1. IInv
  BY Initially
<1>2. bufs \in [Buffers -> Contents]
  BY FillingBegins DEF Init
<1>3. cl \in [Clients -> ClientType]
  BY FreshType DEF Init
<1>4. \A c \in Clients : ClientOK(at[c], cl[c], bufs[held[c]])
  <2>1. \A c \in Clients : at[c] = "idle"
    BY DEF Init
  <2> QED
    BY <2>1, IdleOK
<1> QED
  BY <1>1, <1>2, <1>3, <1>4 DEF OutInv

LEMMA OutInvInductive == OutInv /\ [Next]_vars => OutInv'
<1> SUFFICES ASSUME OutInv, [Next]_vars PROVE OutInv'
  OBVIOUS
<1>1. IInv'
  BY Inductive DEF OutInv
<1>2. CASE Next
  <2>1. PICK c \in Clients : Local(c)
    BY <1>2, StepLocal
  <2> QED
    BY <1>1, <2>1, LocalKeeps
<1>3. CASE UNCHANGED vars
  BY <1>1, <1>3, Zenon DEF vars, OutInv
<1> QED
  BY <1>2, <1>3

(* What the invariant says about what came out.                            *)
LEMMA OutInvImplies == OutInv => OutputIsEncoding /\ SizeIsLength
<1> SUFFICES ASSUME OutInv PROVE OutputIsEncoding /\ SizeIsLength
  OBVIOUS
<1>1. ASSUME NEW c \in Clients, at[c] \in {"buffered", "failed"}
      PROVE  IsPrefixOf(cl[c].got, cl[c].frames[1])
  <2>1. Begins(cl[c].got, cl[c].frames[1])
    BY <1>1 DEF OutInv, ClientOK
  <2>2. cl[c].got \in Seq(Int)
    BY DEF OutInv, ClientType
  <2> QED
    BY <2>1, <2>2, BeginsIsPrefix
<1>2. ASSUME NEW c \in Clients, at[c] \in {"reading", "copying"}
      PROVE  IsPrefixOf(cl[c].got, cl[c].frames[1])
  <2>1. PICK buf \in Contents : buf = buffer(c)
    BY <1>2, EncodingHas
  <2>2. PICK x \in ClientType : x = cl[c] /\ ReaderOK(x, buf)
    BY <1>2, <2>1, ReaderIs DEF OutInv, buffer
  <2>3. PICK f, out : out = x.got \o x.piece /\ Reached(buf, f, x.lhpos - 1, x.strpos, out, x.frames[1])
    BY <2>2 DEF ReaderOK
  <2>4. Begins(out, x.frames[1])
    BY <2>3, ReachedPrefix
  <2>5. x.got \in Seq(Int) /\ x.piece \in Seq(Int)
    BY DEF ClientType
  <2>6. Begins(x.got, out)
    BY <2>3, <2>5, Zenon DEF Begins
  <2>7. Begins(x.got, x.frames[1])
    BY <2>4, <2>5, <2>6, BeginsTransitive
  <2> QED
    BY <2>2, <2>5, <2>7, BeginsIsPrefix
<1>3. ASSUME NEW c \in Clients, at[c] = "done"
      PROVE  cl[c].got = cl[c].frames[1]
  BY <1>3 DEF OutInv, ClientOK
<1>4. OutputIsEncoding
  BY <1>1, <1>2, <1>3 DEF OutputIsEncoding
<1>5. SizeIsLength
  BY ClosedHas DEF SizeIsLength
<1> QED
  BY <1>4, <1>5

(* However the writing of lists nests, and whether the bytes are made at   *)
(* once, copied until a writer fails, or read in pieces of any size, what  *)
(* comes out is the encoding by the definition of RLP, from its beginning, *)
(* and all of it where the end is reported (makeBytes, writeTo, list,      *)
(* listEnd and encReader.Read, while other clients use the same pool).     *)
THEOREM OutputsAreEncodings == Spec => []OutputIsEncoding
BY OutInvInitially, OutInvInductive, OutInvImplies, PTL DEF Spec

(* The size that encBuffer.size gives, which EncodeToReader and ToBytes    *)
(* rely on, is the length of the encoding once all lists are closed.       *)
THEOREM SizesAreExact == Spec => []SizeIsLength
BY OutInvInitially, OutInvInductive, OutInvImplies, PTL DEF Spec
=============================================================================
