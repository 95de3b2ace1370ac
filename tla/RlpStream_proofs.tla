-------------------------- MODULE RlpStream_proofs --------------------------
(***************************************************************************)
(* Proofs about the decoder stream: its limits and its stack of lists, for *)
(* any inputs, limits and sequence of calls.                               *)
(***************************************************************************)
EXTENDS RlpStreamClient, SequenceTheorems, TLAPS

(* The integers of the code have 64 bits.                                  *)
Uint64Sizes == Word = 18446744073709551616

Torn == {"ErrUnexpectedEOF", "ErrValueTooLarge", "EOF"}

Fits(t) == t.limited /\ t.kind # None /\ t.kinderr = Nil => t.size <= t.remaining

Good(t) == t \in Streams /\ t.pos <= Len(t.in) /\ t.size < Word /\ Fits(t)

(* What has been read from t to u is taken off the innermost list.         *)
Charged(t, u) ==
  \A i \in 1..Len(t.stack) :
    u.stack[i] = IF i = Len(t.stack) THEN (t.stack[i] - (u.pos - t.pos)) % Word ELSE t.stack[i]

(* Reading takes the stream t to u with the error e.                       *)
Reads(t, u, e) ==
  /\ Good(u)
  /\ u.in = t.in /\ u.pos >= t.pos
  /\ u.limited = t.limited
  /\ u.limited => u.pos + u.remaining <= t.pos + t.remaining
  /\ Len(u.stack) = Len(t.stack)
  /\ e \notin Torn => Charged(t, u)

-----------------------------------------------------------------------------
(* Integers of a word.                                                     *)

LEMMA Mod ==
  ASSUME Uint64Sizes, NEW x \in Int, NEW n \in Int
  PROVE  ((x % Word) - n) % Word = (x - n) % Word
BY SMT DEF Uint64Sizes

LEMMA ModRange ==
  ASSUME Uint64Sizes, NEW x \in Int
  PROVE  x % Word \in 0..(Word - 1)
BY SMT DEF Uint64Sizes

LEMMA ModSmall ==
  ASSUME Uint64Sizes, NEW x \in 0..(Word - 1)
  PROVE  x % Word = x
BY SMT DEF Uint64Sizes

(* Two ends that are equal modulo the word.                                *)
LEMMA ModEqual ==
  ASSUME Uint64Sizes, NEW a \in Int, NEW b \in Int, NEW p \in Int, (b - p) % Word = 0
  PROVE  (a - p) % Word = (a - b) % Word
BY SMT DEF Uint64Sizes

LEMMA ModZero ==
  ASSUME Uint64Sizes, NEW x \in Int, x % Word = 0, -Word < x, x < Word
  PROVE  x = 0
BY SMT DEF Uint64Sizes

(* readUint reads at most eight bytes: the integer fits.                   *)
LEMMA BigEndianFits ==
  ASSUME Uint64Sizes, NEW b \in Seq(0..255)
  PROVE  BigEndian(b) \in 0..(Word - 1)
<1> DEFINE byte(k) == IF k <= Len(b) THEN b[Len(b) + 1 - k] ELSE 0
<1>1. ASSUME NEW k \in 1..8 PROVE byte(k) \in 0..255
  <2>1. CASE k <= Len(b)
    <3>1. Len(b) + 1 - k \in 1..Len(b)
      BY <1>1, <2>1
    <3>2. b[Len(b) + 1 - k] \in 0..255
      BY <3>1, ElementOfSeq
    <3> QED
      BY <2>1, <3>2
  <2> QED
    BY <2>1
<1>2. BigEndian(b) = byte(1) + 256 * (byte(2) + 256 * (byte(3) + 256 * (byte(4)
        + 256 * (byte(5) + 256 * (byte(6) + 256 * (byte(7) + 256 * byte(8)))))))
  BY DEF BigEndian
<1> HIDE DEF byte
<1>3. /\ byte(1) \in 0..255 /\ byte(2) \in 0..255 /\ byte(3) \in 0..255 /\ byte(4) \in 0..255
      /\ byte(5) \in 0..255 /\ byte(6) \in 0..255 /\ byte(7) \in 0..255 /\ byte(8) \in 0..255
  BY <1>1, SMTT(80)
<1>4. PICK b1 \in 0..255, b2 \in 0..255, b3 \in 0..255, b4 \in 0..255,
           b5 \in 0..255, b6 \in 0..255, b7 \in 0..255, b8 \in 0..255 :
        /\ b1 = byte(1) /\ b2 = byte(2) /\ b3 = byte(3) /\ b4 = byte(4)
        /\ b5 = byte(5) /\ b6 = byte(6) /\ b7 = byte(7) /\ b8 = byte(8)
  BY <1>3, ZenonT(80)
<1>5. BigEndian(b) = b1 + 256 * (b2 + 256 * (b3 + 256 * (b4
        + 256 * (b5 + 256 * (b6 + 256 * (b7 + 256 * b8))))))
  BY <1>2, <1>4
<1>6. b1 + 256 * (b2 + 256 * (b3 + 256 * (b4
        + 256 * (b5 + 256 * (b6 + 256 * (b7 + 256 * b8)))))) \in 0..(Word - 1)
  BY SMT DEF Uint64Sizes
<1> QED
  BY <1>5, <1>6

-----------------------------------------------------------------------------
(* Reading.                                                                *)

LEMMA ChargeType ==
  ASSUME Uint64Sizes, NEW t \in Streams, inList(t), NEW n \in Nat
  PROVE  /\ Charge(t, n) \in Streams
         /\ Len(Charge(t, n).stack) = Len(t.stack)
         /\ \A i \in 1..Len(t.stack) :
              Charge(t, n).stack[i] = IF i = Len(t.stack) THEN (t.stack[i] - n) % Word ELSE t.stack[i]
<1> DEFINE L == Len(t.stack)
           y == (t.stack[L] - n) % Word
           st == [t.stack EXCEPT ![L] = y]
<1>1. t.stack \in Seq(0..(Word - 1)) /\ L \in 1..L /\ Word \in Nat
  BY WordAssumption DEF Streams, inList
<1>2. t.stack[L] \in 0..(Word - 1)
  BY <1>1
<1>3. y \in 0..(Word - 1)
  <2>1. t.stack[L] - n \in Int
    BY <1>2
  <2> QED
    BY <2>1, ModRange
<1>4. Charge(t, n) = [t EXCEPT !.stack = st]
  BY DEF Charge
<1>5. st \in Seq(0..(Word - 1)) /\ Len(st) = L
      /\ \A i \in 1..L : st[i] = IF i = L THEN y ELSE t.stack[i]
  <2> HIDE DEF y
  <2> QED
    BY <1>1, <1>3
<1>6. Charge(t, n).stack = st
  BY <1>4 DEF Streams
<1>7. Charge(t, n) \in Streams
  <2> HIDE DEF st
  <2> QED
    BY <1>4, <1>5, ZenonT(80) DEF Streams
<1> QED
  BY <1>5, <1>6, <1>7

(* willRead clears the header, charges the list and counts against the     *)
(* limit.                                                                  *)
LEMMA WillRead ==
  ASSUME Uint64Sizes, NEW t, Good(t), NEW n \in Nat, NEW r, r = willRead(t, n)
  PROVE  /\ r.s \in Streams /\ r.s.kind = None
         /\ r.s.in = t.in /\ r.s.pos = t.pos /\ r.s.limited = t.limited /\ r.s.size = t.size
         /\ Len(r.s.stack) = Len(t.stack)
         /\ r.err \in {Nil, "ErrElemTooLarge", "ErrValueTooLarge"}
         /\ r.err = Nil =>
              \A i \in 1..Len(t.stack) :
                r.s.stack[i] = IF i = Len(t.stack) THEN (t.stack[i] - n) % Word ELSE t.stack[i]
         /\ r.err = "ErrElemTooLarge" => r.s.stack = t.stack
         /\ r.s.limited => r.s.remaining = t.remaining - (IF r.err = Nil THEN n ELSE 0)
<1> DEFINE w == IF inList(t) THEN Charge(Rearm(t), n) ELSE Rearm(t)
<1>1. /\ Rearm(t) \in Streams /\ Rearm(t).kind = None /\ Rearm(t).stack = t.stack
      /\ Rearm(t).in = t.in /\ Rearm(t).pos = t.pos /\ Rearm(t).limited = t.limited
      /\ Rearm(t).size = t.size /\ Rearm(t).remaining = t.remaining
  BY DEF Good, Streams, Rearm
<1>2. /\ w \in Streams /\ w.kind = None
      /\ w.in = t.in /\ w.pos = t.pos /\ w.limited = t.limited /\ w.size = t.size
      /\ w.remaining = t.remaining
      /\ Len(w.stack) = Len(t.stack)
      /\ \A i \in 1..Len(t.stack) :
           w.stack[i] = IF i = Len(t.stack) THEN (t.stack[i] - n) % Word ELSE t.stack[i]
  <2>1. CASE inList(t)
    <3>1. inList(Rearm(t))
      BY <1>1, <2>1 DEF inList
    <3>2. Charge(Rearm(t), n) = [Rearm(t) EXCEPT !.stack = Charge(Rearm(t), n).stack]
      BY <1>1 DEF Charge, Streams
    <3>3. /\ w \in Streams /\ Len(w.stack) = Len(t.stack)
          /\ \A i \in 1..Len(t.stack) :
               w.stack[i] = IF i = Len(t.stack) THEN (t.stack[i] - n) % Word ELSE t.stack[i]
      BY <1>1, <2>1, <3>1, ChargeType
    <3> QED
      BY <1>1, <2>1, <3>2, <3>3 DEF Streams
  <2>2. CASE ~inList(t)
    <3>1. Len(t.stack) = 0
      BY <2>2 DEF inList, Good, Streams
    <3> QED
      BY <1>1, <2>2, <3>1
  <2> QED
    BY <2>1, <2>2
<1> HIDE DEF w
<1>3. CASE inList(t) /\ n > listLimit(t)
  <2>1. r = Fail(Rearm(t), "ErrElemTooLarge")
    BY <1>3 DEF willRead
  <2>2. r.s = Rearm(t) /\ r.err = "ErrElemTooLarge"
    BY <2>1 DEF Fail
  <2> QED
    BY <1>1, <2>2 DEF Nil, Good, Streams
<1>4. CASE ~(inList(t) /\ n > listLimit(t))
  <2>1. r = ChargeInput(w, n)
    BY <1>4 DEF willRead, w
  <2>2. w.remaining \in Nat
    BY <1>2 DEF Streams
  <2>3. CASE ~w.limited
    <3>1. r.s = w /\ r.err = Nil
      BY <2>1, <2>3 DEF ChargeInput, Done
    <3> QED
      BY <1>2, <2>3, <3>1 DEF Nil
  <2>4. CASE w.limited /\ n > w.remaining
    <3>1. r.s = w /\ r.err = "ErrValueTooLarge"
      BY <2>1, <2>4 DEF ChargeInput, Fail
    <3> QED
      BY <1>2, <2>2, <3>1 DEF Nil
  <2>5. CASE w.limited /\ ~(n > w.remaining)
    <3>p. PICK m \in Nat : m = w.remaining - n /\ m = t.remaining - n
      BY <1>2, <2>2, <2>5
    <3>1. r.s = [w EXCEPT !.remaining = m] /\ r.err = Nil
      BY <2>1, <2>5, <3>p DEF ChargeInput, Done
    <3>2. /\ r.s \in Streams /\ r.s.kind = None /\ r.s.in = t.in /\ r.s.pos = t.pos
          /\ r.s.limited = t.limited /\ r.s.size = t.size /\ r.s.stack = w.stack
          /\ r.s.remaining = t.remaining - n
      BY <1>2, <2>2, <2>5, <3>p, <3>1, ZenonT(80) DEF Streams
    <3> QED
      BY <1>2, <3>1, <3>2 DEF Nil
  <2> QED
    BY <2>3, <2>4, <2>5
<1> QED
  BY <1>3, <1>4

(* readFull reads n bytes or fails.                                        *)
LEMMA ReadFull ==
  ASSUME Uint64Sizes, NEW t, Good(t), NEW n \in Nat, NEW r, r = readFull(t, n)
  PROVE  /\ Reads(t, r.s, r.err)
         /\ r.s.kind = None /\ r.s.size = t.size
         /\ r.err \in {Nil, "ErrElemTooLarge", "ErrValueTooLarge", "ErrUnexpectedEOF"}
         /\ r.err = Nil => r.val \in Seq(0..255) /\ Len(r.val) = n
<1> DEFINE w == willRead(t, n)
<1>1. /\ w.s \in Streams /\ w.s.kind = None
      /\ w.s.in = t.in /\ w.s.pos = t.pos /\ w.s.limited = t.limited /\ w.s.size = t.size
      /\ Len(w.s.stack) = Len(t.stack)
      /\ w.err \in {Nil, "ErrElemTooLarge", "ErrValueTooLarge"}
      /\ w.err = Nil =>
           \A i \in 1..Len(t.stack) :
             w.s.stack[i] = IF i = Len(t.stack) THEN (t.stack[i] - n) % Word ELSE t.stack[i]
      /\ w.err = "ErrElemTooLarge" => w.s.stack = t.stack
      /\ w.s.limited => w.s.remaining = t.remaining - (IF w.err = Nil THEN n ELSE 0)
  BY WillRead
<1>2. /\ t.in \in Seq(0..255) /\ t.pos \in Nat /\ t.pos <= Len(t.in) /\ Len(t.in) \in Nat
      /\ t.stack \in Seq(0..(Word - 1)) /\ t.remaining \in Nat /\ t.size \in Nat /\ t.size < Word
  BY DEF Good, Streams
<1>3. r = IF w.err # Nil THEN Fail(w.s, w.err)
          ELSE IF n > Len(t.in) - t.pos
          THEN Fail([w.s EXCEPT !.pos = Len(t.in)], "ErrUnexpectedEOF")
          ELSE Done([w.s EXCEPT !.pos = @ + n], SubSeq(t.in, t.pos + 1, t.pos + n))
  BY DEF readFull, Then
<1> HIDE DEF w
<1>4. CASE w.err # Nil
  <2>1. r.s = w.s /\ r.err = w.err
    BY <1>3, <1>4 DEF Fail
  <2>2. w.err = "ErrElemTooLarge" => Charged(t, w.s)
    <3> SUFFICES ASSUME w.err = "ErrElemTooLarge", NEW i \in 1..Len(t.stack)
                 PROVE  t.stack[i] = (t.stack[i] - 0) % Word
      BY <1>1, <1>2 DEF Charged
    <3>1. t.stack[i] \in 0..(Word - 1)
      BY <1>2, ElementOfSeq
    <3> QED
      BY <3>1, ModSmall
  <2> QED
    BY <1>1, <1>2, <1>4, <2>1, <2>2 DEF Nil, Reads, Good, Fits, Torn
<1>5. CASE w.err = Nil /\ n > Len(t.in) - t.pos
  <2>1. r.s = [w.s EXCEPT !.pos = Len(t.in)] /\ r.err = "ErrUnexpectedEOF"
    BY <1>3, <1>5 DEF Fail
  <2>2. /\ r.s \in Streams /\ r.s.kind = None /\ r.s.size = t.size /\ r.s.in = t.in
        /\ r.s.pos = Len(t.in) /\ r.s.limited = t.limited /\ Len(r.s.stack) = Len(t.stack)
        /\ r.s.remaining = w.s.remaining
    BY <1>1, <1>2, <2>1, ZenonT(80) DEF Streams
  <2> QED
    BY <1>1, <1>2, <1>5, <2>1, <2>2 DEF Nil, Reads, Good, Fits, Torn
<1>6. CASE w.err = Nil /\ n <= Len(t.in) - t.pos
  <2>p. PICK p \in Nat : p = t.pos + n
    BY <1>2
  <2>v. PICK v : v = SubSeq(t.in, t.pos + 1, t.pos + n)
    OBVIOUS
  <2>0. r = Done([w.s EXCEPT !.pos = p], v)
    BY <1>1, <1>2, <1>3, <1>6, <2>p, <2>v
  <2>1. r.s = [w.s EXCEPT !.pos = p] /\ r.err = Nil /\ r.val = v
    BY <2>0 DEF Done
  <2>2. /\ r.s \in Streams /\ r.s.kind = None /\ r.s.size = t.size /\ r.s.in = t.in
        /\ r.s.pos = t.pos + n /\ r.s.limited = t.limited /\ r.s.stack = w.s.stack
        /\ r.s.remaining = w.s.remaining
    BY <1>1, <1>2, <2>p, <2>1, ZenonT(80) DEF Streams
  <2>3. Charged(t, r.s)
    <3>1. r.s.pos - t.pos = n
      BY <1>2, <2>2
    <3> QED
      BY <1>1, <1>6, <2>2, <3>1 DEF Charged
  <2>4. r.val \in Seq(0..255) /\ Len(r.val) = n
    <3>q. PICK q \in Nat : q = t.pos
      BY <1>2
    <3>a. p = q + n
      BY <2>p, <3>q
    <3>b. p <= Len(t.in)
      BY <1>2, <1>6, <3>a, <3>q
    <3>c. v = SubSeq(t.in, q + 1, p)
      BY <2>p, <2>v, <3>q
    <3>0. p = q + n /\ p <= Len(t.in) /\ v = SubSeq(t.in, q + 1, p)
      BY <3>a, <3>b, <3>c
    <3>1. ASSUME NEW k \in (q + 1)..p PROVE t.in[k] \in 0..255
      <4>1. k \in 1..Len(t.in)
        BY <1>2, <3>b
      <4> QED
        BY <1>2, <4>1, ElementOfSeq
    <3>2. p \in Int /\ q + 1 \in Int
      BY <3>0
    <3>3. (IF q + 1 <= p THEN p - (q + 1) + 1 ELSE 0) = n
      BY <3>0
    <3>4. v \in Seq(0..255) /\ Len(v) = n
      BY <3>0, <3>1, <3>2, <3>3, SubSeqProperties
    <3> QED
      BY <2>1, <3>4
  <2>5. Good(r.s)
    BY <1>2, <1>6, <2>2 DEF Good, Fits
  <2>6. r.s.limited => r.s.pos + r.s.remaining <= t.pos + t.remaining
    BY <1>1, <1>2, <1>6, <2>2 DEF Good, Streams
  <2>7. Len(r.s.stack) = Len(t.stack) /\ r.s.pos >= t.pos
    BY <1>1, <1>2, <2>2
  <2>8. Reads(t, r.s, r.err)
    BY <2>2, <2>3, <2>5, <2>6, <2>7 DEF Reads
  <2> QED
    BY <2>1, <2>2, <2>4, <2>8
<1> QED
  BY <1>1, <1>2, <1>4, <1>5, <1>6
-----------------------------------------------------------------------------
(* Chains of reads.                                                        *)

(* A stream that differs in what it knows of the value ahead only.         *)
LEMMA Same ==
  ASSUME Uint64Sizes, NEW t, Good(t), NEW u, Good(u), NEW e,
         u.in = t.in, u.pos = t.pos, u.limited = t.limited, u.remaining = t.remaining,
         u.stack = t.stack
  PROVE  Reads(t, u, e)
<1>1. ASSUME NEW i \in 1..Len(t.stack) PROVE t.stack[i] = (t.stack[i] - (u.pos - t.pos)) % Word
  <2>3. t.stack \in Seq(0..(Word - 1)) /\ t.pos \in Nat
    BY DEF Good, Streams
  <2>1. t.stack[i] \in 0..(Word - 1)
    BY <2>3, ElementOfSeq
  <2>2. t.stack[i] - (u.pos - t.pos) = t.stack[i]
    BY <2>1, <2>3, WordAssumption
  <2> QED
    BY <2>1, <2>2, ModSmall
<1> QED
  BY <1>1 DEF Reads, Charged, Good, Streams

(* An error that is found after the bytes were read.                       *)
LEMMA Refused ==
  ASSUME NEW t, NEW u, NEW d, NEW e, Reads(t, u, d), d \notin Torn
  PROVE  Reads(t, u, e)
BY DEF Reads

LEMMA Chain ==
  ASSUME Uint64Sizes, NEW t, Good(t), NEW u, NEW d, Reads(t, u, d), d \notin Torn,
         NEW v, NEW e, Reads(u, v, e)
  PROVE  Reads(t, v, e)
<1>1. /\ t \in Streams /\ u \in Streams /\ v \in Streams
      /\ Len(t.stack) \in Nat /\ t.pos \in Nat /\ u.pos \in Nat /\ v.pos \in Nat
      /\ t.remaining \in Nat /\ u.remaining \in Nat /\ v.remaining \in Nat
  BY DEF Reads, Good, Streams
<1>2. ASSUME e \notin Torn, NEW i \in 1..Len(t.stack)
      PROVE  v.stack[i] = IF i = Len(t.stack) THEN (t.stack[i] - (v.pos - t.pos)) % Word ELSE t.stack[i]
  <2>1. /\ u.stack[i] = IF i = Len(t.stack) THEN (t.stack[i] - (u.pos - t.pos)) % Word ELSE t.stack[i]
        /\ v.stack[i] = IF i = Len(t.stack) THEN (u.stack[i] - (v.pos - u.pos)) % Word ELSE u.stack[i]
    BY <1>2 DEF Reads, Charged
  <2>2. t.stack[i] \in 0..(Word - 1)
    BY <1>1, <1>2, ElementOfSeq DEF Streams
  <2>6. PICK x \in Nat, p \in Nat, q \in Nat, z \in Nat :
          x = t.stack[i] /\ p = t.pos /\ q = u.pos /\ z = v.pos
    BY <1>1, <2>2, WordAssumption
  <2>3. PICK a \in Int, b \in Int : a = x - (q - p) /\ b = z - q
    OBVIOUS
  <2>4. a - b = x - (z - p)
    BY <2>3
  <2>5. ((a % Word) - b) % Word = (a - b) % Word
    BY Mod
  <2> QED
    BY <2>1, <2>3, <2>4, <2>5, <2>6
<1>3. e \notin Torn => Charged(t, v)
  BY <1>2 DEF Charged
<1>4. v.limited => v.pos + v.remaining <= t.pos + t.remaining
  BY <1>1 DEF Reads
<1>5. v.pos >= t.pos
  BY <1>1 DEF Reads
<1> QED
  BY <1>3, <1>4, <1>5 DEF Reads

-----------------------------------------------------------------------------
(* Headers.                                                                *)

LEMMA RearmSame ==
  ASSUME Uint64Sizes, NEW t, Good(t), NEW e
  PROVE  Reads(t, Rearm(t), e)
<1>1. /\ Rearm(t) \in Streams /\ Rearm(t).kind = None /\ Rearm(t).stack = t.stack
      /\ Rearm(t).in = t.in /\ Rearm(t).pos = t.pos /\ Rearm(t).limited = t.limited
      /\ Rearm(t).size = t.size /\ Rearm(t).remaining = t.remaining
  BY DEF Good, Streams, Rearm
<1>2. Good(Rearm(t))
  BY <1>1 DEF Good, Fits
<1> QED
  BY <1>1, <1>2, Same

LEMMA ReadUint ==
  ASSUME Uint64Sizes, NEW t, Good(t), NEW n \in Nat, NEW r, r = readUint(t, n)
  PROVE  /\ Reads(t, r.s, r.err)
         /\ r.s.kind = None
         /\ r.err \in {Nil, "ErrElemTooLarge", "ErrValueTooLarge", "ErrUnexpectedEOF", "ErrCanonSize"}
         /\ r.err = Nil => r.val \in 0..(Word - 1)
<1>1. CASE n = 0
  <2>1. r.s = Rearm(t) /\ r.err = Nil /\ r.val = 0
    BY <1>1 DEF readUint, Done
  <2>2. Rearm(t).kind = None
    BY DEF Rearm, Good, Streams
  <2>3. 0 \in 0..(Word - 1)
    BY WordAssumption
  <2> QED
    BY <2>1, <2>2, <2>3, RearmSame
<1>2. CASE n # 0
  <2>1. PICK f : f = readFull(t, n)
    OBVIOUS
  <2>2. /\ Reads(t, f.s, f.err) /\ f.s.kind = None
        /\ f.err \in {Nil, "ErrElemTooLarge", "ErrValueTooLarge", "ErrUnexpectedEOF"}
        /\ f.err = Nil => f.val \in Seq(0..255)
    BY <2>1, ReadFull
  <2>3. r = IF f.err # Nil THEN Fail(f.s, f.err)
            ELSE IF n > 1 /\ f.val[1] = 0 THEN Fail(f.s, "ErrCanonSize")
            ELSE Done(f.s, BigEndian(f.val))
    BY <1>2, <2>1 DEF readUint, Then
  <2>4. CASE f.err # Nil
    BY <2>2, <2>3, <2>4 DEF Fail
  <2>5. CASE f.err = Nil /\ n > 1 /\ f.val[1] = 0
    <3>1. r.s = f.s /\ r.err = "ErrCanonSize"
      BY <2>3, <2>5 DEF Fail
    <3>2. Reads(t, f.s, "ErrCanonSize")
      BY <2>2, <2>5, Refused DEF Torn, Nil
    <3> QED
      BY <2>2, <3>1, <3>2 DEF Nil
  <2>6. CASE f.err = Nil /\ ~(n > 1 /\ f.val[1] = 0)
    <3>1. r.s = f.s /\ r.err = Nil /\ r.val = BigEndian(f.val)
      BY <2>3, <2>6 DEF Done
    <3> QED
      BY <2>2, <2>6, <3>1, BigEndianFits
  <2> QED
    BY <2>4, <2>5, <2>6
<1> QED
  BY <1>1, <1>2

Kinds == {"byte", "string", "list"}

(* The result r of reading a header from t.                                *)
HeaderRead(t, r) ==
  /\ Reads(t, r.s, r.err) /\ r.s.kind = None
  /\ r.err \in KindErrors
  /\ r.val.kind \in Kinds /\ r.val.size \in 0..(Word - 1)

LEMMA SmallHeader ==
  ASSUME Uint64Sizes, NEW t, Good(t), NEW u, Reads(t, u, Nil), u.kind = None,
         NEW kind \in Kinds, NEW n \in 0..63
  PROVE  HeaderRead(t, Header(u, kind, n))
<1>1. PICK r : r = Header(u, kind, n)
  OBVIOUS
<1>2. r.s = u /\ r.err = Nil /\ r.val = [kind |-> kind, size |-> n]
  BY <1>1 DEF Header, Done
<1>3. n \in 0..(Word - 1)
  BY SMT DEF Uint64Sizes
<1> QED
  BY <1>1, <1>2, <1>3 DEF HeaderRead, KindErrors

LEMMA LongHeaders ==
  ASSUME Uint64Sizes, NEW t, Good(t), NEW n \in Nat, NEW kind \in Kinds
  PROVE  HeaderRead(t, LongHeader(readUint(t, n), kind))
<1>1. PICK u, r : u = readUint(t, n) /\ r = LongHeader(u, kind)
  OBVIOUS
<1>2. /\ Reads(t, u.s, u.err) /\ u.s.kind = None
      /\ u.err \in {Nil, "ErrElemTooLarge", "ErrValueTooLarge", "ErrUnexpectedEOF", "ErrCanonSize"}
      /\ u.err = Nil => u.val \in 0..(Word - 1)
  BY <1>1, ReadUint
<1>3. /\ r.s = u.s
      /\ r.val = [kind |-> kind, size |-> IF u.err = Nil THEN u.val ELSE 0]
      /\ r.err = IF u.err = Nil /\ u.val < 56 THEN "ErrCanonSize" ELSE u.err
  BY <1>1 DEF LongHeader
<1>4. r.val.kind \in Kinds /\ r.val.size \in 0..(Word - 1)
  BY <1>2, <1>3, WordAssumption
<1>5. Reads(t, r.s, r.err)
  <2>1. CASE r.err = u.err
    BY <1>2, <1>3, <2>1
  <2>2. CASE r.err # u.err
    <3>1. u.err = Nil /\ r.err = "ErrCanonSize"
      BY <1>3, <2>2
    <3> QED
      BY <1>2, <1>3, <3>1, Refused DEF Torn, Nil
  <2> QED
    BY <2>1, <2>2
<1> QED
  BY <1>1, <1>2, <1>3, <1>4, <1>5 DEF HeaderRead, KindErrors

LEMMA TagHeaderReads ==
  ASSUME Uint64Sizes, NEW t, Good(t), t.kind = None, NEW b \in 0..255
  PROVE  HeaderRead(t, TagHeader(t, b))
<1>1. Reads(t, t, Nil)
  BY Same
<1>2. CASE b < 128
  <2>1. PICK u : u = [t EXCEPT !.byteval = b]
    OBVIOUS
  <2>2. /\ u \in Streams /\ u.in = t.in /\ u.pos = t.pos /\ u.limited = t.limited
        /\ u.remaining = t.remaining /\ u.stack = t.stack /\ u.kind = None /\ u.size = t.size
    <3>1. b \in 0..127
      BY <1>2
    <3> QED
      BY <2>1, <3>1 DEF Good, Streams
  <2>3. Good(u)
    BY <2>2 DEF Good, Fits
  <2>4. Reads(t, u, Nil)
    BY <2>2, <2>3, Same
  <2>5. TagHeader(t, b) = Header(u, "byte", 0)
    BY <1>2, <2>1 DEF TagHeader
  <2>6. HeaderRead(t, Header(u, "byte", 0))
    BY <2>2, <2>4, SmallHeader DEF Kinds
  <2> QED
    BY <2>5, <2>6
<1>3. CASE b >= 128 /\ b < 184
  <2>1. TagHeader(t, b) = Header(t, "string", b - 128) /\ b - 128 \in 0..63
    BY <1>3 DEF TagHeader
  <2> QED
    BY <1>1, <2>1, SmallHeader DEF Kinds
<1>4. CASE b >= 184 /\ b < 192
  <2>1. TagHeader(t, b) = LongHeader(readUint(t, b - 183), "string") /\ b - 183 \in Nat
    BY <1>4 DEF TagHeader
  <2> QED
    BY <2>1, LongHeaders DEF Kinds
<1>5. CASE b >= 192 /\ b < 248
  <2>1. TagHeader(t, b) = Header(t, "list", b - 192) /\ b - 192 \in 0..63
    BY <1>5 DEF TagHeader
  <2> QED
    BY <1>1, <2>1, SmallHeader DEF Kinds
<1>6. CASE b >= 248
  <2>1. TagHeader(t, b) = LongHeader(readUint(t, b - 247), "list") /\ b - 247 \in Nat
    BY <1>6 DEF TagHeader
  <2> QED
    BY <2>1, LongHeaders DEF Kinds
<1> QED
  BY <1>2, <1>3, <1>4, <1>5, <1>6

LEMMA ReadKind ==
  ASSUME Uint64Sizes, NEW t, Good(t)
  PROVE  HeaderRead(t, readKind(t))
<1>1. PICK f : f = readFull(t, 1)
  OBVIOUS
<1>2. /\ Reads(t, f.s, f.err) /\ f.s.kind = None
      /\ f.err \in {Nil, "ErrElemTooLarge", "ErrValueTooLarge", "ErrUnexpectedEOF"}
      /\ f.err = Nil => f.val \in Seq(0..255) /\ Len(f.val) = 1
  <2>1. 1 \in Nat
    OBVIOUS
  <2> QED
    BY <1>1, <2>1, ReadFull, ZenonT(80)
<1>3. CASE f.err # Nil
  <2>1. PICK r : r = NoHeader(f)
    OBVIOUS
  <2>2. /\ r.s = f.s /\ r.val = [kind |-> "byte", size |-> 0]
        /\ r.err = IF ~inList(f.s) /\ f.err \in {"ErrUnexpectedEOF", "ErrValueTooLarge"}
                   THEN "EOF" ELSE f.err
    BY <2>1 DEF NoHeader
  <2>3. readKind(t) = r
    BY <1>1, <1>3, <2>1 DEF readKind, HeaderFrom
  <2>4. r.val.kind \in Kinds /\ r.val.size \in 0..(Word - 1)
    BY <2>2, WordAssumption DEF Kinds
  <2>5. Reads(t, r.s, r.err) /\ r.err \in KindErrors
    BY <1>2, <2>2 DEF Reads, Torn, KindErrors
  <2> QED
    BY <1>2, <2>2, <2>3, <2>4, <2>5 DEF HeaderRead
<1>4. CASE f.err = Nil
  <2>1. PICK u, r : u = [f.s EXCEPT !.byteval = 0] /\ r = TagHeader(u, f.val[1])
    OBVIOUS
  <2>2. readKind(t) = r
    BY <1>1, <1>4, <2>1 DEF readKind, HeaderFrom
  <2>3. f.val[1] \in 0..255
    <3>1. Len(f.val) = 1
      BY <1>2, <1>4
    <3>2. 1 \in 1..1
      OBVIOUS
    <3> QED
      BY <1>2, <1>4, <3>1, <3>2, ElementOfSeq
  <2>4. Good(f.s) /\ f.s \in Streams
    BY <1>2 DEF Reads, Good
  <2>5. /\ u \in Streams /\ u.in = f.s.in /\ u.pos = f.s.pos /\ u.limited = f.s.limited
        /\ u.remaining = f.s.remaining /\ u.stack = f.s.stack /\ u.kind = None /\ u.size = f.s.size
    BY <1>2, <2>1, <2>4 DEF Streams
  <2>6. Good(u)
    BY <2>4, <2>5 DEF Good, Fits
  <2>7. HeaderRead(u, r)
    BY <2>1, <2>3, <2>5, <2>6, TagHeaderReads
  <2>8. Reads(f.s, u, Nil)
    BY <2>4, <2>5, <2>6, Same
  <2>9. Nil \notin Torn
    BY DEF Nil, Torn
  <2>10. Reads(t, u, Nil)
    BY <1>2, <1>4, <2>8, <2>9, Chain
  <2>11. Reads(t, r.s, r.err)
    BY <2>7, <2>9, <2>10, Chain DEF HeaderRead
  <2> QED
    BY <2>2, <2>7, <2>11 DEF HeaderRead
<1> QED
  BY <1>3, <1>4

(* Kind: what is announced without an error fits.                          *)
LEMMA KindReads ==
  ASSUME Uint64Sizes, NEW t, Good(t), NEW k, k = Kind(t)
  PROVE  /\ Reads(t, k.s, k.err)
         /\ k.err = Nil => k.s.kind \in Kinds /\ k.s.kinderr = Nil
<1>1. CASE t.kind # None
  <2>1. k.s = t /\ k.err = t.kinderr
    BY <1>1 DEF Kind
  <2> QED
    BY <1>1, <2>1, Same DEF Good, Streams, Kinds
<1>2. CASE t.kind = None /\ inList(t) /\ listLimit(t) = 0
  <2>1. k.s = t /\ k.err = "EOL"
    BY <1>2 DEF Kind, Fail
  <2> QED
    BY <2>1, Same DEF Nil
<1>3. CASE t.kind = None /\ ~(inList(t) /\ listLimit(t) = 0)
  <2>1. PICK r, h, e : /\ r = readKind(t) /\ h = r.val
                       /\ e = IF r.err # Nil THEN r.err
                              ELSE IF inList(t) /\ r.val.size > listLimit(t) THEN "ErrElemTooLarge"
                              ELSE IF r.s.limited /\ r.val.size > r.s.remaining THEN "ErrValueTooLarge"
                              ELSE Nil
    OBVIOUS
  <2>2. k = Announced(r.s, h, e)
    BY <1>3, <2>1 DEF Kind, Announce
  <2>3. k.s = [r.s EXCEPT !.kind = h.kind, !.size = h.size, !.kinderr = e] /\ k.err = e
    BY <2>2 DEF Announced
  <2>4. /\ Reads(t, r.s, r.err) /\ r.s.kind = None /\ r.err \in KindErrors
        /\ h.kind \in Kinds /\ h.size \in 0..(Word - 1)
    BY <2>1, ReadKind DEF HeaderRead
  <2>5. /\ e \in KindErrors
        /\ r.err = e \/ r.err = Nil
        /\ e = Nil /\ r.s.limited => ~(h.size > r.s.remaining)
    BY <2>1, <2>4 DEF KindErrors, Nil
  <2>6. PICK u : u = k.s
    OBVIOUS
  <2>7. Good(r.s) /\ r.s \in Streams /\ r.s.pos <= Len(r.s.in)
    BY <2>4 DEF Reads, Good
  <2>8. /\ u \in Streams /\ u.in = r.s.in /\ u.pos = r.s.pos /\ u.limited = r.s.limited
        /\ u.remaining = r.s.remaining /\ u.stack = r.s.stack
        /\ u.kind = h.kind /\ u.size = h.size /\ u.kinderr = e
    <3>2. h.size \in Nat /\ h.kind \in {None, "byte", "string", "list"}
      BY <2>4, WordAssumption DEF Kinds
    <3> QED
      BY <2>3, <2>5, <2>6, <2>7, <3>2, ZenonT(80) DEF Streams
  <2>9. Good(u)
    <3>1. u.size < Word
      BY <2>4, <2>8, WordAssumption
    <3>2. u.limited /\ u.kinderr = Nil => u.size <= u.remaining
      BY <2>4, <2>5, <2>7, <2>8 DEF Streams
    <3> QED
      BY <2>7, <2>8, <3>1, <3>2 DEF Good, Fits
  <2>10. Reads(r.s, u, Nil) /\ Reads(r.s, u, e)
    BY <2>7, <2>8, <2>9, Same
  <2>11. Reads(t, u, e)
    <3>1. CASE r.err \in Torn
      <4>1. e = r.err
        BY <2>5, <3>1 DEF Torn, Nil
      <4> QED
        BY <2>4, <2>7, <2>8, <2>9, <3>1, <4>1 DEF Reads
    <3>2. CASE r.err \notin Torn
      BY <2>4, <2>10, <3>2, Chain
    <3> QED
      BY <3>1, <3>2
  <2> QED
    BY <2>3, <2>4, <2>6, <2>8, <2>11
<1> QED
  BY <1>1, <1>2, <1>3

-----------------------------------------------------------------------------
(* The methods that read a value.                                          *)

LEMMA NilIsWhole == Nil \notin Torn
BY DEF Nil, Torn

(* What a method does once Kind has announced a value.                     *)
LEMMA AfterKind ==
  ASSUME Uint64Sizes, NEW t, Good(t), NEW k, k = Kind(t), k.err = Nil
  PROVE  /\ Good(k.s) /\ Reads(t, k.s, Nil)
         /\ k.s.size \in Nat
         /\ \A e : Reads(t, k.s, e) /\ Reads(t, Rearm(k.s), e)
         /\ \A u, e : Reads(k.s, u, e) => Reads(t, u, e)
<1>1. Reads(t, k.s, Nil) /\ Good(k.s)
  BY KindReads DEF Reads
<1>2. \A e : Reads(t, k.s, e)
  BY <1>1, NilIsWhole, Refused
<1>3. ASSUME NEW u, NEW e, Reads(k.s, u, e) PROVE Reads(t, u, e)
  BY <1>1, <1>3, NilIsWhole, Chain
<1>4. \A e : Reads(t, Rearm(k.s), e)
  BY <1>1, <1>3, RearmSame
<1> QED
  BY <1>1, <1>2, <1>3, <1>4 DEF Good, Streams

(* A read whose bytes may be refused.                                      *)
LEMMA ReadValue ==
  ASSUME Uint64Sizes, NEW t, Good(t), NEW f, f = readFull(t, t.size)
  PROVE  /\ Reads(t, f.s, f.err)
         /\ f.err = Nil => \A e : Reads(t, f.s, e)
<1>1. t.size \in Nat
  BY DEF Good, Streams
<1>2. Reads(t, f.s, f.err)
  BY <1>1, ReadFull
<1> QED
  BY <1>2, NilIsWhole, Refused

LEMMA BytesReads ==
  ASSUME Uint64Sizes, NEW t, Good(t), NEW r, r = Bytes(t)
  PROVE  Reads(t, r.s, r.err)
<1>1. PICK k, f : k = Kind(t) /\ f = readFull(k.s, k.s.size)
  OBVIOUS
<1>2. r = IF k.err # Nil THEN Fail(k.s, k.err)
          ELSE IF k.s.kind = "byte" THEN Done(Rearm(k.s), <<k.s.byteval>>)
          ELSE IF k.s.kind = "list" THEN Fail(k.s, "ErrExpectedString")
          ELSE IF f.err # Nil THEN Fail(f.s, f.err)
          ELSE IF k.s.size = 1 /\ f.val[1] < 128 THEN Fail(f.s, "ErrCanonSize")
          ELSE Done(f.s, f.val)
  BY <1>1 DEF Bytes, Then
<1>3. CASE k.err # Nil
  BY <1>1, <1>2, <1>3, KindReads DEF Fail
<1>4. CASE k.err = Nil
  <2>1. Good(k.s) /\ \A e : Reads(t, k.s, e) /\ Reads(t, Rearm(k.s), e)
    BY <1>1, <1>4, AfterKind
  <2>2. Reads(t, f.s, f.err) /\ (f.err = Nil => \A e : Reads(t, f.s, e))
    BY <1>1, <1>4, <2>1, ReadValue, AfterKind
  <2> QED
    BY <1>2, <1>4, <2>1, <2>2 DEF Fail, Done
<1> QED
  BY <1>3, <1>4

LEMMA ReadBytesReads ==
  ASSUME Uint64Sizes, NEW t, Good(t), NEW n, NEW r, r = ReadBytes(t, n)
  PROVE  Reads(t, r.s, r.err)
<1>1. PICK k : k = Kind(t)
  OBVIOUS
<1>2. r = IF k.err # Nil THEN Fail(k.s, k.err)
          ELSE IF k.s.kind # "list" /\ n # (IF k.s.kind = "byte" THEN 1 ELSE k.s.size)
          THEN Fail(k.s, "wrong size") ELSE Bytes(k.s)
  BY <1>1 DEF ReadBytes, Then
<1>3. CASE k.err # Nil
  BY <1>1, <1>2, <1>3, KindReads DEF Fail
<1>4. CASE k.err = Nil
  <2>1. Good(k.s) /\ \A e : Reads(t, k.s, e)
    BY <1>1, <1>4, AfterKind
  <2>2. Reads(t, Bytes(k.s).s, Bytes(k.s).err)
    BY <1>1, <1>4, <2>1, BytesReads, AfterKind
  <2>3. r = Bytes(k.s) \/ \E e : r = Fail(k.s, e)
    BY <1>2, <1>4
  <2> QED
    BY <2>1, <2>2, <2>3 DEF Fail
<1> QED
  BY <1>3, <1>4

LEMMA RawReads ==
  ASSUME Uint64Sizes, NEW t, Good(t), NEW r, r = Raw(t)
  PROVE  Reads(t, r.s, r.err)
<1>1. PICK k, f : k = Kind(t) /\ f = readFull(k.s, k.s.size)
  OBVIOUS
<1>2. PICK v : r = IF k.err # Nil THEN Fail(k.s, k.err)
                   ELSE IF k.s.kind = "byte" THEN Done(Rearm(k.s), <<k.s.byteval>>)
                   ELSE IF f.err # Nil THEN Fail(f.s, f.err)
                   ELSE Done(f.s, v)
  BY <1>1 DEF Raw, Then
<1>3. CASE k.err # Nil
  BY <1>1, <1>2, <1>3, KindReads DEF Fail
<1>4. CASE k.err = Nil
  <2>1. Good(k.s) /\ \A e : Reads(t, Rearm(k.s), e)
    BY <1>1, <1>4, AfterKind
  <2>2. Reads(t, f.s, f.err) /\ (f.err = Nil => \A e : Reads(t, f.s, e))
    BY <1>1, <1>4, <2>1, ReadValue, AfterKind
  <2> QED
    BY <1>2, <1>4, <2>1, <2>2 DEF Fail, Done
<1> QED
  BY <1>3, <1>4

LEMMA UintReads ==
  ASSUME Uint64Sizes, NEW t, Good(t), NEW maxbits, NEW r, r = uint(t, maxbits)
  PROVE  Reads(t, r.s, r.err)
<1>1. PICK k, f : k = Kind(t) /\ f = readUint(k.s, k.s.size)
  OBVIOUS
<1>2. r = IF k.err # Nil THEN Fail(k.s, k.err)
          ELSE IF k.s.kind = "byte"
          THEN IF k.s.byteval = 0 THEN Fail(k.s, "ErrCanonInt") ELSE Done(Rearm(k.s), k.s.byteval)
          ELSE IF k.s.kind = "list" THEN Fail(k.s, "ErrExpectedString")
          ELSE IF k.s.size > maxbits \div 8 THEN Fail(k.s, "errUintOverflow")
          ELSE Integer(k.s, f)
  BY <1>1 DEF uint, Then
<1>3. CASE k.err # Nil
  BY <1>1, <1>2, <1>3, KindReads DEF Fail
<1>4. CASE k.err = Nil
  <2>1. /\ Good(k.s) /\ k.s.size \in Nat
        /\ \A e : Reads(t, k.s, e) /\ Reads(t, Rearm(k.s), e)
    BY <1>1, <1>4, AfterKind
  <2>2. Reads(k.s, f.s, f.err)
    BY <1>1, <2>1, ReadUint
  <2>3. f.err = "ErrCanonSize" \/ f.err = Nil => \A e : Reads(k.s, f.s, e)
    <3>1. "ErrCanonSize" \notin Torn
      BY DEF Torn
    <3> QED
      BY <2>2, <3>1, NilIsWhole, Refused
  <2>4. \A u, e : Reads(k.s, u, e) => Reads(t, u, e)
    BY <1>1, <1>4, AfterKind
  <2>5. PICK i : i = Integer(k.s, f)
    OBVIOUS
  <2>6. /\ i.s = f.s
        /\ i.err = f.err \/ f.err \in {"ErrCanonSize", Nil}
    BY <2>5 DEF Integer, Fail
  <2>7. Reads(t, i.s, i.err)
    BY <2>2, <2>3, <2>4, <2>6
  <2> QED
    BY <1>2, <1>4, <2>1, <2>5, <2>7 DEF Fail, Done
<1> QED
  BY <1>3, <1>4

LEMMA BoolReads ==
  ASSUME Uint64Sizes, NEW t, Good(t), NEW r, r = Bool(t)
  PROVE  Reads(t, r.s, r.err)
<1>1. PICK f : f = uint(t, 8)
  OBVIOUS
<1>2. r = IF f.err # Nil THEN Fail(f.s, f.err)
          ELSE IF f.val \in {0, 1} THEN Done(f.s, f.val) ELSE Fail(f.s, "invalid boolean")
  BY <1>1 DEF Bool, Then
<1>3. Reads(t, f.s, f.err) /\ (f.err = Nil => \A e : Reads(t, f.s, e))
  BY <1>1, UintReads, NilIsWhole, Refused
<1>4. CASE f.err # Nil
  BY <1>2, <1>3, <1>4 DEF Fail
<1>5. CASE f.err = Nil
  <2>1. (\E v : r = Done(f.s, v)) \/ r = Fail(f.s, "invalid boolean")
    BY <1>2, <1>5
  <2>3. \A v, e : Done(f.s, v).s = f.s /\ Fail(f.s, e).s = f.s
    BY DEF Done, Fail
  <2>2. r.s = f.s
    BY <2>1, <2>3, Zenon
  <2> QED
    BY <1>3, <1>5, <2>2
<1> QED
  BY <1>4, <1>5

LEMMA BigIntReads ==
  ASSUME Uint64Sizes, NEW t, Good(t), NEW r, r = decodeBigInt(t)
  PROVE  Reads(t, r.s, r.err)
<1>1. PICK k, f : k = Kind(t) /\ f = Bytes(k.s)
  OBVIOUS
<1>2. r = IF k.err # Nil THEN Fail(k.s, k.err)
          ELSE IF k.s.kind = "string" /\ k.s.size = 0 THEN Done(Rearm(k.s), <<>>)
          ELSE IF f.err # Nil THEN Fail(f.s, f.err)
          ELSE IF f.val # <<>> /\ f.val[1] = 0 THEN Fail(f.s, "ErrCanonInt")
          ELSE Done(f.s, f.val)
  BY <1>1 DEF decodeBigInt, Then
<1>3. CASE k.err # Nil
  BY <1>1, <1>2, <1>3, KindReads DEF Fail
<1>4. CASE k.err = Nil
  <2>1. Good(k.s) /\ \A e : Reads(t, Rearm(k.s), e)
    BY <1>1, <1>4, AfterKind
  <2>2. Reads(t, f.s, f.err)
    BY <1>1, <1>4, <2>1, BytesReads, AfterKind
  <2>3. f.err = Nil => \A e : Reads(t, f.s, e)
    BY <2>2, NilIsWhole, Refused
  <2> QED
    BY <1>2, <1>4, <2>1, <2>2, <2>3 DEF Fail, Done
<1> QED
  BY <1>3, <1>4

-----------------------------------------------------------------------------
(* Lists.                                                                  *)

(* The stream k enters the list it has ahead and becomes u.                *)
Enters(k, u, n) ==
  /\ Good(u) /\ n \in 0..(Word - 1)
  /\ u.in = k.in /\ u.pos = k.pos /\ u.limited = k.limited /\ u.remaining = k.remaining
  /\ Len(u.stack) = Len(k.stack) + 1
  /\ u.stack[Len(k.stack) + 1] = n
  /\ \A i \in 1..Len(k.stack) :
       u.stack[i] = IF i = Len(k.stack) THEN (k.stack[i] - n) % Word ELSE k.stack[i]

LEMMA ListReads ==
  ASSUME Uint64Sizes, NEW t, Good(t), NEW r, r = List(t)
  PROVE  IF r.err = Nil THEN \E k : Reads(t, k, Nil) /\ Enters(k, r.s, r.val)
                        ELSE Reads(t, r.s, r.err)
<1>1. PICK k : k = Kind(t)
  OBVIOUS
<1>2. r = IF k.err # Nil THEN Fail(k.s, k.err)
          ELSE IF k.s.kind # "list" THEN Fail(k.s, "ErrExpectedList")
          ELSE Enter(IF inList(k.s) THEN Charge(k.s, k.s.size) ELSE k.s, k.s.size)
  BY <1>1 DEF List, Then
<1>3. CASE k.err # Nil
  BY <1>1, <1>2, <1>3, KindReads DEF Fail
<1>4. CASE k.err = Nil /\ k.s.kind # "list"
  <2>1. r.s = k.s /\ r.err = "ErrExpectedList"
    BY <1>2, <1>4 DEF Fail
  <2> QED
    BY <1>1, <1>4, <2>1, AfterKind DEF Nil
<1>5. CASE k.err = Nil /\ k.s.kind = "list"
  <2>1. PICK x, n, c : x = k.s /\ n = k.s.size /\ c = IF inList(x) THEN Charge(x, n) ELSE x
    OBVIOUS
  <2>2. r = Enter(c, n)
    BY <1>2, <1>5, <2>1
  <2>3. /\ r.s = [c EXCEPT !.stack = Append(c.stack, n), !.kind = None, !.size = 0]
        /\ r.err = Nil /\ r.val = n
    BY <2>2 DEF Enter, Done
  <2>4. Good(x) /\ Reads(t, x, Nil) /\ x \in Streams /\ n \in 0..(Word - 1)
    <3>1. Good(x) /\ Reads(t, x, Nil) /\ n \in Nat
      BY <1>1, <1>5, <2>1, AfterKind
    <3>2. x \in Streams /\ n < Word
      BY <2>1, <3>1 DEF Good
    <3> QED
      BY <3>1, <3>2, WordAssumption
  <2>5. /\ c \in Streams /\ Len(c.stack) = Len(x.stack)
        /\ c.in = x.in /\ c.pos = x.pos /\ c.limited = x.limited /\ c.remaining = x.remaining
        /\ \A i \in 1..Len(x.stack) :
             c.stack[i] = IF i = Len(x.stack) THEN (x.stack[i] - n) % Word ELSE x.stack[i]
    <3>1. CASE inList(x)
      <4>1. c = Charge(x, n) /\ n \in Nat
        BY <2>1, <2>4, <3>1
      <4>2. c = [x EXCEPT !.stack = c.stack]
        BY <2>4, <4>1 DEF Charge, Streams
      <4>3. c \in Streams /\ Len(c.stack) = Len(x.stack)
            /\ \A i \in 1..Len(x.stack) :
                 c.stack[i] = IF i = Len(x.stack) THEN (x.stack[i] - n) % Word ELSE x.stack[i]
        BY <2>4, <3>1, <4>1, ChargeType
      <4> QED
        BY <2>4, <4>2, <4>3 DEF Streams
    <3>2. CASE ~inList(x)
      <4>1. Len(x.stack) = 0 /\ c = x
        BY <2>1, <2>4, <3>2 DEF inList, Streams
      <4> QED
        BY <2>4, <4>1
    <3> QED
      BY <3>1, <3>2
  <2>6. PICK st : st = Append(c.stack, n)
    OBVIOUS
  <2>7. c.stack \in Seq(0..(Word - 1)) /\ Len(c.stack) \in Nat
    BY <2>5 DEF Streams
  <2>8. /\ st \in Seq(0..(Word - 1)) /\ Len(st) = Len(c.stack) + 1
        /\ st[Len(c.stack) + 1] = n
        /\ \A i \in 1..Len(c.stack) : st[i] = c.stack[i]
    BY <2>4, <2>6, <2>7, AppendProperties
  <2>9. PICK u : u = r.s
    OBVIOUS
  <2>13. u = [c EXCEPT !.stack = st, !.kind = None, !.size = 0]
    BY <2>3, <2>6, <2>9
  <2>14. u \in Streams
    BY <2>5, <2>8, <2>13 DEF Streams, None
  <2>10. /\ u \in Streams /\ u.in = c.in /\ u.pos = c.pos /\ u.limited = c.limited
         /\ u.remaining = c.remaining /\ u.stack = st /\ u.kind = None /\ u.size = 0
    BY <2>5, <2>13, <2>14 DEF Streams
  <2>11. Good(u)
    BY <2>4, <2>5, <2>10, WordAssumption DEF Good, Fits
  <2>12. Enters(x, u, n)
    BY <2>4, <2>5, <2>8, <2>10, <2>11 DEF Enters
  <2> QED
    BY <2>3, <2>4, <2>9, <2>12
<1> QED
  BY <1>3, <1>4, <1>5

(* ListEnd fails and changes nothing, or it leaves a list of which nothing *)
(* is left.                                                                *)
LEMMA ListEndLeaves ==
  ASSUME Uint64Sizes, NEW t, Good(t), NEW r, r = ListEnd(t)
  PROVE  IF r.err = Nil
         THEN /\ t.stack # <<>> /\ t.stack[Len(t.stack)] = 0
              /\ Good(r.s)
              /\ r.s.in = t.in /\ r.s.pos = t.pos /\ r.s.limited = t.limited
              /\ r.s.remaining = t.remaining
              /\ Len(r.s.stack) = Len(t.stack) - 1
              /\ \A i \in 1..(Len(t.stack) - 1) : r.s.stack[i] = t.stack[i]
         ELSE Reads(t, r.s, r.err)
<1>1. CASE ~inList(t)
  <2>1. r.s = t /\ r.err = "errNotInList"
    BY <1>1 DEF ListEnd, Fail
  <2> QED
    BY <2>1, Same DEF Nil
<1>2. CASE inList(t) /\ listLimit(t) > 0
  <2>1. r.s = t /\ r.err = "errNotAtEOL"
    BY <1>2 DEF ListEnd, Fail
  <2> QED
    BY <2>1, Same DEF Nil
<1>3. CASE inList(t) /\ ~(listLimit(t) > 0)
  <2>1. PICK n : n = Len(t.stack)
    OBVIOUS
  <2>2. t.stack \in Seq(0..(Word - 1)) /\ n \in Nat /\ n \in 1..n /\ t \in Streams
    BY <1>3, <2>1 DEF Good, Streams, inList
  <2>3. t.stack[n] = 0
    <3>1. t.stack[n] \in 0..(Word - 1)
      BY <2>1, <2>2, ElementOfSeq
    <3> QED
      BY <1>3, <2>1, <3>1 DEF listLimit
  <2>4. PICK st : st = SubSeq(t.stack, 1, n - 1)
    OBVIOUS
  <2>5. /\ r.s = [t EXCEPT !.stack = st, !.kind = None, !.size = 0]
        /\ r.err = Nil
    BY <1>3, <2>1, <2>4 DEF ListEnd, Done
  <2>6. st \in Seq(0..(Word - 1)) /\ Len(st) = n - 1 /\ \A i \in 1..(n - 1) : st[i] = t.stack[i]
    <3>1. ASSUME NEW i \in 1..(n - 1) PROVE t.stack[i] \in 0..(Word - 1)
      <4>1. i \in 1..Len(t.stack)
        BY <2>1, <2>2
      <4> QED
        BY <2>2, <4>1, ElementOfSeq
    <3>2. n - 1 \in Int /\ 1 \in Int
      BY <2>2
    <3>3. /\ st \in Seq(0..(Word - 1))
          /\ Len(st) = IF 1 <= n - 1 THEN n - 1 - 1 + 1 ELSE 0
          /\ \A i \in 1..(n - 1 - 1 + 1) : st[i] = t.stack[1 + i - 1]
      BY <2>4, <3>1, <3>2, SubSeqProperties
    <3> QED
      BY <2>2, <3>3
  <2>7. PICK u : u = r.s
    OBVIOUS
  <2>10. u = [t EXCEPT !.stack = st, !.kind = None, !.size = 0]
    BY <2>5, <2>7
  <2>11. u \in Streams
    BY <2>2, <2>6, <2>10 DEF Streams, None
  <2>8. /\ u \in Streams /\ u.in = t.in /\ u.pos = t.pos /\ u.limited = t.limited
        /\ u.remaining = t.remaining /\ u.stack = st /\ u.kind = None /\ u.size = 0
    BY <2>2, <2>10, <2>11 DEF Streams
  <2>9. Good(u)
    BY <2>8, WordAssumption DEF Good, Fits
  <2> QED
    BY <2>1, <2>2, <2>3, <2>5, <2>6, <2>7, <2>8, <2>9
<1> QED
  BY <1>1, <1>2, <1>3

-----------------------------------------------------------------------------
(* The client.                                                             *)

(* The end of an open list is less than a word ahead: ends are sums, what  *)
(* is left is known modulo the word only.                                  *)
EndsNear == \A i \in DOMAIN ends : ends[i] < s.pos + Word

StreamInv ==
  /\ TypeOK /\ s.size < Word /\ s.in \in Inputs /\ quota \in Nat
  /\ BufferFits /\ LimitHonoured
  /\ ListAccounting /\ EndsNear

LEMMA InvGood ==
  ASSUME StreamInv
  PROVE  /\ Good(s) /\ s.stack \in Seq(0..(Word - 1)) /\ Len(s.stack) \in Nat
         /\ s.pos \in Nat /\ s.remaining \in Nat
         /\ ends \in Seq(Nat) /\ Len(ends) = Len(s.stack) /\ DOMAIN ends = 1..Len(ends)
BY DEF StreamInv, TypeOK, BufferFits, Good, Fits, Streams

LEMMA ReadsKeep ==
  ASSUME Uint64Sizes, StreamInv, NEW e, Reads(s, s', e), torn' = (torn \/ e \in Torn),
         UNCHANGED <<ends, quota>>
  PROVE  StreamInv'
<1>1. /\ Good(s) /\ s.stack \in Seq(0..(Word - 1)) /\ Len(s.stack) \in Nat
      /\ s.pos \in Nat /\ s.remaining \in Nat
      /\ ends \in Seq(Nat) /\ Len(ends) = Len(s.stack) /\ DOMAIN ends = 1..Len(ends)
  BY InvGood
<1>2. /\ Good(s') /\ s' \in Streams /\ s'.pos \in Nat /\ s'.remaining \in Nat /\ s'.pos >= s.pos
      /\ Len(s'.stack) = Len(s.stack) /\ s'.limited = s.limited
  BY DEF Reads, Good, Streams
<1>3. TypeOK' /\ s'.size < Word /\ s'.in \in Inputs /\ quota' \in Nat /\ BufferFits'
  BY <1>1, <1>2 DEF StreamInv, TypeOK, Good, BufferFits, Fits, Reads
<1>4. LimitHonoured'
  BY <1>1, <1>2 DEF StreamInv, LimitHonoured, Reads
<1>5. EndsNear'
  <2>1. ASSUME NEW i \in 1..Len(ends) PROVE ends[i] < s'.pos + Word
    <3>1. ends[i] \in Nat /\ ends[i] < s.pos + Word
      BY <1>1, ElementOfSeq DEF StreamInv, EndsNear
    <3> QED
      BY <1>1, <1>2, <3>1, WordAssumption
  <2> QED
    BY <1>1, <2>1 DEF EndsNear
<1>6. ListAccounting'
  <2> SUFFICES ASSUME ~torn', NEW i \in 1..Len(ends)
               PROVE  s'.stack[i] = (ends[i] - From(i)') % Word
    BY <1>1 DEF ListAccounting
  <2>1. ~torn /\ Charged(s, s')
    BY DEF Reads, StreamInv, TypeOK
  <2>2. s.stack[i] = (ends[i] - From(i)) % Word
    BY <1>1, <2>1 DEF StreamInv, ListAccounting
  <2>3. CASE i < Len(ends)
    <3>1. From(i)' = From(i) /\ s'.stack[i] = s.stack[i]
      BY <1>1, <2>1, <2>3 DEF From, Charged
    <3> QED
      BY <2>2, <3>1
  <2>4. CASE i = Len(ends)
    <3>1. From(i) = s.pos /\ From(i)' = s'.pos
      BY <1>1, <2>4 DEF From
    <3>2. s'.stack[i] = (s.stack[i] - (s'.pos - s.pos)) % Word
      BY <1>1, <2>1, <2>4 DEF Charged
    <3>3. ends[i] \in Nat
      BY <1>1, ElementOfSeq
    <3>4. PICK a \in Int, b \in Int : a = ends[i] - s.pos /\ b = s'.pos - s.pos
      BY <1>1, <1>2, <3>3
    <3>5. a - b = ends[i] - s'.pos
      BY <1>1, <1>2, <3>3, <3>4, SMTT(60)
    <3>6. ((a % Word) - b) % Word = (a - b) % Word
      BY Mod
    <3> QED
      BY <2>2, <3>1, <3>2, <3>4, <3>5, <3>6
  <2> QED
    BY <1>1, <2>3, <2>4
<1> QED
  BY <1>3, <1>4, <1>5, <1>6 DEF StreamInv

LEMMA ListKeeps == ASSUME Uint64Sizes, StreamInv, CallList PROVE StreamInv'
<1>1. PICK r : r = List(s)
  OBVIOUS
<1>2. /\ s' = r.s /\ res'.err = r.err /\ res'.val = r.val
      /\ torn' = (torn \/ r.err \in Torn) /\ quota' = quota
      /\ ends' = IF r.err = Nil THEN Append(ends, s'.pos + r.val) ELSE ends
  BY <1>1 DEF CallList, Return, Torn
<1>3. /\ Good(s) /\ s.stack \in Seq(0..(Word - 1)) /\ Len(s.stack) \in Nat
      /\ s.pos \in Nat /\ s.remaining \in Nat
      /\ ends \in Seq(Nat) /\ Len(ends) = Len(s.stack) /\ DOMAIN ends = 1..Len(ends)
  BY InvGood
<1>4. CASE r.err # Nil
  <2>1. Reads(s, s', r.err)
    BY <1>1, <1>2, <1>3, <1>4, ListReads
  <2> QED
    BY <1>2, <1>4, <2>1, ReadsKeep
<1>5. CASE r.err = Nil
  <2>1. PICK k : Reads(s, k, Nil) /\ Enters(k, s', r.val)
    BY <1>1, <1>2, <1>3, <1>5, ListReads
  <2>2. /\ Good(k) /\ k.stack \in Seq(0..(Word - 1)) /\ Len(k.stack) = Len(s.stack)
        /\ k.in = s.in /\ k.pos \in Nat /\ k.pos >= s.pos /\ k.limited = s.limited /\ k.remaining \in Nat
        /\ k.limited => k.pos + k.remaining <= s.pos + s.remaining
    BY <2>1 DEF Reads, Good, Streams
  <2>3. /\ Good(s') /\ s' \in Streams /\ s'.in = k.in /\ s'.pos = k.pos /\ s'.limited = k.limited
        /\ s'.remaining = k.remaining /\ Len(s'.stack) = Len(s.stack) + 1
        /\ r.val \in 0..(Word - 1)
    BY <2>1, <2>2 DEF Enters, Good
  <2>4. PICK n \in Nat, end \in Nat : n = Len(ends) /\ end = k.pos + r.val
    BY <1>3, <2>2, <2>3
  <2>5. /\ ends' = Append(ends, end) /\ ends' \in Seq(Nat) /\ Len(ends') = n + 1
        /\ DOMAIN ends' = 1..(n + 1)
        /\ ends'[n + 1] = end /\ \A i \in 1..n : ends'[i] = ends[i] /\ ends[i] \in Nat
    BY <1>2, <1>3, <1>5, <2>3, <2>4, AppendProperties, ElementOfSeq
  <2>6. TypeOK' /\ s'.size < Word /\ s'.in \in Inputs /\ quota' \in Nat /\ BufferFits'
    BY <1>2, <1>3, <2>2, <2>3, <2>4, <2>5 DEF StreamInv, TypeOK, Good, BufferFits, Fits
  <2>7. LimitHonoured'
    BY <1>2, <1>3, <2>2, <2>3 DEF StreamInv, LimitHonoured
  <2>8. ASSUME NEW i \in 1..(n + 1) PROVE ends'[i] < s'.pos + Word
    <3>1. CASE i = n + 1
      <4>1. PICK q \in Nat, m \in 0..(Word - 1) : q = k.pos /\ m = r.val
        BY <2>2, <2>3
      <4>2. ends'[i] = q + m /\ s'.pos = q
        BY <2>3, <2>4, <2>5, <3>1, <4>1
      <4> QED
        BY <4>1, <4>2, WordAssumption
    <3>2. CASE i \in 1..n
      <4>1. ends[i] < s.pos + Word
        BY <1>3, <2>4, <3>2 DEF StreamInv, EndsNear
      <4>2. PICK x \in Nat, p \in Nat, q \in Nat : x = ends'[i] /\ p = s.pos /\ q = s'.pos
        BY <1>3, <2>2, <2>3, <2>5, <3>2
      <4>3. x < p + Word /\ q >= p
        BY <2>2, <2>3, <2>5, <3>2, <4>1, <4>2
      <4> QED
        BY <4>2, <4>3, WordAssumption
    <3> QED
      BY <2>8, <2>4, <3>1, <3>2
  <2>9. ASSUME ~torn', NEW i \in 1..(n + 1)
        PROVE  s'.stack[i] = (ends'[i] - From(i)') % Word
    <3>1. CASE i = n + 1
      <4>1. s'.stack[i] = r.val
        BY <1>3, <2>1, <2>2, <2>4, <3>1 DEF Enters
      <4>2. From(i)' = k.pos /\ ends'[i] = end
        BY <2>3, <2>5, <3>1 DEF From
      <4>3. end - k.pos = r.val
        BY <2>2, <2>3, <2>4
      <4> QED
        BY <2>3, <4>1, <4>2, <4>3, ModSmall
    <3>2. CASE i \in 1..n
      <4>1. ~torn /\ Charged(s, k)
        BY <1>2, <2>1, <2>9, NilIsWhole DEF Reads, StreamInv, TypeOK
      <4>2. s.stack[i] = (ends[i] - From(i)) % Word
        BY <1>3, <2>4, <3>2, <4>1 DEF StreamInv, ListAccounting
      <4>3. ends'[i] = ends[i] /\ From(i)' = ends'[i + 1]
        BY <2>4, <2>5, <3>2 DEF From
      <4>4. CASE i < n
        <5>1. i + 1 \in 1..n /\ From(i) = ends[i + 1]
          BY <2>4, <3>2, <4>4 DEF From
        <5>2. s'.stack[i] = s.stack[i]
          BY <1>3, <2>1, <2>2, <2>4, <3>2, <4>1, <4>4 DEF Enters, Charged
        <5> QED
          BY <2>5, <4>2, <4>3, <5>1, <5>2
      <4>5. CASE i = n
        <5>1. From(i) = s.pos /\ ends'[i + 1] = end
          BY <2>4, <2>5, <4>5 DEF From
        <5>2. k.stack[i] = (s.stack[i] - (k.pos - s.pos)) % Word
          BY <1>3, <2>4, <3>2, <4>1, <4>5 DEF Charged
        <5>3. s'.stack[i] = (k.stack[i] - r.val) % Word
          BY <1>3, <2>1, <2>2, <2>4, <3>2, <4>5 DEF Enters
        <5>7. PICK x \in Nat, p \in Nat, q \in Nat, c \in Nat :
                x = ends[i] /\ p = s.pos /\ q = k.pos /\ c = r.val
          <6>1. ends[i] \in Nat
            BY <2>5, <3>2
          <6>2. r.val \in Nat
            BY <2>3, WordAssumption
          <6> QED
            BY <1>3, <2>2, <6>1, <6>2
        <5>4. PICK a \in Int, b \in Int : a = x - p /\ b = q - p
          OBVIOUS
        <5>5. (a - b) - c = x - (q + c)
          BY <5>4
        <5>8. end = q + c
          BY <2>4, <5>7
        <5>6. /\ ((a % Word) - b) % Word = (a - b) % Word
              /\ (((a - b) % Word) - c) % Word = ((a - b) - c) % Word
          <6>1. a - b \in Int
            BY <5>4
          <6> QED
            BY <6>1, Mod
        <5> QED
          BY <4>2, <4>3, <5>1, <5>2, <5>3, <5>4, <5>5, <5>6, <5>7, <5>8
      <4> QED
        BY <2>4, <3>2, <4>4, <4>5
    <3> QED
      BY <2>9, <2>4, <3>1, <3>2
  <2> QED
    BY <2>5, <2>6, <2>7, <2>8, <2>9 DEF StreamInv, ListAccounting, EndsNear
<1> QED
  BY <1>4, <1>5

(* A list that is left ends where the reader is.                           *)
LEMMA LeftAtEnd ==
  ASSUME Uint64Sizes, StreamInv, CallListEnd, res'.err = Nil, ~torn
  PROVE  s.pos = ends[Len(ends)]
<1>1. PICK r, n : r = ListEnd(s) /\ n = Len(ends)
  OBVIOUS
<1>2. r.err = Nil
  BY <1>1 DEF CallListEnd, Return
<1>3. /\ Good(s) /\ s.stack \in Seq(0..(Word - 1)) /\ Len(s.stack) \in Nat
      /\ s.pos \in Nat /\ s.remaining \in Nat
      /\ ends \in Seq(Nat) /\ Len(ends) = Len(s.stack) /\ DOMAIN ends = 1..Len(ends)
  BY InvGood
<1>4. s.stack # <<>> /\ s.stack[n] = 0
  BY <1>1, <1>2, <1>3, ListEndLeaves
<1>5. n \in 1..n /\ n \in 1..Len(ends)
  BY <1>1, <1>3, <1>4
<1>6. 0 = (ends[n] - s.pos) % Word /\ ends[n] \in Nat /\ ends[n] < s.pos + Word
  BY <1>1, <1>3, <1>4, <1>5, ElementOfSeq DEF StreamInv, ListAccounting, EndsNear, From
<1>7. PICK x \in Int : x = ends[n] - s.pos
  BY <1>3, <1>6
<1>8. s.pos < Word
  <2>1. Len(s.in) < Word /\ Len(s.in) \in Nat /\ s.pos <= Len(s.in)
    BY <1>3, ClientAssumption DEF StreamInv, Good, Streams
  <2> QED
    BY <1>3, <2>1, WordAssumption
<1>10. -Word < x /\ x < Word /\ x % Word = 0
  BY <1>3, <1>6, <1>7, <1>8, WordAssumption
<1>9. x = 0
  BY <1>10, ModZero
<1> QED
  BY <1>1, <1>3, <1>6, <1>7, <1>9

LEMMA ListEndKeeps == ASSUME Uint64Sizes, StreamInv, CallListEnd PROVE StreamInv'
<1>1. PICK r, n : r = ListEnd(s) /\ n = Len(ends)
  OBVIOUS
<1>2. /\ s' = r.s /\ res'.err = r.err
      /\ torn' = (torn \/ r.err \in Torn) /\ quota' = quota
      /\ ends' = IF r.err = Nil THEN SubSeq(ends, 1, n - 1) ELSE ends
  BY <1>1 DEF CallListEnd, Return, Torn
<1>3. /\ Good(s) /\ s.stack \in Seq(0..(Word - 1)) /\ Len(s.stack) = n /\ n \in Nat
      /\ s.pos \in Nat /\ s.remaining \in Nat
      /\ ends \in Seq(Nat) /\ DOMAIN ends = 1..n
  BY <1>1, InvGood
<1>4. CASE r.err # Nil
  <2>1. Reads(s, s', r.err)
    BY <1>1, <1>2, <1>3, <1>4, ListEndLeaves
  <2> QED
    BY <1>2, <1>4, <2>1, ReadsKeep
<1>5. CASE r.err = Nil
  <2>1. /\ s.stack # <<>> /\ s.stack[n] = 0
        /\ Good(s') /\ s' \in Streams
        /\ s'.in = s.in /\ s'.pos = s.pos /\ s'.limited = s.limited /\ s'.remaining = s.remaining
        /\ Len(s'.stack) = n - 1
        /\ \A i \in 1..(n - 1) : s'.stack[i] = s.stack[i]
    BY <1>1, <1>2, <1>3, <1>5, ListEndLeaves DEF Good
  <2>2. n \in 1..n /\ n - 1 \in Nat
    BY <1>3, <2>1
  <2>3. \A i \in 1..n : ends[i] \in Nat
    BY <1>1, <1>3, ElementOfSeq
  <2>4. /\ ends' \in Seq(Nat) /\ Len(ends') = n - 1 /\ DOMAIN ends' = 1..(n - 1)
        /\ \A i \in 1..(n - 1) : ends'[i] = ends[i]
    <3>1. n - 1 \in Int /\ 1 \in Int /\ (\A i \in 1..(n - 1) : ends[i] \in Nat)
      BY <2>2, <2>3
    <3>2. /\ ends' \in Seq(Nat)
          /\ Len(ends') = IF 1 <= n - 1 THEN n - 1 - 1 + 1 ELSE 0
          /\ \A i \in 1..(n - 1 - 1 + 1) : ends'[i] = ends[1 + i - 1]
      BY <1>2, <1>5, <3>1, SubSeqProperties
    <3> QED
      BY <2>2, <3>2
  <2>5. TypeOK' /\ s'.size < Word /\ s'.in \in Inputs /\ quota' \in Nat /\ BufferFits'
    BY <1>2, <1>3, <2>1, <2>4 DEF StreamInv, TypeOK, Good, BufferFits, Fits
  <2>6. LimitHonoured'
    BY <1>2, <2>1 DEF StreamInv, LimitHonoured
  <2>7. EndsNear'
    <3>1. ASSUME NEW i \in 1..(n - 1) PROVE ends'[i] < s'.pos + Word
      <4>1. i \in 1..n
        BY <2>2
      <4> QED
        BY <1>3, <2>1, <2>4, <4>1 DEF StreamInv, EndsNear
    <3> QED
      BY <2>4, <3>1 DEF EndsNear
  <2>8. ListAccounting'
    <3> SUFFICES ASSUME ~torn', NEW i \in 1..(n - 1)
                 PROVE  s'.stack[i] = (ends'[i] - From(i)') % Word
      BY <2>4 DEF ListAccounting
    <3>1. ~torn /\ i \in 1..n /\ i < n /\ i + 1 \in 1..n
      BY <1>2, <2>2 DEF StreamInv, TypeOK
    <3>2. s.stack[i] = (ends[i] - ends[i + 1]) % Word
      BY <1>1, <1>3, <3>1 DEF StreamInv, ListAccounting, From
    <3>3. CASE i < n - 1
      <4>1. i + 1 \in 1..(n - 1) /\ From(i)' = ends'[i + 1]
        BY <2>2, <2>4, <3>3 DEF From
      <4> QED
        BY <2>1, <2>4, <3>2, <4>1
    <3>4. CASE i = n - 1
      <4>1. From(i)' = s.pos /\ ends[i + 1] = ends[n]
        BY <2>1, <2>2, <2>4, <3>4 DEF From
      <4>2. s.stack[n] = (ends[n] - s.pos) % Word
        BY <1>1, <1>3, <2>2, <3>1 DEF StreamInv, ListAccounting, From
      <4>3. PICK a \in Int, b \in Int, p \in Int : a = ends[i] /\ b = ends[n] /\ p = s.pos
        BY <1>3, <2>2, <2>3, <3>1
      <4>4. (b - p) % Word = 0
        BY <2>1, <4>2, <4>3
      <4>5. (a - p) % Word = (a - b) % Word
        BY <4>4, ModEqual, Zenon
      <4> QED
        BY <2>1, <2>4, <3>2, <4>1, <4>3, <4>5
    <3> QED
      BY <2>2, <3>3, <3>4
  <2> QED
    BY <2>5, <2>6, <2>7, <2>8 DEF StreamInv
<1> QED
  BY <1>4, <1>5

(* A stream that begins with another input.                                *)
LEMMA FreshStream ==
  ASSUME NEW in \in Inputs, NEW limit \in Limits, NEW auto \in BOOLEAN, NEW old \in Nat,
         NEW x, x = Reset(in, limit, auto, old)
  PROVE  /\ x \in Streams /\ x.in = in /\ x.pos = 0 /\ x.stack = <<>> /\ x.size = 0 /\ x.kind = None
         /\ limit <= x.remaining \/ ~x.limited
<1>1. limit \in Nat /\ in \in Seq(0..255) /\ Len(in) \in Nat
  BY ClientAssumption, WordAssumption
<1>2. PICK rem \in Nat, lim \in BOOLEAN :
        /\ rem = IF limit > 0 THEN limit ELSE IF auto THEN Len(in) ELSE old
        /\ lim = (limit > 0 \/ auto)
  BY <1>1
<1>3. limit <= rem
  BY <1>1, <1>2
<1>4. x = [in |-> in, pos |-> 0, limited |-> lim, remaining |-> rem,
           stack |-> <<>>, size |-> 0, kind |-> None, kinderr |-> Nil, byteval |-> 0]
  BY <1>2 DEF Reset
<1>5. <<>> \in Seq(0..(Word - 1)) /\ Nil \in KindErrors /\ 0 \in 0..127
  BY DEF KindErrors
<1>6. x \in Streams
  BY <1>1, <1>4, <1>5 DEF Streams
<1> QED
  BY <1>3, <1>4, <1>6

LEMMA Ahead ==
  ASSUME NEW y \in Streams, NEW k \in {None, "byte", "string", "list"}, NEW n \in Nat,
         NEW x, x = [y EXCEPT !.kind = k, !.size = n]
  PROVE  x \in Streams
BY ZenonT(80) DEF Streams

(* The invariant holds of a stream with no open list.                      *)
LEMMA InvFresh ==
  ASSUME NEW u, u \in Streams, u.pos = 0, u.size < Word, u.in \in Inputs, u.stack = <<>>,
         u.remaining \in Nat, u.limited => u.size <= u.remaining,
         s' = u, ends' = <<>>, torn' = FALSE, quota' = u.remaining
  PROVE  StreamInv'
<1>1. Len(u.in) \in Nat /\ u.stack = <<>> /\ Len(u.stack) = 0
  BY DEF Streams
<1>2. <<>> \in Seq(Nat) /\ DOMAIN ends' = {} /\ Len(ends') = 0
  OBVIOUS
<1>6. s'.pos <= Len(s'.in) /\ ends' \in Seq(Nat) /\ Len(ends') = Len(s'.stack)
  BY <1>1, <1>2
<1>7. torn' \in BOOLEAN
  OBVIOUS
<1>3. TypeOK'
  BY <1>6, <1>7 DEF TypeOK
<1>4. BufferFits' /\ LimitHonoured' /\ quota' \in Nat
  BY DEF BufferFits, LimitHonoured
<1>5. ListAccounting' /\ EndsNear'
  BY <1>2 DEF ListAccounting, EndsNear
<1> QED
  BY <1>3, <1>4, <1>5 DEF StreamInv

LEMMA StreamInit == Init => StreamInv
<1> SUFFICES ASSUME Init PROVE StreamInv
  OBVIOUS
<1>1. PICK in \in Inputs, limit \in Limits, auto \in BOOLEAN : s = Reset(in, limit, auto, 0)
  BY DEF Init
<1>2. /\ quota = s.remaining /\ ends = <<>> /\ torn = FALSE
  BY DEF Init
<1>3. /\ s \in Streams /\ s.in = in /\ s.pos = 0 /\ s.stack = <<>> /\ s.size = 0
      /\ s.remaining \in Nat
  <2>1. PICK x : x = s
    OBVIOUS
  <2>2. /\ x \in Streams /\ x.in = in /\ x.pos = 0 /\ x.stack = <<>> /\ x.size = 0
    <3>1. 0 \in Nat
      OBVIOUS
    <3> QED
      BY <1>1, <2>1, <3>1, FreshStream
  <2> QED
    BY <2>1, <2>2 DEF Streams
<1>4. /\ s.size < Word /\ (s.limited => s.size <= s.remaining)
  BY <1>3, WordAssumption
<1>5. Len(s.in) \in Nat /\ Len(s.stack) = 0
  BY <1>3 DEF Streams
<1>6. <<>> \in Seq(Nat) /\ DOMAIN ends = {} /\ Len(ends) = 0
  BY <1>2
<1>9. s.pos <= Len(s.in) /\ ends \in Seq(Nat) /\ Len(ends) = Len(s.stack)
  BY <1>2, <1>3, <1>5, <1>6
<1>10. torn \in BOOLEAN
  BY <1>2
<1>7. TypeOK
  BY <1>3, <1>9, <1>10 DEF TypeOK
<1>8. BufferFits /\ LimitHonoured /\ ListAccounting /\ EndsNear
  BY <1>2, <1>3, <1>4, <1>6 DEF BufferFits, LimitHonoured, ListAccounting, EndsNear
<1> QED
  BY <1>2, <1>3, <1>4, <1>7, <1>8 DEF StreamInv

LEMMA StreamStep == ASSUME Uint64Sizes, StreamInv, [Next]_vars PROVE StreamInv'
<1> DEFINE Called(r) ==
      /\ s' = r.s /\ torn' = (torn \/ r.err \in Torn) /\ UNCHANGED <<ends, quota>>
<1>1. ASSUME NEW r, Called(r), Reads(s, r.s, r.err) PROVE StreamInv'
  BY <1>1, ReadsKeep
<1> HIDE DEF Called
<1>2. Good(s) /\ s.remaining \in Nat
  BY InvGood
<1>3. CASE CallKind
  <2>1. Called(Kind(s))
    BY <1>3 DEF CallKind, Return, Called, Torn
  <2> QED
    BY <1>1, <1>2, <2>1, KindReads
<1>4. CASE CallBytes
  <2>1. Called(Bytes(s))
    BY <1>4 DEF CallBytes, Return, Called, Torn
  <2> QED
    BY <1>1, <1>2, <2>1, BytesReads
<1>5. CASE CallRaw
  <2>1. Called(Raw(s))
    BY <1>5 DEF CallRaw, Return, Called, Torn
  <2> QED
    BY <1>1, <1>2, <2>1, RawReads
<1>6. CASE CallBool
  <2>1. Called(Bool(s))
    BY <1>6 DEF CallBool, Return, Called, Torn
  <2> QED
    BY <1>1, <1>2, <2>1, BoolReads
<1>7. CASE CallBigInt
  <2>1. Called(decodeBigInt(s))
    BY <1>7 DEF CallBigInt, Return, Called, Torn
  <2> QED
    BY <1>1, <1>2, <2>1, BigIntReads
<1>8. ASSUME NEW n \in Lengths, CallReadBytes(n) PROVE StreamInv'
  <2>1. Called(ReadBytes(s, n))
    BY <1>8 DEF CallReadBytes, Return, Called, Torn
  <2> QED
    BY <1>1, <1>2, <2>1, ReadBytesReads
<1>9. ASSUME NEW maxbits \in {8, 16, 32, 64}, CallUint(maxbits) PROVE StreamInv'
  <2>1. Called(uint(s, maxbits))
    BY <1>9 DEF CallUint, Return, Called, Torn
  <2> QED
    BY <1>1, <1>2, <2>1, UintReads
<1>10. ASSUME NEW limit \in Limits, NEW auto \in BOOLEAN, CallReset(limit, auto) PROVE StreamInv'
  <2>1. PICK in \in Inputs : s' = Reset(in, limit, auto, s.remaining)
    BY <1>10 DEF CallReset
  <2>2. quota' = s'.remaining /\ ends' = <<>> /\ torn' = FALSE
    BY <1>10 DEF CallReset
  <2>3. /\ s' \in Streams /\ s'.in = in /\ s'.pos = 0 /\ s'.stack = <<>> /\ s'.size = 0
        /\ s'.remaining \in Nat
    <3>3. PICK x : x = s'
      OBVIOUS
    <3>1. PICK old \in Nat : x = s' /\ old = s.remaining
      BY <1>2, <3>3
    <3>2. /\ x \in Streams /\ x.in = in /\ x.pos = 0 /\ x.stack = <<>> /\ x.size = 0
      BY <2>1, <3>1, FreshStream
    <3> QED
      BY <3>1, <3>2 DEF Streams
  <2>4. s'.size < Word /\ (s'.limited => s'.size <= s'.remaining)
    BY <2>3, WordAssumption
  <2> QED
    BY <2>2, <2>3, <2>4, InvFresh
<1>11. ASSUME NEW limit \in Limits, NEW auto \in BOOLEAN, CallNewListStream(limit, auto) PROVE StreamInv'
  <2>1. PICK in \in Inputs : s' = [Reset(in, limit, auto, 0) EXCEPT !.kind = "list", !.size = limit]
    BY <1>11 DEF CallNewListStream
  <2>2. quota' = s'.remaining /\ ends' = <<>> /\ torn' = FALSE
    BY <1>11 DEF CallNewListStream
  <2>3. /\ s' \in Streams /\ s'.pos = 0 /\ s'.size < Word /\ s'.in = in
        /\ s'.stack = <<>> /\ s'.remaining \in Nat
        /\ s'.limited => s'.size <= s'.remaining
    <3>1. PICK x, y : x = s' /\ y = Reset(in, limit, auto, 0)
      OBVIOUS
    <3>2. x = [y EXCEPT !.kind = "list", !.size = limit]
      BY <2>1, <3>1
    <3>3. 0 \in Nat /\ limit \in Nat /\ limit < Word
      BY ClientAssumption, WordAssumption
    <3>4. /\ y \in Streams /\ y.in = in /\ y.pos = 0 /\ y.stack = <<>>
          /\ limit <= y.remaining \/ ~y.limited
      BY <3>1, <3>3, FreshStream
    <3>7. PICK k \in {None, "byte", "string", "list"}, n \in Nat : k = "list" /\ n = limit
      BY <3>3
    <3>8. x = [y EXCEPT !.kind = k, !.size = n]
      BY <3>2, <3>7
    <3>5. x \in Streams
      BY <3>4, <3>7, <3>8, Ahead
    <3>6. /\ x.in = in /\ x.pos = 0 /\ x.limited = y.limited /\ x.remaining = y.remaining
          /\ x.stack = <<>> /\ x.size = limit /\ x.remaining \in Nat
      BY <3>2, <3>4 DEF Streams
    <3> QED
      BY <3>1, <3>3, <3>4, <3>5, <3>6
  <2> QED
    BY <2>2, <2>3, InvFresh
<1>12. CASE UNCHANGED vars
  BY <1>12 DEF vars, StreamInv, TypeOK, BufferFits, LimitHonoured, ListAccounting, EndsNear, From
<1> QED
  BY <1>3, <1>4, <1>5, <1>6, <1>7, <1>8, <1>9, <1>10, <1>11, <1>12, ListKeeps, ListEndKeeps DEF Next

LEMMA StreamInvariant == ASSUME Uint64Sizes PROVE Spec => []StreamInv
<1>1. Init => StreamInv
  BY StreamInit
<1>2. StreamInv /\ [Next]_vars => StreamInv'
  BY StreamStep
<1> QED
  BY <1>1, <1>2, PTL DEF Spec

-----------------------------------------------------------------------------
(* Theorems.                                                               *)

(* The fields of a Stream stay in their types, all sizes and limits in 64  *)
(* bits, and its stack is as deep as the lists that are open (List,        *)
(* ListEnd, Kind).                                                         *)
THEOREM TypeCorrect == ASSUME Uint64Sizes PROVE Spec => []TypeOK
<1>1. StreamInv => TypeOK
  BY DEF StreamInv
<1> QED
  BY <1>1, StreamInvariant, PTL

(* The stack says how far each open list still goes, through any calls,    *)
(* errors and headers read ahead (willRead, List, ListEnd).                *)
THEOREM ListsAreAccounted == ASSUME Uint64Sizes PROVE Spec => []ListAccounting
<1>1. StreamInv => ListAccounting
  BY DEF StreamInv
<1> QED
  BY <1>1, StreamInvariant, PTL

(* ListEnd leaves a list exactly where its header said that it ends.  The  *)
(* stack says this modulo 2^64; the ends are less than that apart.         *)
THEOREM ListsEndExactly == ASSUME Uint64Sizes PROVE Spec => ListEndExact
<1>1. StreamInv /\ [Next]_vars => [CallListEnd /\ res'.err = Nil /\ ~torn => s.pos = ends[Len(ends)]]_vars
  BY LeftAtEnd
<1> QED
  BY <1>1, StreamInvariant, PTL DEF Spec, ListEndExact

(* What Kind announces without an error fits into the rest of a limited    *)
(* input: no method allocates more for it (Kind, willRead).                *)
THEOREM BuffersFit == ASSUME Uint64Sizes PROVE Spec => []BufferFits
<1>1. StreamInv => BufferFits
  BY DEF StreamInv
<1> QED
  BY <1>1, StreamInvariant, PTL

(* No more is read than the input limit allows (willRead, Reset).          *)
THEOREM LimitIsHonoured == ASSUME Uint64Sizes PROVE Spec => []LimitHonoured
<1>1. StreamInv => LimitHonoured
  BY DEF StreamInv
<1> QED
  BY <1>1, StreamInvariant, PTL
=============================================================================
