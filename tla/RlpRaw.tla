------------------------------- MODULE RlpRaw -------------------------------
(***************************************************************************)
(* Taking RLP values apart without a stream (src/rlp/raw.go): what the     *)
(* trie uses to decode its nodes.                                          *)
(***************************************************************************)
EXTENDS RlpHead

Nil == "nil"

SizeError(e) == [size |-> 0, err |-> e]

(* Mutant: a size that fits into the tag is accepted behind it.            *)
readSize_AnySize(b, slen) ==
  IF slen > Len(b) THEN SizeError("ErrUnexpectedEOF")
  ELSE IF b[1] = 0 THEN SizeError("ErrCanonSize")
  ELSE [size |-> BigEndian(SubSeq(b, 1, slen)), err |-> Nil]

(* The size in the first slen bytes of b: canonical only without leading   *)
(* zeros and when it does not fit into the tag.                            *)
readSize(b, slen) ==
  LET size == BigEndian(SubSeq(b, 1, slen))
  IN  IF slen > Len(b) THEN SizeError("ErrUnexpectedEOF")
      ELSE IF size < 56 \/ b[1] = 0 THEN SizeError("ErrCanonSize")
      ELSE [size |-> size, err |-> Nil]

KindError(e) == [k |-> "byte", tagsize |-> 0, contentsize |-> 0, err |-> e]

readKind(buf) ==
  LET b == buf[1]
      Value(k, tagsize, size) ==
        IF size.err # Nil THEN KindError(size.err)
        ELSE IF size.size > Len(buf) - tagsize THEN KindError("ErrValueTooLarge")
        ELSE [k |-> k, tagsize |-> tagsize, contentsize |-> size.size, err |-> Nil]
      Short(k, tagsize, size) == Value(k, tagsize, [size |-> size, err |-> Nil])
      Long(k, slen) == Value(k, slen + 1, readSize(Tail(buf), slen))
  IN  IF buf = <<>> THEN KindError("ErrUnexpectedEOF")
      ELSE IF b < 128 THEN Short("byte", 0, 1)
      ELSE IF b = 129 /\ Len(buf) > 1 /\ buf[2] < 128 THEN KindError("ErrCanonSize")
      ELSE IF b < 184 THEN Short("string", 1, b - 128)
      ELSE IF b < 192 THEN Long("string", b - 183)
      ELSE IF b < 248 THEN Short("list", 1, b - 192)
      ELSE Long("list", b - 247)

(* b taken apart behind its header r.                                      *)
Taken(b, r) ==
  LET end == r.tagsize + r.contentsize
  IN  IF r.err # Nil
      THEN [k |-> "byte", content |-> <<>>, rest |-> b, err |-> r.err]
      ELSE [k |-> r.k, content |-> SubSeq(b, r.tagsize + 1, end),
            rest |-> SubSeq(b, end + 1, Len(b)), err |-> Nil]

Split(b) == Taken(b, readKind(b))

(* The result r of Split, provided its kind is one of kinds.               *)
OfKind(b, r, kinds, e) ==
  IF r.err = Nil /\ r.k \in kinds THEN [content |-> r.content, rest |-> r.rest, err |-> Nil]
  ELSE [content |-> <<>>, rest |-> b, err |-> IF r.err = Nil THEN e ELSE r.err]

SplitString(b) == OfKind(b, Split(b), {"byte", "string"}, "ErrExpectedString")

SplitList(b) == OfKind(b, Split(b), {"list"}, "ErrExpectedList")

(* SplitUint64: the integer at the beginning of b.                         *)
Uint64In(b, r) ==
  LET Fail(e) == [x |-> 0, rest |-> b, err |-> e]
      n == Len(r.content)
  IN  IF r.err # Nil THEN Fail(r.err)
      ELSE IF n > 8 THEN Fail("errUintOverflow")
      ELSE IF n = 1 /\ r.content[1] = 0 THEN Fail("ErrCanonInt")
      ELSE IF n > 1 /\ readSize(r.content, n).err # Nil THEN Fail("ErrCanonInt")
      ELSE [x |-> BigEndian(r.content), rest |-> r.rest, err |-> Nil]

SplitUint64(b) == Uint64In(b, SplitString(b))

OneMore(c) == IF c.err = Nil THEN [c EXCEPT !.n = @ + 1] ELSE c

(* Mutant: an error ends the count, but is not reported.                   *)
counted_NoError(b) ==
  LET count[n \in 0..Len(b)] ==
        LET r == readKind(SubSeq(b, Len(b) - n + 1, Len(b)))
        IN  IF n = 0 \/ r.err # Nil THEN [n |-> 0, err |-> Nil]
            ELSE OneMore(count[n - (r.tagsize + r.contentsize)])
  IN  count

(* counted(b)[n] is the number of values in the last n bytes of b.         *)
counted(b) ==
  LET count[n \in 0..Len(b)] ==
        LET r == readKind(SubSeq(b, Len(b) - n + 1, Len(b)))
        IN  IF n = 0 THEN [n |-> 0, err |-> Nil]
            ELSE IF r.err # Nil THEN [n |-> 0, err |-> r.err]
            ELSE OneMore(count[n - (r.tagsize + r.contentsize)])
  IN  count

CountValues(b) == counted(b)[Len(b)]

(* IntSize and ListSize: the sizes of the encodings of the integer x and   *)
(* of a list.                                                              *)
IntSize(x) == IF x < 128 THEN 1 ELSE 1 + intsize[x]

ListSize(contentSize) == headsize(contentSize) + contentSize

(* Mutant: 128 is written like the integers that are their own encoding.   *)
AppendUint64_Off(b, i) ==
  b \o (IF i = 0 THEN <<128>>
        ELSE IF i <= 128 THEN <<i>>
        ELSE <<128 + intsize[i]>> \o putint[i])

AppendUint64(b, i) ==
  b \o (IF i = 0 THEN <<128>>
        ELSE IF i < 128 THEN <<i>>
        ELSE <<128 + intsize[i]>> \o putint[i])

-----------------------------------------------------------------------------
(* listIterator (src/rlp/iterator.go)                                      *)

NewListIterator(data) ==
  LET r == readKind(data)
      Iterator(d, e) == [data |-> d, next |-> <<>>, err |-> e]
  IN  IF r.err # Nil THEN Iterator(<<>>, r.err)
      ELSE IF r.k # "list" THEN Iterator(<<>>, "ErrExpectedList")
      ELSE Iterator(SubSeq(data, r.tagsize + 1, r.tagsize + r.contentsize), Nil)

(* Mutant: an error ends the data.                                         *)
IteratorNext_Drops(it) ==
  LET r == readKind(it.data)
      n == r.tagsize + r.contentsize
  IN  [data |-> IF r.err = Nil THEN SubSeq(it.data, n + 1, Len(it.data)) ELSE <<>>,
       next |-> SubSeq(it.data, 1, n), err |-> r.err]

(* Next, when there is data: an error leaves the data as it is.            *)
IteratorNext(it) ==
  LET r == readKind(it.data)
      n == r.tagsize + r.contentsize
  IN  [data |-> SubSeq(it.data, n + 1, Len(it.data)), next |-> SubSeq(it.data, 1, n), err |-> r.err]
=============================================================================
