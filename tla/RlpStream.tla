----------------------------- MODULE RlpStream -----------------------------
(***************************************************************************)
(* The decoder stream (type Stream, src/rlp/decode.go): it reads one       *)
(* header ahead, keeps the bytes left in each open list on a stack, and    *)
(* checks sizes that come from the input against these limits and against  *)
(* an optional limit on the input.                                         *)
(*                                                                         *)
(* A stream is a record with the fields of Stream; its reader is the bytes *)
(* in and the number pos of bytes it has handed out.  A method is an       *)
(* operator from a stream to the stream it leaves behind, an error and a   *)
(* value; methods call each other as in the code.                          *)
(***************************************************************************)
EXTENDS RlpHead

CONSTANT Word   (* 2^64: sizes and limits are uint64.                      *)

ASSUME WordAssumption == Word \in Nat \ {0}

Nil == "nil"
None == "none"   (* kind -1: no value ahead is known.                      *)

(* What Kind may find where a header should be.                            *)
KindErrors ==
  {Nil, "EOF", "ErrUnexpectedEOF", "ErrElemTooLarge", "ErrValueTooLarge", "ErrCanonSize"}

Streams ==
  [in : Seq(0..255), pos : Nat, limited : BOOLEAN, remaining : Nat, stack : Seq(0..(Word - 1)),
   size : Nat, kind : {None, "byte", "string", "list"}, kinderr : KindErrors, byteval : 0..127]

-----------------------------------------------------------------------------
(* Results.  Then(r, Op) goes on with Op unless r is an error.             *)

Fail(t, e) == [s |-> t, err |-> e, val |-> <<>>]
Done(t, v) == [s |-> t, err |-> Nil, val |-> v]

Then(r, Op(_, _)) == IF r.err # Nil THEN Fail(r.s, r.err) ELSE Op(r.s, r.val)

Rearm(t) == [t EXCEPT !.kind = None]

-----------------------------------------------------------------------------
(* Limits.                                                                 *)

inList(t) == t.stack # <<>>

(* listLimit: the bytes left in the innermost list.                        *)
listLimit(t) == t.stack[Len(t.stack)]

(* The stream t with n bytes fewer in the innermost list, in uint64.       *)
Charge(t, n) == [t EXCEPT !.stack[Len(t.stack)] = (@ - n) % Word]

(* Mutant: reads are not counted against the input limit.                  *)
ChargeInput_NotCounted(t, n) ==
  IF t.limited /\ n > t.remaining THEN Fail(t, "ErrValueTooLarge") ELSE Done(t, <<>>)

(* Mutant: a read is not checked against the input limit.                  *)
ChargeInput_Unchecked(t, n) ==
  IF t.limited THEN Done([t EXCEPT !.remaining = @ - n], <<>>) ELSE Done(t, <<>>)

(* n bytes less of a limited input.                                        *)
ChargeInput(t, n) ==
  IF ~t.limited THEN Done(t, <<>>)
  ELSE IF n > t.remaining THEN Fail(t, "ErrValueTooLarge")
  ELSE Done([t EXCEPT !.remaining = @ - n], <<>>)

willRead(t, n) ==
  IF inList(t) /\ n > listLimit(t) THEN Fail(Rearm(t), "ErrElemTooLarge")
  ELSE ChargeInput(IF inList(t) THEN Charge(Rearm(t), n) ELSE Rearm(t), n)

-----------------------------------------------------------------------------
(* Reading.                                                                *)

(* readFull and, with n = 1, readByte: the next n bytes.                   *)
readFull(t, n) ==
  Then(willRead(t, n), LAMBDA w, v :
    IF n > Len(t.in) - t.pos
    THEN Fail([w EXCEPT !.pos = Len(t.in)], "ErrUnexpectedEOF")
    ELSE Done([w EXCEPT !.pos = @ + n], SubSeq(t.in, t.pos + 1, t.pos + n)))

readUint(t, size) ==
  IF size = 0 THEN Done(Rearm(t), 0)
  ELSE Then(readFull(t, size), LAMBDA r, b :
    IF size > 1 /\ b[1] = 0 THEN Fail(r, "ErrCanonSize") ELSE Done(r, BigEndian(b)))

Header(t, kind, size) == Done(t, [kind |-> kind, size |-> size])

(* The header of a value whose size is the integer u that was read.        *)
LongHeader(u, kind) ==
  [s |-> u.s, val |-> [kind |-> kind, size |-> IF u.err = Nil THEN u.val ELSE 0],
   err |-> IF u.err = Nil /\ u.val < 56 THEN "ErrCanonSize" ELSE u.err]

(* The header with the tag b.                                              *)
TagHeader(t, b) ==
  IF b < 128 THEN Header([t EXCEPT !.byteval = b], "byte", 0)
  ELSE IF b < 184 THEN Header(t, "string", b - 128)
  ELSE IF b < 192 THEN LongHeader(readUint(t, b - 183), "string")
  ELSE IF b < 248 THEN Header(t, "list", b - 192)
  ELSE LongHeader(readUint(t, b - 247), "list")

(* No header could be read.  At top level the end of the input is not an   *)
(* error but the end.                                                      *)
NoHeader(r) ==
  [s |-> r.s, val |-> [kind |-> "byte", size |-> 0],
   err |-> IF ~inList(r.s) /\ r.err \in {"ErrUnexpectedEOF", "ErrValueTooLarge"}
           THEN "EOF" ELSE r.err]

(* readKind goes on with the first byte of a header.                       *)
HeaderFrom(r) ==
  IF r.err # Nil THEN NoHeader(r) ELSE TagHeader([r.s EXCEPT !.byteval = 0], r.val[1])

readKind(t) == HeaderFrom(readFull(t, 1))

Announced(s, header, e) ==
  [s |-> [s EXCEPT !.kind = header.kind, !.size = header.size, !.kinderr = e],
   err |-> e, val |-> <<>>]

(* Mutant: the size of a value is not checked against the input limit.     *)
Announce_Unchecked(t, r) ==
  Announced(r.s, r.val,
    IF r.err = Nil /\ inList(t) /\ r.val.size > listLimit(t) THEN "ErrElemTooLarge" ELSE r.err)

(* Kind keeps the header r.  Its size is compared with what was left in    *)
(* the list before the header was read.                                    *)
Announce(t, r) ==
  Announced(r.s, r.val,
    IF r.err # Nil THEN r.err
    ELSE IF inList(t) /\ r.val.size > listLimit(t) THEN "ErrElemTooLarge"
    ELSE IF r.s.limited /\ r.val.size > r.s.remaining THEN "ErrValueTooLarge"
    ELSE Nil)

(* Kind reads a header unless one is ahead already.                        *)
Kind(t) ==
  IF t.kind # None THEN [s |-> t, err |-> t.kinderr, val |-> <<>>]
  ELSE IF inList(t) /\ listLimit(t) = 0 THEN Fail(t, "EOL")
  ELSE Announce(t, readKind(t))

-----------------------------------------------------------------------------
(* Methods that read a value.                                              *)

(* Mutant: a string of one small byte is accepted.                         *)
Bytes_AnySize(t) ==
  Then(Kind(t), LAMBDA k, v :
    IF k.kind = "byte" THEN Done(Rearm(k), <<k.byteval>>)
    ELSE IF k.kind = "list" THEN Fail(k, "ErrExpectedString")
    ELSE readFull(k, k.size))

Bytes(t) ==
  Then(Kind(t), LAMBDA k, v :
    IF k.kind = "byte" THEN Done(Rearm(k), <<k.byteval>>)
    ELSE IF k.kind = "list" THEN Fail(k, "ErrExpectedString")
    ELSE Then(readFull(k, k.size), LAMBDA r, b :
      IF k.size = 1 /\ b[1] < 128 THEN Fail(r, "ErrCanonSize") ELSE Done(r, b)))

(* ReadBytes into a buffer of n bytes.                                     *)
ReadBytes(t, n) ==
  Then(Kind(t), LAMBDA k, v :
    IF k.kind # "list" /\ n # (IF k.kind = "byte" THEN 1 ELSE k.size)
    THEN Fail(k, "wrong size") ELSE Bytes(k))

(* Mutant: every value gets the tag of a string.                           *)
Raw_StringTag(t) ==
  Then(Kind(t), LAMBDA k, v :
    IF k.kind = "byte" THEN Done(Rearm(k), <<k.byteval>>)
    ELSE Then(readFull(k, k.size), LAMBDA r, b : Done(r, puthead(128, 183, k.size) \o b)))

(* Raw: the value with its header, which is written anew.                  *)
Raw(t) ==
  Then(Kind(t), LAMBDA k, v :
    IF k.kind = "byte" THEN Done(Rearm(k), <<k.byteval>>)
    ELSE Then(readFull(k, k.size), LAMBDA r, b :
      Done(r, (IF k.kind = "string" THEN puthead(128, 183, k.size)
               ELSE puthead(192, 247, k.size)) \o b)))

(* The integer of a string that readUint has read.                         *)
Integer(k, r) ==
  IF r.err = "ErrCanonSize" THEN Fail(r.s, "ErrCanonInt")
  ELSE IF r.err = Nil /\ k.size > 0 /\ r.val < 128 THEN Fail(r.s, "ErrCanonSize")
  ELSE r

(* uint: Uint64, Uint32, Uint16 and Uint8.                                 *)
uint(t, maxbits) ==
  Then(Kind(t), LAMBDA k, v :
    IF k.kind = "byte"
    THEN IF k.byteval = 0 THEN Fail(k, "ErrCanonInt") ELSE Done(Rearm(k), k.byteval)
    ELSE IF k.kind = "list" THEN Fail(k, "ErrExpectedString")
    ELSE IF k.size > maxbits \div 8 THEN Fail(k, "errUintOverflow")
    ELSE Integer(k, readUint(k, k.size)))

Bool(t) ==
  Then(uint(t, 8), LAMBDA r, num :
    IF num \in {0, 1} THEN Done(r, num) ELSE Fail(r, "invalid boolean"))

(* decodeBigInt: a string that is read like the one of Bytes, except that  *)
(* an empty one needs no read and a leading zero is refused.               *)
decodeBigInt(t) ==
  Then(Kind(t), LAMBDA k, v :
    IF k.kind = "string" /\ k.size = 0 THEN Done(Rearm(k), <<>>)
    ELSE Then(Bytes(k), LAMBDA r, b :
      IF b # <<>> /\ b[1] = 0 THEN Fail(r, "ErrCanonInt") ELSE Done(r, b)))

-----------------------------------------------------------------------------
(* Lists.                                                                  *)

Enter(t, size) == Done([t EXCEPT !.stack = Append(@, size), !.kind = None, !.size = 0], size)

(* Mutant: the size of the inner list stays in the outer one.              *)
List_KeepsOuter(t) ==
  Then(Kind(t), LAMBDA k, v :
    IF k.kind # "list" THEN Fail(k, "ErrExpectedList") ELSE Enter(k, k.size))

(* List enters a list, whose size is taken off the list around it.         *)
List(t) ==
  Then(Kind(t), LAMBDA k, v :
    IF k.kind # "list" THEN Fail(k, "ErrExpectedList")
    ELSE Enter(IF inList(k) THEN Charge(k, k.size) ELSE k, k.size))

(* Mutant: a list is left although there is more data in it.               *)
ListEnd_Anywhere(t) ==
  IF ~inList(t) THEN Fail(t, "errNotInList")
  ELSE Done([t EXCEPT !.stack = SubSeq(@, 1, Len(@) - 1), !.kind = None, !.size = 0], <<>>)

ListEnd(t) ==
  IF ~inList(t) THEN Fail(t, "errNotInList")
  ELSE IF listLimit(t) > 0 THEN Fail(t, "errNotAtEOL")
  ELSE Done([t EXCEPT !.stack = SubSeq(@, 1, Len(@) - 1), !.kind = None, !.size = 0], <<>>)

-----------------------------------------------------------------------------
(* A stream over in with the given limit.  Without one, a reader that is a *)
(* bytes.Reader or the like limits the input by itself (auto); otherwise   *)
(* remaining keeps the value old.                                          *)
Reset(in, limit, auto, old) ==
  [in |-> in, pos |-> 0,
   limited |-> limit > 0 \/ auto,
   remaining |-> IF limit > 0 THEN limit ELSE IF auto THEN Len(in) ELSE old,
   stack |-> <<>>, size |-> 0, kind |-> None, kinderr |-> Nil, byteval |-> 0]
=============================================================================
