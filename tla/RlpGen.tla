------------------------------- MODULE RlpGen -------------------------------
(***************************************************************************)
(* The methods that rlpgen generates for a struct type                     *)
(* (src/rlp/rlpgen/gen.go).  The generator builds an op per type and each  *)
(* op prints the code that writes, and the code that reads, a value; here  *)
(* genWrite and genDecode are what that code does when it runs.  Names of  *)
(* temporary variables, imports and conversions between types with the     *)
(* same values are left out.                                               *)
(*                                                                         *)
(* Values: numbers for uint and bool; byte sequences for strings, byte     *)
(* slices and arrays, RawValue and big integers (most significant byte     *)
(* first, without leading zeros); sequences for slices and arrays; for a   *)
(* struct the sequence of the fields that are encoded; <<>> for a nil      *)
(* pointer and <<v>> for one to v; records for what is in an interface.    *)
(* A slice may be NilSlice, which Go tells apart from an empty one and RLP *)
(* does not.                                                               *)
(***************************************************************************)
EXTENDS RlpStream, RlpEncBuffer, RlpStruct, FiniteSets

CONSTANT NilSlice   (* nil, for slices of any type: none of the values above. *)

(* The elements of a slice, nil or not.                                    *)
Elements(v) == IF v = NilSlice THEN <<>> ELSE v

(* What is in an interface: nil, a byte string, or a list of such.         *)
IfNil == [k |-> "nil", b |-> <<>>, l |-> <<>>]
IfBytes(b) == [k |-> "bytes", b |-> b, l |-> <<>>]
IfList(l) == [k |-> "list", b |-> <<>>, l |-> l]

(* The zero value of a type.                                               *)
RECURSIVE Zero(_)
Zero(ty) ==
  CASE ty.t \in {"uint", "bool"} -> 0
    [] ty.t = "bytearray" -> [i \in 1..ty.n |-> 0]
    [] ty.t = "array" -> [i \in 1..ty.n |-> Zero(ty.elem)]
    [] ty.t = "interface" -> IfNil
    [] ty.t = "coder" -> Zero(ty.type)
    [] ty.t = "struct" ->
         LET fields == ProcessFields(ty.fields).fields
         IN  [i \in DOMAIN fields |-> Zero(fields[i].type)]
    [] ty.t \in SliceTypes -> NilSlice
    [] OTHER -> <<>>

BigIntPtr == [t |-> "ptr", elem |-> [t |-> "bigint"]]

(* Fields at the end, from the first optional one on, that are zero are    *)
(* not written.  The number of fields that are, nonZero being the set of   *)
(* those that are not zero, which the package and generated code find in   *)
(* different ways.                                                         *)
FieldsWritten(fields, nonZero) ==
  LET Optional(i) == \E j \in 1..i : fields[j].tags.optional
      keep == {i \in DOMAIN fields : ~Optional(i) \/ i \in nonZero}
  IN  CHOOSE n \in 0..Len(fields) : (n = 0 \/ n \in keep) /\ \A i \in keep : i <= n

-----------------------------------------------------------------------------
(* The generator.                                                          *)

RECURSIVE Comparable(_)
Comparable(ty) ==
  CASE ty.t \in {"slice", "bytes", "raw", "bigint"} -> FALSE
    [] ty.t = "struct" -> \A i \in DOMAIN ty.fields : Comparable(ty.fields[i].type)
    [] ty.t = "array" -> Comparable(ty.elem)
    [] ty.t = "coder" -> Comparable(ty.type)
    [] OTHER -> TRUE

(* Whether the code of nonZeroCheck compiles: it compares structs and      *)
(* arrays with !=.                                                         *)
HasZeroCheck(ty) == ty.t \in {"struct", "array", "bigint", "coder"} => Comparable(ty)

(* makeOp: whether code is generated for a type, and is Go.  The code for  *)
(* strings is not: it calls a method String that Stream does not have; nor *)
(* that for pointers to pointers, which has a &&.                          *)
RECURSIVE makeOp(_, _)
makeOp(ty, tags) ==
  CASE ty.t \in {"uint", "bool", "bytes", "bytearray", "bigint", "raw"} -> TRUE
    [] ty.t = "slice" -> makeOp(ty.elem, NoTags)
    [] ty.t = "ptr" -> ty.elem.t = "coder" \/ (ty.elem.t # "ptr" /\ makeOp(ty.elem, NoTags))
    [] ty.t = "coder" -> makeOp(ty.type, tags)
    [] ty.t = "struct" ->
         LET p == ProcessFields(ty.fields)
         IN  p.ok /\ \A i \in DOMAIN p.fields :
               /\ ~p.fields[i].tags.tail
               /\ p.fields[i].tags.optional => HasZeroCheck(p.fields[i].type)
               /\ makeOp(p.fields[i].type, p.fields[i].tags)
    [] OTHER -> FALSE

(* ptrOp.nilValue                                                          *)
nilValue(ty, tags) == IF tags.nilOK THEN tags.nilKind ELSE DefaultNilValue(ty.elem)

NilBytes(kind) == IF kind = "list" THEN <<192>> ELSE <<128>>

-----------------------------------------------------------------------------
(* The generated encoder.                                                  *)

RECURSIVE genWrite(_, _, _, _), genWriteElems(_, _, _), genWriteFields(_, _, _)

genWriteElems(elem, v, buf) ==
  IF v = <<>> THEN buf ELSE genWriteElems(elem, Tail(v), genWrite(elem, NoTags, Head(v), buf))

(* nonZeroCheck: what the generated code takes for a value that is not     *)
(* zero.  A slice is zero when it is empty, nil or not.                    *)
nonZeroCheck(ty, v) ==
  IF ty.t \in SliceTypes THEN Elements(v) # <<>> ELSE v # Zero(ty)


(* The required fields, then each optional one unless it and all behind it *)
(* are zero.                                                               *)
genWriteFields(fields, v, buf) ==
  IF fields = <<>> THEN buf
  ELSE genWriteFields(Tail(fields), Tail(v),
         IF FieldsWritten(fields, {i \in DOMAIN fields : nonZeroCheck(fields[i].type, v[i])}) = 0
         THEN buf
         ELSE genWrite(Head(fields).type, Head(fields).tags, Head(v), buf))

genWriteStruct(fields, v, buf) ==
  listEnd(genWriteFields(fields, v, list(buf)), Len(buf.lheads) + 1)

genWriteSlice(elem, v, buf) ==
  listEnd(genWriteElems(elem, Elements(v), list(buf)), Len(buf.lheads) + 1)

(* A pointer to a type with methods is written by its method, which would  *)
(* not survive a nil pointer.                                              *)
genWritePtr(ty, tags, v, buf) ==
  IF ty = BigIntPtr THEN IF v = <<>> THEN Write(buf, <<128>>) ELSE writeBytes(buf, v[1])
  ELSE IF v = <<>> THEN Write(buf, NilBytes(nilValue(ty, tags)))
  ELSE genWrite(ty.elem, NoTags, v[1], buf)

genWrite(ty, tags, v, buf) ==
  CASE ty.t = "raw" -> Write(buf, Elements(v))
    [] ty.t = "uint" -> writeUint64(buf, v)
    [] ty.t = "bool" -> writeBool(buf, v = 1)
    [] ty.t \in {"bytes", "bytearray", "bigint"} -> writeBytes(buf, Elements(v))
    [] ty.t = "slice" -> genWriteSlice(ty.elem, v, buf)
    [] ty.t = "struct" -> genWriteStruct(ProcessFields(ty.fields).fields, v, buf)
    [] ty.t = "coder" -> genWrite(ty.type, tags, v, buf)
    [] ty.t = "ptr" -> genWritePtr(ty, tags, v, buf)

(* EncodeRLP: w is a buffer derived from buf, whose Flush does nothing.    *)
EncodeRLP(coder, v, buf) == genWrite(coder.type, NoTags, v, buf)

-----------------------------------------------------------------------------
(* The generated decoder.                                                  *)

RECURSIVE genDecode(_, _, _), genDecodeElems(_, _), genDecodeFields(_, _)

MoreDataInList(t) == inList(t) /\ listLimit(t) > 0

genDecodeElems(elem, t) ==
  IF ~MoreDataInList(t) THEN Done(t, <<>>)
  ELSE Then(genDecode(elem, NoTags, t), LAMBDA u, v :
         Then(genDecodeElems(elem, u), LAMBDA w, more : Done(w, <<v>> \o more)))

(* ListEnd behind what r has read.                                         *)
EndWith(r) == Then(r, LAMBDA t, v : [ListEnd(t) EXCEPT !.val = v])

(* The elements are appended to a nil slice.                               *)
genDecodeSlice(elem, t) ==
  Then(List(t), LAMBDA l, len :
    Then(EndWith(genDecodeElems(elem, l)), LAMBDA u, v :
      Done(u, IF v = <<>> THEN NilSlice ELSE v)))

(* The code of an optional field encloses that of the fields behind it.    *)
genDecodeFields(fields, t) ==
  IF fields = <<>> THEN Done(t, <<>>)
  ELSE IF Head(fields).tags.optional /\ ~MoreDataInList(t)
  THEN Done(t, [i \in DOMAIN fields |-> Zero(fields[i].type)])
  ELSE Then(genDecode(Head(fields).type, Head(fields).tags, t), LAMBDA u, v :
         Then(genDecodeFields(Tail(fields), u), LAMBDA w, more : Done(w, <<v>> \o more)))

PtrTo(r) == Then(r, LAMBDA t, v : Done(t, <<v>>))

(* With a nil tag, an empty value of the right kind is nil; everything     *)
(* else is decoded.  The empty value stays ahead in the stream.            *)
genDecodeNilPtr(ty, tags, t) ==
  Then(Kind(t), LAMBDA k, v :
    IF k.size # 0 \/ k.kind # nilValue(ty, tags)
    THEN PtrTo(genDecode(ty.elem, NoTags, k))
    ELSE Done(k, <<>>))

genDecodePtr(ty, tags, t) ==
  IF tags.nilOK /\ ty # BigIntPtr /\ ty.elem.t # "coder"
  THEN genDecodeNilPtr(ty, tags, t)
  ELSE PtrTo(genDecode(ty.elem, NoTags, t))

genDecode(ty, tags, t) ==
  CASE ty.t = "raw" -> Raw(t)
    [] ty.t = "uint" -> uint(t, ty.bits)
    [] ty.t = "bool" -> Bool(t)
    [] ty.t = "bytes" -> Bytes(t)
    [] ty.t = "bytearray" -> ReadBytes(t, ty.n)
    [] ty.t = "bigint" -> decodeBigInt(t)
    [] ty.t = "slice" -> genDecodeSlice(ty.elem, t)
    [] ty.t = "struct" ->
         Then(List(t), LAMBDA l, len :
           EndWith(genDecodeFields(ProcessFields(ty.fields).fields, l)))
    [] ty.t = "coder" -> genDecode(ty.type, tags, t)
    [] ty.t = "ptr" -> genDecodePtr(ty, tags, t)

DecodeRLP(coder, t) == genDecode(coder.type, NoTags, t)
=============================================================================
