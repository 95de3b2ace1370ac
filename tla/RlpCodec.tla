------------------------------ MODULE RlpCodec ------------------------------
(***************************************************************************)
(* Encoding and decoding by type (makeWriter in src/rlp/encode.go,         *)
(* makeDecoder in src/rlp/decode.go).  The code builds a writer and a      *)
(* decoder per Go type; here writer and decoder recurse over the type.     *)
(* Types are described in RlpStruct, values in RlpGen.                     *)
(***************************************************************************)
EXTENDS RlpGen

IfType == [t |-> "interface"]

(* Whether makeWriter and makeDecoder return no error for a type.          *)
RECURSIVE Serializable(_)
Serializable(ty) ==
  CASE ty.t = "chan" -> FALSE
    [] ty.t \in {"slice", "array", "ptr"} -> Serializable(ty.elem)
    [] ty.t = "struct" ->
         LET p == ProcessFields(ty.fields)
         IN  p.ok /\ \A i \in DOMAIN p.fields : Serializable(p.fields[i].type)
    [] OTHER -> TRUE

structFields(ty) == ProcessFields(ty.fields).fields

-----------------------------------------------------------------------------
(* Writers.                                                                *)

RECURSIVE writer(_, _, _, _), writeElems(_, _, _), writeFields(_, _, _)

writeElems(elem, v, buf) ==
  IF v = <<>> THEN buf ELSE writeElems(elem, Tail(v), writer(elem, NoTags, Head(v), buf))

writeFields(fields, v, buf) ==
  IF fields = <<>> THEN buf
  ELSE writeFields(Tail(fields), Tail(v), writer(Head(fields).type, Head(fields).tags, Head(v), buf))

(* The elements of a tail go into the list of the struct.                  *)
makeSliceWriter(elem, tags, v, buf) ==
  IF tags.tail THEN writeElems(elem, Elements(v), buf)
  ELSE IF Elements(v) = <<>> THEN Write(buf, <<192>>)
  ELSE listEnd(writeElems(elem, v, list(buf)), Len(buf.lheads) + 1)

(* The first n fields.                                                     *)
StructWriter(fields, n, v, buf) ==
  listEnd(writeFields(SubSeq(fields, 1, n), v, list(buf)), Len(buf.lheads) + 1)

(* Mutant: zero fields are left out wherever they are.                     *)
makeStructWriter_CountsZeros(ty, v, buf) ==
  LET fields == structFields(ty)
  IN  StructWriter(fields, Cardinality({i \in DOMAIN fields :
        ~fields[i].tags.optional \/ v[i] # Zero(fields[i].type)}), v, buf)

(* IsZero: only nil is the zero value of a slice.                          *)
makeStructWriter(ty, v, buf) ==
  LET fields == structFields(ty)
      nonZero == {i \in DOMAIN fields : v[i] # Zero(fields[i].type)}
  IN  StructWriter(fields, FieldsWritten(fields, nonZero), v, buf)

(* makePtrWriter, with typeNilKind, and writeBigIntPtr.                    *)
makePtrWriter(ty, tags, v, buf) ==
  IF v # <<>> THEN writer(ty.elem, NoTags, v[1], buf)
  ELSE Write(buf, IF ty = BigIntPtr THEN <<128>> ELSE NilBytes(nilValue(ty, tags)))

writeInterface(v, buf) ==
  CASE v.k = "nil" -> Write(buf, <<192>>)
    [] v.k = "bytes" -> writeBytes(buf, v.b)
    [] v.k = "list" -> makeSliceWriter(IfType, NoTags, v.l, buf)

writer(ty, tags, v, buf) ==
  CASE ty.t = "raw" -> Write(buf, Elements(v))
    [] ty.t = "coder" -> EncodeRLP(ty, v, buf)
    [] ty.t = "uint" -> writeUint64(buf, v)
    [] ty.t = "bool" -> writeBool(buf, v = 1)
    [] ty.t \in {"string", "bytes", "bytearray", "bigint"} -> writeBytes(buf, Elements(v))
    [] ty.t \in {"slice", "array"} -> makeSliceWriter(ty.elem, tags, v, buf)
    [] ty.t = "struct" -> makeStructWriter(ty, v, buf)
    [] ty.t = "ptr" -> makePtrWriter(ty, tags, v, buf)
    [] ty.t = "interface" -> writeInterface(v, buf)

EncodeToBytes(ty, v) == makeBytes(writer(ty, NoTags, v, emptyBuffer))

-----------------------------------------------------------------------------
(* Decoders.                                                               *)

RECURSIVE decoder(_, _, _), decodeSliceElems(_, _), decodeElems(_, _, _), decodeFields(_, _)

(* The elements until the end of the list, r the first of them.            *)
SliceElemsFrom(elem, r) ==
  IF r.err = "EOL" THEN Done(r.s, <<>>)
  ELSE Then(r, LAMBDA t, v :
         Then(decodeSliceElems(elem, t), LAMBDA u, more : Done(u, <<v>> \o more)))

decodeSliceElems(elem, t) == SliceElemsFrom(elem, decoder(elem, NoTags, t))

decodeListSlice(elem, t) ==
  Then(List(t), LAMBDA l, len :
    EndWith(IF len = 0 THEN Done(l, <<>>) ELSE decodeSliceElems(elem, l)))

TooFew(r) == IF r.err = "EOL" THEN Fail(r.s, "too few elements") ELSE r

(* n elements.                                                             *)
decodeElems(elem, n, t) ==
  IF n = 0 THEN Done(t, <<>>)
  ELSE Then(TooFew(decoder(elem, NoTags, t)), LAMBDA u, v :
         Then(decodeElems(elem, n - 1, u), LAMBDA w, more : Done(w, <<v>> \o more)))

decodeListArray(elem, n, t) ==
  Then(List(t), LAMBDA l, len : EndWith(decodeElems(elem, n, l)))

(* A tail is read up to the end of the list of the struct.                 *)
makeListDecoder(ty, tags, t) ==
  IF tags.tail THEN decodeSliceElems(ty.elem, t) ELSE decodeListSlice(ty.elem, t)

(* The fields, r being the first; those missing at the end are zeroed if   *)
(* they are optional.                                                      *)
FieldsFrom(fields, r) ==
  IF r.err = "EOL" /\ Head(fields).tags.optional
  THEN Done(r.s, [i \in DOMAIN fields |-> Zero(fields[i].type)])
  ELSE Then(TooFew(r), LAMBDA t, v :
         Then(decodeFields(Tail(fields), t), LAMBDA u, more : Done(u, <<v>> \o more)))

decodeFields(fields, t) ==
  IF fields = <<>> THEN Done(t, <<>>)
  ELSE FieldsFrom(fields, decoder(Head(fields).type, Head(fields).tags, t))

makeStructDecoder(ty, t) ==
  Then(List(t), LAMBDA l, len : EndWith(decodeFields(structFields(ty), l)))

makeSimplePtrDecoder(elem, t) == PtrTo(decoder(elem, NoTags, t))

(* makeNilPtrDecoder: a pointer with a nil tag takes an empty value for    *)
(* nil.                                                                    *)
makeNilPtrDecoder(ty, tags, t) ==
  Then(Kind(t), LAMBDA k, v :
    IF k.kind = "byte" \/ k.size > 0 THEN makeSimplePtrDecoder(ty.elem, k)
    ELSE IF k.kind # tags.nilKind THEN Fail(k, "wrong kind of empty value")
    ELSE Done(Rearm(k), <<>>))

(* A big integer takes its pointer itself.                                 *)
makePtrDecoder(ty, tags, t) ==
  IF tags.nilOK /\ ty # BigIntPtr THEN makeNilPtrDecoder(ty, tags, t)
  ELSE makeSimplePtrDecoder(ty.elem, t)

(* decodeByteSlice and decodeString                                        *)
decodeByteSlice(t) == Bytes(t)

(* decodeByteArray: apart from its errors it is ReadBytes.                 *)
decodeByteArray(n, t) == ReadBytes(t, n)

decodeInterface(t) ==
  Then(Kind(t), LAMBDA k, v :
    IF k.kind = "list"
    THEN Then(decodeListSlice(IfType, k), LAMBDA u, l : Done(u, IfList(l)))
    ELSE Then(Bytes(k), LAMBDA u, b : Done(u, IfBytes(b))))

decoder(ty, tags, t) ==
  CASE ty.t = "raw" -> Raw(t)
    [] ty.t = "coder" -> DecodeRLP(ty, t)
    [] ty.t = "uint" -> uint(t, ty.bits)
    [] ty.t = "bool" -> Bool(t)
    [] ty.t \in {"string", "bytes"} -> decodeByteSlice(t)
    [] ty.t = "bytearray" -> decodeByteArray(ty.n, t)
    [] ty.t = "bigint" -> decodeBigInt(t)
    [] ty.t = "slice" -> makeListDecoder(ty, tags, t)
    [] ty.t = "array" -> decodeListArray(ty.elem, ty.n, t)
    [] ty.t = "struct" -> makeStructDecoder(ty, t)
    [] ty.t = "ptr" -> makePtrDecoder(ty, tags, t)
    [] ty.t = "interface" -> decodeInterface(t)

(* DecodeBytes: one value and nothing behind it.                           *)
DecodeBytes(ty, b) ==
  Then(decoder(ty, NoTags, Reset(b, Len(b), TRUE, 0)), LAMBDA t, v :
    IF t.pos < Len(b) THEN Fail(t, "ErrMoreThanOneValue") ELSE Done(t, v))
=============================================================================
