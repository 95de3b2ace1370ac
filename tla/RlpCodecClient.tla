--------------------------- MODULE RlpCodecClient ---------------------------
(***************************************************************************)
(* A client of EncodeToBytes and DecodeBytes (src/rlp/encode.go,           *)
(* src/rlp/decode.go) that starts from a value or from bytes and converts  *)
(* twice.                                                                  *)
(***************************************************************************)
EXTENDS RlpCodec

(* The other parser of the package, to compare with.                       *)
R == INSTANCE RlpRaw

CONSTANTS
  Types,     (* The types that are tried.                                  *)
  Inputs,    (* A function from Types to sets of byte sequences.           *)
  Samples    (* A function from Types to sets of values.                   *)

VARIABLES
  ty,      (* The type of the value.                                       *)
  from,    (* "value" or "bytes": what first is.                           *)
  first,   (* What the client starts from.                                 *)
  bytes,   (* The encoding, once there is one.                             *)
  val,     (* The value, once there is one.                                *)
  err,     (* The error of the last call.                                  *)
  steps    (* Calls so far.                                                *)

vars == <<ty, from, first, bytes, val, err, steps>>

Init ==
  /\ ty \in Types
  /\ \/ from = "value" /\ first \in Samples[ty] /\ val = first /\ bytes = <<>>
     \/ from = "bytes" /\ first \in Inputs[ty] /\ bytes = first /\ val = <<>>
  /\ err = Nil
  /\ steps = 0

(* The next call is an encoding.                                           *)
EncodeNext == (from = "value") = (steps = 0)

CallEncodeToBytes ==
  /\ steps < 2 /\ err = Nil /\ EncodeNext
  /\ IF Serializable(ty) THEN bytes' = EncodeToBytes(ty, val) /\ err' = Nil
     ELSE bytes' = <<>> /\ err' = "not serializable"
  /\ steps' = steps + 1
  /\ UNCHANGED <<ty, from, first, val>>

Decoded(r) == val' = r.val /\ err' = r.err

CallDecodeBytes ==
  /\ steps < 2 /\ err = Nil /\ ~EncodeNext
  /\ IF Serializable(ty) THEN Decoded(DecodeBytes(ty, bytes))
     ELSE val' = <<>> /\ err' = "not serializable"
  /\ steps' = steps + 1
  /\ UNCHANGED <<ty, from, first, bytes>>

Next == CallEncodeToBytes \/ CallDecodeBytes

Spec == Init /\ [][Next]_vars

-----------------------------------------------------------------------------
(* Properties.                                                             *)

(* A value without the difference between nil and empty slices, which the  *)
(* format does not have: both are written as an empty string or list.      *)
RECURSIVE NilToEmpty(_, _)
NilToEmpty(x, v) ==
  CASE x.t \in {"bytes", "raw"} -> Elements(v)
    [] x.t \in {"slice", "array", "ptr"} ->
         [i \in DOMAIN Elements(v) |-> NilToEmpty(x.elem, v[i])]
    [] x.t = "struct" -> [i \in DOMAIN v |-> NilToEmpty(structFields(x)[i].type, v[i])]
    [] x.t = "coder" -> NilToEmpty(x.type, v)
    [] OTHER -> v

(* What was encoded is decoded to the same value, but for nil slices       *)
(* (samples have no nil pointers in places without a nil tag, which decode *)
(* to a zero value).                                                       *)
RoundTrip ==
  from = "value" /\ steps = 2 => err = Nil /\ NilToEmpty(ty, val) = NilToEmpty(ty, first)

(* The types that a value of type x has inside, x included.                *)
RECURSIVE Within(_)
Within(x) ==
  {x} \cup
  CASE x.t \in {"slice", "array", "ptr"} -> Within(x.elem)
    [] x.t = "coder" -> Within(x.type)
    [] x.t = "struct" -> UNION {Within(structFields(x)[i].type) : i \in DOMAIN structFields(x)}
    [] OTHER -> {}

HasField(x, P(_)) ==
  \E y \in Within(x) : y.t = "struct" /\ \E i \in DOMAIN structFields(y) : P(structFields(y)[i])

HasOptional(x) == HasField(x, LAMBDA f : f.tags.optional)

HasNilTag(x) == HasField(x, LAMBDA f : f.tags.nilOK)

(* A slice of values that are decoded by generated methods.                *)
HasCoderSlice(x) ==
  \E y \in Within(x) :
    y.t = "slice" /\ (y.elem.t = "coder" \/ (y.elem.t = "ptr" /\ y.elem.elem.t = "coder"))

(* There is one encoding per value: what the decoder accepts is what the   *)
(* encoder makes of the value that it decoded.  Structs with optional      *)
(* fields are left out, since the decoder takes zeros for these, which the *)
(* encoder does not write; and so are slices of structs with generated     *)
(* methods, since these return the EOL of the list they entered, which     *)
(* decodeSliceElems takes for the end of the slice.                        *)
Canonical ==
  from = "bytes" /\ steps = 2 /\ ~HasOptional(ty) /\ ~HasCoderSlice(ty) => bytes = first

(* The value v with nil for each optional slice in it that is empty.       *)
RECURSIVE EmptyOptionalToNil(_, _)
EmptyOptionalToNil(x, v) ==
  CASE v = NilSlice -> v
    [] v # NilSlice /\ x.t \in {"slice", "array", "ptr"} ->
         [i \in DOMAIN v |-> EmptyOptionalToNil(x.elem, v[i])]
    [] x.t = "struct" ->
         [i \in DOMAIN v |->
           LET f == structFields(x)[i]
           IN  IF f.tags.optional /\ f.type.t \in SliceTypes /\ v[i] = <<>> THEN NilSlice
               ELSE EmptyOptionalToNil(f.type, v[i])]
    [] x.t = "coder" -> EmptyOptionalToNil(x.type, v)
    [] OTHER -> v

Agree(r) ==
  /\ (r.err = Nil) = (err = Nil)
  /\ err = Nil => NilToEmpty(ty, r.val) = NilToEmpty(ty, val)


(* All values of an encoding are well formed, as raw.go sees it.           *)
RECURSIVE WellFormed(_)
WellFormed(b) ==
  LET r == R!Split(b)
      item == SubSeq(b, 1, Len(b) - Len(r.rest))
      AllWellFormed[n \in 0..Len(r.content)] ==   (* the last n bytes of the content *)
        LET c == SubSeq(r.content, Len(r.content) - n + 1, Len(r.content))
            f == R!Split(c)
            used == n - Len(f.rest)
        IN  n = 0 \/ (f.err = Nil /\ WellFormed(SubSeq(c, 1, used)) /\ AllWellFormed[n - used])
  IN  /\ r.err = Nil
      /\ item = b
      /\ r.k = "list" => AllWellFormed[Len(r.content)]

(* The two parsers of the package agree: a stream decodes exactly the      *)
(* encodings that Split takes apart without an error, all the way down;    *)
(* Uint64 and SplitUint64 take the same integers, with the same result.    *)
ParsersAgree ==
  from = "bytes" /\ steps = 1 =>
    /\ ty.t = "interface" => ((err = Nil) = WellFormed(bytes))
    /\ ty = [t |-> "uint", bits |-> 64] =>
         LET r == R!SplitUint64(bytes)
         IN  /\ (err = Nil) = (r.err = Nil /\ r.rest = <<>>)
             /\ err = Nil => val = r.x
=============================================================================
