---------------------------- MODULE MCRlpCodec -----------------------------
(***************************************************************************)
(* RlpCodec for types of every sort.  Inputs: all sequences of up to four  *)
(* bytes around the borders between tags, and headers with a size.         *)
(***************************************************************************)
EXTENDS RlpCodecClient, TLC

Uint(n) == [t |-> "uint", bits |-> n]
Bool_ == [t |-> "bool"]
Bytes_ == [t |-> "bytes"]
String_ == [t |-> "string"]
ByteArray(n) == [t |-> "bytearray", n |-> n]
BigInt == [t |-> "bigint"]
RawValue == [t |-> "raw"]
Slice(elem) == [t |-> "slice", elem |-> elem]
Array(n, elem) == [t |-> "array", elem |-> elem, n |-> n]
Ptr(elem) == [t |-> "ptr", elem |-> elem]
Struct(fields) == [t |-> "struct", fields |-> fields]
Tagged_(tag, type) == [exported |-> TRUE, type |-> type, tag |-> tag]
Field(type) == Tagged_(<<>>, type)
OptField(type) == Tagged_(<<"optional">>, type)
TailField(elem) == Tagged_(<<"tail">>, Slice(elem))
Hidden(type) == [exported |-> FALSE, type |-> type, tag |-> <<>>]
Coder(type) == [t |-> "coder", type |-> type]

Simple == Struct(<<Field(Uint(8)), Field(Bytes_)>>)
WithPtrs == Struct(<<Tagged_(<<"nil">>, Ptr(Uint(16))), Tagged_(<<"nil">>, Ptr(Simple)), Field(Ptr(Uint(8)))>>)
WithOptional == Struct(<<Field(Uint(8)), OptField(Uint(8)), OptField(Ptr(Uint(8)))>>)
WithTail == Struct(<<Field(Bool_), TailField(Uint(16)), Hidden(Uint(8))>>)
OptionalTail == Struct(<<OptField(Uint(8)), TailField(Bytes_)>>)
Swapped == Struct(<<Tagged_(<<"nilList">>, Ptr(Uint(8))), Tagged_(<<"nilString">>, Ptr(Simple))>>)
Nested == Struct(<<Field(Slice(Simple)), Field(Ptr(BigInt)), Field(ByteArray(1)), OptField(RawValue)>>)
(* Structs with the generated methods inside others.                       *)
WithCoders == Struct(<<Field(Coder(Simple)), Field(Ptr(Coder(Simple))), OptField(BigInt)>>)
AllCoders == Struct(<<Field(Coder(Simple)), Field(Ptr(Coder(Simple)))>>)

Long == [i \in 1..56 |-> 7]
Strings == {<<>>, <<5>>, <<128>>, <<0, 5>>, Long}
Numbers == {0, 1, 127, 128, 255}
(* Strings and slices, which may be nil.                                   *)
OrNil(S) == S \cup {NilSlice}
Pointers(S) == {<<>>} \cup {<<x>> : x \in S}

FixedSamples ==
  (Uint(64) :> Numbers \cup {256, 65535, 65536}) @@ (Uint(8) :> Numbers) @@ (Bool_ :> {0, 1})
  @@ (Bytes_ :> OrNil(Strings)) @@ (ByteArray(0) :> {<<>>}) @@ (ByteArray(1) :> {<<5>>, <<128>>})
  @@ (ByteArray(2) :> {<<0, 5>>, <<129, 0>>})
  @@ (BigInt :> {<<>>, <<1>>, <<128>>, <<1, 0>>, Long})
  @@ (RawValue :> {<<5>>, <<130, 1, 2>>, <<194, 5, 192>>, <<184, 56>> \o Long})
  @@ (Slice(Uint(16)) :> OrNil({<<>>, <<0>>, <<1, 128>>, Long}))
  @@ (Slice(Slice(Bytes_)) :> {<<>>, <<<<>>, <<<<>>, <<5>>>>>>, <<<<Long>>, <<>>>>, <<NilSlice, <<NilSlice>>>>})
  @@ (Array(2, Bool_) :> {<<0, 1>>}) @@ (Simple :> {<<n, b>> : n \in Numbers, b \in OrNil(Strings)})
  @@ (WithPtrs :> {<<p, q, <<0>>>> : p \in Pointers({5, 300}), q \in Pointers({<<0, <<>>>>, <<1, Long>>})})
  @@ (WithOptional :> {<<1, n, p>> : n \in {0, 5}, p \in Pointers({0, 7})})
  @@ (WithTail :> {<<b, l>> : b \in {0, 1}, l \in OrNil({<<>>, <<5>>, <<0, 200>>})})
  @@ (OptionalTail :> {<<n, l>> : n \in {0, 5}, l \in OrNil({<<>>, <<<<>>, <<5>>>>})})
  @@ (Swapped :> {<<p, q>> : p \in Pointers({5}), q \in Pointers({<<1, <<>>>>})})
  @@ (Nested :> {<<l, <<i>>, <<5>>, r>> : l \in OrNil({<<>>, <<<<5, <<>>>>, <<0, <<7>>>>>>}),
                                           i \in {<<>>, <<128>>}, r \in OrNil({<<>>, <<192>>})})
  @@ (WithCoders :> {<<<<5, b>>, <<<<0, <<>>>>>>, i>> : b \in OrNil(Strings), i \in {<<>>, <<1, 0>>}})
  @@ (AllCoders :> {<<<<5, b>>, <<<<0, <<>>>>>>>> : b \in OrNil(Strings)})
  @@ (Coder(Nested) :> {<<l, <<i>>, <<5>>, r>> : l \in OrNil({<<>>, <<<<5, <<>>>>>>}),
                                                  i \in {<<>>, <<128>>}, r \in OrNil({<<192>>})})
  @@ (IfType :> {IfBytes(<<>>), IfBytes(Long), IfList(<<>>), IfList(<<IfList(<<>>), IfBytes(<<5>>)>>),
                 IfList(<<IfBytes(Long), IfList(<<IfBytes(<<200>>)>>)>>)})

(* All structs of two fields with tags of up to two words, valid or not;   *)
(* one that none of them is the type of is not exported.                   *)
TagFields ==
  {Tagged_(tag, type) :
     tag \in {<<>>, <<"-">>, <<"nil">>, <<"nilList">>, <<"nilString", "optional">>, <<"optional">>,
              <<"tail">>, <<"optional", "tail">>, <<"tail", "optional">>, <<"tail", "-">>},
     type \in {Uint(8), Ptr(Uint(16)), Slice(Uint(16)), Bytes_}}
  \cup {Hidden(Uint(8)), Field([t |-> "chan"])}

(* A tail of bytes is no tail (makeListDecoder): behind an optional field  *)
(* it would be left out when it is nil, and missed by the decoder.         *)
ByteTail(f) == f.type = Bytes_ /\ f.tag = <<"tail">>

TagTypes ==
  {Struct(<<f, g>>) : f \in TagFields, g \in {h \in TagFields : ~ByteTail(h)}} \cup
  {Struct(<<f, g>>) : f \in {h \in TagFields : h.tag = <<>>}, g \in {h \in TagFields : ByteTail(h)}}

FieldSamples(f) ==
  CASE f.type.t = "uint" -> {0, 5}
    [] f.type.t = "ptr" -> {<<5>>} \cup (IF f.tags.nilOK THEN {<<>>} ELSE {})
    [] f.type.t = "slice" -> OrNil({<<>>, <<0, 200>>})
    [] OTHER -> OrNil({<<>>, <<130, 0>>})

TagSamples(type) ==
  LET f == structFields(type)
  IN  CASE Len(f) = 0 -> {<<>>}
        [] Len(f) = 1 -> {<<v>> : v \in FieldSamples(f[1])}
        [] Len(f) = 2 -> {<<v, w>> : v \in FieldSamples(f[1]), w \in FieldSamples(f[2])}

MCTypes == DOMAIN FixedSamples \cup TagTypes

MCSamples ==
  [type \in MCTypes |-> IF type \in DOMAIN FixedSamples THEN FixedSamples[type] ELSE TagSamples(type)]

MCBytes == {0, 5, 128, 129, 130, 192, 193, 194, 195}

FixedInputs ==
  UNION {[1..n -> MCBytes] : n \in 0..4} \cup
  {<<184>>, <<184, 5>>, <<184, 55>>, <<185, 0, 56>>, <<248, 0>>, <<249, 1>>,
   <<184, 56>> \o Long, <<184, 57>> \o Long, <<184, 55>> \o Tail(Long), <<248, 56>> \o Long,
   <<248, 58, 184, 56>> \o Long, <<248, 57, 184, 56>> \o Long, <<185, 0, 56>> \o Long,
   <<248, 56>> \o Long \o <<5>>, <<249, 0, 56>> \o Long, <<131, 1, 0, 0>>, <<131, 0, 1, 0>>}

(* Lists of up to three items for the structs.                             *)
Items == {<<5>>, <<128>>, <<192>>, <<193, 5>>}
TagInputs ==
  {<<192>>} \cup {<<192 + Len(i)>> \o i : i \in Items}
  \cup {<<192 + Len(i \o j)>> \o i \o j : i \in Items, j \in Items}
  \cup {<<193 + Len(i \o j), 5>> \o i \o j : i \in Items, j \in Items}

MCInputs == [type \in MCTypes |-> IF type \in DOMAIN FixedSamples THEN FixedInputs ELSE TagInputs]

(* A struct with nil tags and generated methods.                           *)
NilCoder == Coder(WithPtrs)
NilTypes == {NilCoder}
NilSamples == NilCoder :> FixedSamples[WithPtrs]
NilInputs == NilCoder :> FixedInputs
=============================================================================
