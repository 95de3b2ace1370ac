----------------------------- MODULE RlpStruct -----------------------------
(***************************************************************************)
(* Go types as the RLP package sees them, and struct tags                  *)
(* (src/rlp/internal/rlpstruct/rlpstruct.go).  A type is a record:         *)
(*   t = "uint" (bits), "bool", "string", "bytes" (a slice of bytes),      *)
(*       "bytearray" (n), "bigint" (big.Int), "raw" (RawValue),            *)
(*       "interface", "chan" (any type without an encoding),               *)
(*       "slice" (elem), "array" (elem, n), "ptr" (elem),                  *)
(*       "struct" (fields), "coder" (type: a struct type that has the      *)
(*       methods EncodeRLP and DecodeRLP which rlpgen generates for it)    *)
(* A field of a struct is a record: exported, type, and tag, the words of  *)
(* its rlp tag.                                                            *)
(***************************************************************************)
EXTENDS Integers, Sequences

LOCAL INSTANCE SequencesExt

NoTags == [nilOK |-> FALSE, nilKind |-> "", optional |-> FALSE, tail |-> FALSE, ignored |-> FALSE]

(* DefaultNilValue: the kind of value that stands for a nil pointer to ty. *)
DefaultNilValue(ty) ==
  IF ty.t \in {"uint", "bool", "string", "bytes", "bytearray", "raw"} THEN "string" ELSE "list"

SliceTypes == {"slice", "bytes", "raw"}

-----------------------------------------------------------------------------
(* Tags.  p holds the tags of the words so far, and whether they are valid. *)

Tagged(tags, ok) == [tags |-> tags, ok |-> ok]

NilTagged(field, tags, kind) ==
  Tagged([tags EXCEPT !.nilOK = TRUE, !.nilKind = kind], field.type.t = "ptr")

(* The word w in the tag of a field.                                       *)
parseWord(field, isLast, tags, w) ==
  CASE w = "" -> Tagged(tags, TRUE)
    [] w = "-" -> Tagged([tags EXCEPT !.ignored = TRUE], TRUE)
    [] w = "nil" -> NilTagged(field, tags, IF field.type.t = "ptr"
                                           THEN DefaultNilValue(field.type.elem) ELSE "")
    [] w = "nilString" -> NilTagged(field, tags, "string")
    [] w = "nilList" -> NilTagged(field, tags, "list")
    [] w = "optional" -> Tagged([tags EXCEPT !.optional = TRUE], ~tags.tail)
    [] w = "tail" -> Tagged([tags EXCEPT !.tail = TRUE],
                            isLast /\ ~tags.optional /\ field.type.t \in SliceTypes)
    [] OTHER -> Tagged(tags, FALSE)

parseTag(field, isLast) ==
  FoldLeft(LAMBDA p, w : IF p.ok THEN parseWord(field, isLast, p.tags, w) ELSE p,
           Tagged(NoTags, TRUE), field.tag)

(* lastPublicField, which counts fields that are ignored.                  *)
lastPublicField(all) ==
  CHOOSE last \in 0..Len(all) :
    /\ last # 0 => all[last].exported
    /\ \A i \in DOMAIN all : all[i].exported => i <= last

(* ProcessFields: the fields that are encoded and their tags, provided all *)
(* tags are valid and fields that may be missing are at the end.           *)
ProcessFields(all) ==
  LET parsed == [i \in DOMAIN all |-> parseTag(all[i], i = lastPublicField(all))]
      kept == SelectSeq([i \in DOMAIN all |-> i],
                        LAMBDA i : all[i].exported /\ ~parsed[i].tags.ignored)
      MayBeMissing(k) == parsed[kept[k]].tags.optional \/ parsed[kept[k]].tags.tail
  IN  [fields |-> [k \in DOMAIN kept |-> [type |-> all[kept[k]].type, tags |-> parsed[kept[k]].tags]],
       ok |-> /\ \A i \in DOMAIN all : all[i].exported => parsed[i].ok
              /\ \A k \in 1..(Len(kept) - 1) : MayBeMissing(k) => MayBeMissing(k + 1)]
=============================================================================
