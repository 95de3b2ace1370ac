--------------------------- MODULE TrieNodeBytes ---------------------------
(***************************************************************************)
(* Trie nodes as bytes: how a collapsed node is written with the encoder   *)
(* buffer of the rlp package (src/trie/trie_node_enc.go) and read back with *)
(* its splitting functions (src/trie/trie_node_dec.go).  TrieNode, and the *)
(* modules above it, take a blob to be the collapsed node itself and know  *)
(* only its size; the properties below justify that.                       *)
(***************************************************************************)
EXTENDS TrieNode, SequencesExt

B == INSTANCE RlpEncBuffer
R == INSTANCE RlpRaw

CONSTANTS
  Digest(_),     (* The 32 bytes of a hash.                                *)
  ValueBytes(_), (* The bytes of a value.                                  *)
  RawNodes       (* The collapsed nodes that are stored.                   *)

-----------------------------------------------------------------------------
(* Encoding.                                                               *)

RECURSIVE encode(_, _)

(* The 17 children of a full node.                                         *)
encodeItems(n, buf) ==
  FoldLeft(LAMBDA b, i : encode(Child(n, i - 1), b), buf, [i \in 1..17 |-> i])

ListOf(buf, Items(_)) == B!listEnd(Items(B!list(buf)), Len(buf.lheads) + 1)

encode(n, buf) ==
  CASE n.t = "nil" -> B!Write(buf, <<128>>)
    [] n.t = "value" -> B!writeBytes(buf, ValueBytes(n.v))
    [] n.t = "hash" -> B!writeBytes(buf, Digest(n))
    [] n.t = "rawShort" -> ListOf(buf, LAMBDA b : encode(n.val, B!writeBytes(b, n.key)))
    [] n.t = "rawFull" -> ListOf(buf, LAMBDA b : encodeItems(n, b))

nodeToBytes(n) == B!makeBytes(encode(n, B!emptyBuffer))

-----------------------------------------------------------------------------
(* Decoding.  The nodes it makes hold bytes in place of values and hashes. *)

Got(n, rest) == [n |-> n, rest |-> rest]
Bad == Got(Invalid, <<>>)

RECURSIVE decode(_, _)

(* Mutant: an embedded node may not be longer than 16 bytes.               *)
readRef_Half(buf, r) ==
  IF r.err # "nil" THEN Bad
  ELSE IF r.k = "list"
  THEN IF Len(buf) - Len(r.rest) > HashLen \div 2 THEN Bad ELSE Got(decode(Nil, buf), r.rest)
  ELSE CASE r.k = "string" /\ r.content = <<>> -> Got(Nil, r.rest)
         [] r.k = "string" /\ Len(r.content) = 32 -> Got([t |-> "hash", b |-> r.content], r.rest)
         [] OTHER -> Bad

(* decodeRef, with r what Split makes of buf: an embedded node, no node or *)
(* a hash.                                                                 *)
readRef(buf, r) ==
  IF r.err # "nil" THEN Bad
  ELSE IF r.k = "list"
  THEN IF Len(buf) - Len(r.rest) > HashLen THEN Bad ELSE Got(decode(Nil, buf), r.rest)
  ELSE CASE r.k = "string" /\ r.content = <<>> -> Got(Nil, r.rest)
         [] r.k = "string" /\ Len(r.content) = 32 -> Got([t |-> "hash", b |-> r.content], r.rest)
         [] OTHER -> Bad

ValueOf(b) == [t |-> "value", b |-> b]

(* The node a value or child c belongs to is invalid if c is.              *)
Around(c, n) == IF c.n = Invalid THEN Invalid ELSE n

(* The value of a leaf, r being the split string, or the child of an       *)
(* extension.                                                              *)
LeafOf(h, key, r) ==
  IF r.err # "nil" THEN Invalid ELSE shortNode(key, ValueOf(r.content), h, FALSE)
ExtensionOf(h, key, c) == Around(c, shortNode(key, c.n, h, FALSE))

ShortAt(h, key, rest) ==
  IF hasTerm(key) THEN LeafOf(h, key, R!SplitString(rest))
  ELSE ExtensionOf(h, key, readRef(rest, R!Split(rest)))

(* decodeShort, with r the split key.                                      *)
decodeShort(h, r) ==
  IF r.err # "nil" THEN Invalid ELSE ShortAt(h, compactToHex(r.content), r.rest)

(* decodeFull: a child per slot and, unless it is empty, a value.          *)
WithChild(n, i, c) == [n EXCEPT !.ch = SetChild(n, i, c)]

NextChild(acc, i, c) ==
  IF acc.n = Invalid \/ c.n = Invalid THEN Bad ELSE Got(WithChild(acc.n, i, c.n), c.rest)

WithValue(acc, r) ==
  IF acc.n = Invalid \/ r.err # "nil" THEN Invalid
  ELSE WithChild(acc.n, 16, IF r.content = <<>> THEN Nil ELSE ValueOf(r.content))

FullOf(acc) == WithValue(acc, R!SplitString(acc.rest))

decodeFull(h, elems) ==
  FullOf(FoldLeft(LAMBDA acc, i : NextChild(acc, i - 1, readRef(acc.rest, R!Split(acc.rest))),
                  Got(fullNode(<<>>, h, FALSE), elems), [i \in 1..16 |-> i]))

(* decodeNode, with elems the content of the list and c the number of      *)
(* values in it.                                                           *)
decodeElems(h, elems, c) ==
  CASE c.n = 2 -> decodeShort(h, R!SplitString(elems))
    [] c.n = 17 -> decodeFull(h, elems)
    [] OTHER -> Invalid

decodeList(h, r) ==
  IF r.err # "nil" THEN Invalid ELSE decodeElems(h, r.content, R!CountValues(r.content))

decode(h, buf) == IF buf = <<>> THEN Invalid ELSE decodeList(h, R!SplitList(buf))

-----------------------------------------------------------------------------
(* A node is stored and loaded again.                                      *)

VARIABLES
  raw,    (* The collapsed node.                                           *)
  blob,   (* Its encoding, once it is stored.                              *)
  loaded  (* The node that is decoded from it, or Nil.                     *)

vars == <<raw, blob, loaded>>

Init == raw \in RawNodes /\ blob = <<>> /\ loaded = Nil

Store == blob = <<>> /\ blob' = nodeToBytes(raw) /\ UNCHANGED <<raw, loaded>>

Load ==
  /\ blob # <<>> /\ loaded = Nil
  /\ loaded' = decode(hashNode(raw), blob)
  /\ UNCHANGED <<raw, blob>>

Next == Store \/ Load

Spec == Init /\ [][Next]_vars

-----------------------------------------------------------------------------
(* Properties.                                                             *)

(* n with bytes in place of values and hashes.                             *)
RECURSIVE AsBytes(_)
AsBytes(n) ==
  CASE n.t = "value" -> ValueOf(ValueBytes(n.v))
    [] n.t = "hash" -> [t |-> "hash", b |-> Digest(n)]
    [] n.t = "short" -> [n EXCEPT !.val = AsBytes(@)]
    [] n.t = "full" -> [n EXCEPT !.ch = [i \in DOMAIN @ |-> AsBytes(@[i])]]
    [] OTHER -> n

(* A node that is stored and loaded again is the one that decodeNode of    *)
(* TrieNode says: its key with its terminator, its children in their       *)
(* slots, embedded nodes without a hash; leaves, extensions, hashes and    *)
(* values of any length are never confused.  The size that decides whether *)
(* a node is embedded in its parent is the length of its encoding.         *)
BlobRoundTrip ==
  /\ blob # <<>> => Len(blob) = EncodedSize(raw)
  /\ loaded # Nil => loaded = AsBytes(decodeNode(hashNode(raw), raw))
=============================================================================
