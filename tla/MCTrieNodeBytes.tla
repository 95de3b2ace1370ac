-------------------------- MODULE MCTrieNodeBytes --------------------------
(***************************************************************************)
(* TrieNodeBytes for leaves with keys of up to three digits, values around *)
(* the borders of one byte, of a hash, and of a header with a size; and    *)
(* for extensions and full nodes over hashes and embedded nodes of up to   *)
(* two levels.                                                             *)
(***************************************************************************)
EXTENDS TrieNodeBytes

CONSTANT Nibbles  (* Some of the digits 0..15.                             *)

(* A value of n bytes b.                                                   *)
Value(n, b) == valueNode([i \in 1..n |-> b])
MCValueBytes(v) == v
MCValueSize(v) == IF Len(v) = 1 /\ v[1] < 128 THEN 1 ELSE B!headsize(Len(v)) + Len(v)

(* Hashes of the nodes Nil and Value(1, b): the digest is 32 bytes b.      *)
MCDigest(h) == [i \in 1..32 |-> IF h.of = Nil THEN 0 ELSE h.of.v[1]]
Hashes == {hashNode(Nil), hashNode(Value(1, 200))}

Paths(lo, hi) == UNION {[1..n -> Nibbles] : n \in lo..hi}

Leaf(path, v) == rawShortNode(hexToCompact(path \o <<Terminator>>), v)

Values == {Value(1, 5), Value(1, 0), Value(1, 127), Value(1, 128)}
          \cup {Value(n, 200) : n \in {2, 27, 28, 29, 30, 31, 32, 33, 50, 55, 56, 256}}

Leaves == {Leaf(p, v) : p \in Paths(0, 3), v \in Values}

Small(S) == {n \in S : EncodedSize(n) < HashLen}
Big(S) == {n \in S : EncodedSize(n) >= HashLen}

(* Children of full nodes: hashes and embedded leaves with keys of one     *)
(* digit; full nodes that may be embedded.                                 *)
SmallLeaves == Small({Leaf(p, v) : p \in Paths(0, 1), v \in {Value(1, 5), Value(2, 200), Value(27, 200)}})
Items == Hashes \cup SmallLeaves

FullOver(S, slots) == {rawFullNode(ch) : ch \in UNION {[D -> S] : D \in slots}}

(* Children in two or three of the slots 0, 1, 15 and a value in slot 16.  *)
Fulls ==
  FullOver(Items, {{0, 15}, {1, 2}})
  \cup FullOver(SmallLeaves, {{1, 2, 15}})
  \cup {rawFullNode((16 :> v) @@ (i :> c)) : v \in Values, i \in {0, 9, 15}, c \in Items}
  \cup {rawFullNode([i \in 0..15 |-> c]) : c \in Items}
  \cup {rawFullNode((16 :> v) @@ [i \in 0..15 |-> c]) : v \in Values, c \in Items}

SmallFulls == Small(Fulls)

Extensions ==
  {rawShortNode(hexToCompact(p), c) : p \in Paths(1, 3), c \in Hashes}
  \cup {rawShortNode(hexToCompact(p), c) : p \in {<<1>>, <<0, 15>>}, c \in SmallFulls}

Nested ==
  {rawFullNode((0 :> c) @@ (15 :> d)) : c \in SmallFulls \cup Small(Extensions), d \in Hashes}

MCRawNodes == Leaves \cup Fulls \cup Extensions \cup Nested
=============================================================================
