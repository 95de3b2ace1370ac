---------------------------- MODULE MCTypeCache ----------------------------
(***************************************************************************)
(* TypeCache with three keys and all programs whose types refer to at most *)
(* two others: nested, shared, recursive and mutually recursive ones, with *)
(* parts that have no encoding.                                            *)
(***************************************************************************)
EXTENDS TypeCache, TLC

CONSTANTS A, B, C

MCKeys == {A, B, C}
MCRoots == {A, B}

Leaf(good) == [ok |-> good, kids |-> <<>>]
Over(k) == [ok |-> TRUE, kids |-> k]
Both(s) == [side \in Sides |-> s]

Sorts ==
  {Both(Leaf(good)) : good \in BOOLEAN}
  \cup {Both(Over(<<k>>)) : k \in MCKeys} \cup {Both(Over(<<j, k>>)) : j \in MCKeys, k \in MCKeys}
(* A type with one method, EncodeRLP or DecodeRLP, is a leaf on one side.  *)
Coders ==
  {[decoder |-> d, writer |-> w] : d \in {Leaf(TRUE)}, w \in {Leaf(FALSE), Over(<<A>>), Over(<<B>>)}}
  \cup {[decoder |-> d, writer |-> w] : d \in {Leaf(FALSE), Over(<<A>>)}, w \in {Leaf(TRUE)}}

MCShapes ==
  {(A :> a) @@ (B :> b) @@ (C :> c) :
     a \in {Both(Over(<<j, k>>)) : j \in MCKeys, k \in MCKeys}, b \in Sorts, c \in Sorts \cup Coders}
=============================================================================
