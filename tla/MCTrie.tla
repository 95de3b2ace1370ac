------------------------------- MODULE MCTrie -------------------------------
(***************************************************************************)
(* A small instance of Trie.  The keys are 0x11, 0x12 and 0x1111: one is a *)
(* prefix of another and two part at their last digit, so a full node      *)
(* holds a value, has one child left, or sits below a short node.  The     *)
(* leaf of a small value is embedded in its parent; a value of 30 bytes    *)
(* makes a leaf with a compact key of one byte exactly as long as a hash,  *)
(* so it is hashed.                                                        *)
(***************************************************************************)
EXTENDS Trie

MCKeys == {<<17>>, <<18>>, <<17, 17>>}

(* A value is named by the length of its encoding.                         *)
MCValueSize(v) == v
=============================================================================
