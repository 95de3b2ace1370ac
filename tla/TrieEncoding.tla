---------------------------- MODULE TrieEncoding ----------------------------
(***************************************************************************)
(* The three encodings of a trie key (src/trie/trie_encoding.go).          *)
(*                                                                         *)
(*   key bytes  what the caller passes: bytes, 0..255                      *)
(*   hex        one nibble per element and, for a key that ends in a       *)
(*              value, the terminator 16 at the end                        *)
(*   compact    what a short node is stored with: bytes, of which the      *)
(*              first holds the terminator and odd-length flags            *)
(*                                                                         *)
(* Slices are sequences, so the Go index i is the position i + 1.          *)
(***************************************************************************)
EXTENDS Integers, Sequences

Terminator == 16

hasTerm(s) == s # <<>> /\ s[Len(s)] = Terminator

(* s without its last element.                                             *)
Chop(s) == SubSeq(s, 1, Len(s) - 1)

(* nibbles has even length.                                                *)
decodeNibbles(nibbles) ==
  [i \in 1..(Len(nibbles) \div 2) |-> 16 * nibbles[2 * i - 1] + nibbles[2 * i]]

keybytesToHex(str) ==
  [i \in 1..(2 * Len(str) + 1) |->
     IF i = 2 * Len(str) + 1 THEN Terminator
     ELSE IF i % 2 = 1 THEN str[(i + 1) \div 2] \div 16
     ELSE str[i \div 2] % 16]

(* Mutant: the terminator flag is tested after the terminator is cut off.  *)
hexToCompact_LosesTerm(hex) ==
  LET digits == IF hasTerm(hex) THEN Chop(hex) ELSE hex
      odd == Len(digits) % 2 = 1
  IN  <<IF odd THEN 16 + digits[1] ELSE 0>>
        \o decodeNibbles(IF odd THEN Tail(digits) ELSE digits)

hexToCompact(hex) ==
  LET term == IF hasTerm(hex) THEN 32 ELSE 0
      digits == IF hasTerm(hex) THEN Chop(hex) ELSE hex
      odd == Len(digits) % 2 = 1
  IN  <<term + (IF odd THEN 16 + digits[1] ELSE 0)>>
        \o decodeNibbles(IF odd THEN Tail(digits) ELSE digits)

compactToHex(compact) ==
  IF compact = <<>>
  THEN compact
  ELSE LET base == keybytesToHex(compact)
           hex == IF base[1] < 2 THEN Chop(base) ELSE base
           chop == 2 - (base[1] % 2)
       IN  SubSeq(hex, chop + 1, Len(hex))

(* The length of the common prefix of a and b.                             *)
prefixLen(a, b) ==
  LET n == IF Len(b) < Len(a) THEN Len(b) ELSE Len(a)
      differ == {i \in 1..n : a[i] # b[i]}
  IN  IF differ = {} THEN n ELSE (CHOOSE i \in differ : \A j \in differ : i <= j) - 1

prefixConcat(s1, s2) == s1 \o s2
=============================================================================
