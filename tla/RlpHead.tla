------------------------------ MODULE RlpHead ------------------------------
(***************************************************************************)
(* Sizes and headers of RLP values (src/rlp/encode.go).  A slice of bytes  *)
(* is a sequence of numbers 0..255.                                        *)
(***************************************************************************)
EXTENDS Integers, Sequences

(* The least number of bytes that hold i.                                  *)
intsize[i \in Nat] == IF i < 256 THEN 1 ELSE 1 + intsize[i \div 256]

headsize(size) == IF size < 56 THEN 1 ELSE 1 + intsize[size]

(* The bytes of i, most significant one first.                             *)
putint[i \in Nat] == IF i < 256 THEN <<i>> ELSE Append(putint[i \div 256], i % 256)

puthead(smalltag, largetag, size) ==
  IF size < 56 THEN <<smalltag + size>> ELSE <<largetag + intsize[size]>> \o putint[size]

(* The encoding of the string b, and of a list of what content encodes.    *)
EncodedString(b) == IF Len(b) = 1 /\ b[1] < 128 THEN b ELSE puthead(128, 183, Len(b)) \o b

EncodedList(content) == puthead(192, 247, Len(content)) \o content

(* binary.BigEndian.Uint64 of at most eight bytes, with zeros in front of  *)
(* them where there are fewer.                                             *)
BigEndian(b) ==
  LET byte(k) == IF k <= Len(b) THEN b[Len(b) + 1 - k] ELSE 0
  IN  byte(1) + 256 * (byte(2) + 256 * (byte(3) + 256 * (byte(4)
        + 256 * (byte(5) + 256 * (byte(6) + 256 * (byte(7) + 256 * byte(8)))))))
=============================================================================
