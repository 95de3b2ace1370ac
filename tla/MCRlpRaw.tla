------------------------------ MODULE MCRlpRaw ------------------------------
(***************************************************************************)
(* Integers around the limits of one, two, three and four bytes, and lists *)
(* of up to three bytes, of values that are well formed, not canonical or  *)
(* cut short; longer lists whose size has a byte of its own, as it should, *)
(* should not (249, 0, ...), or is beyond the end.                         *)
(***************************************************************************)
EXTENDS RlpRawClient

MCInts == {0, 1, 127, 128, 255, 256, 65535, 65536, 2147483647}

MCBytes == {0, 5, 128, 129, 184, 193, 194, 248}

Zeros(k) == [i \in 1..k |-> 0]

MCInputs ==
  {<<192 + k>> \o s : k \in 0..3, s \in [1..3 -> MCBytes]} \cup
  {<<>>, <<5>>, <<129, 200>>, <<192>>, <<193>>,
   <<248, 55>> \o Zeros(55), <<248, 56>> \o Zeros(56), <<248, 57>> \o Zeros(56),
   <<249, 0, 56>> \o Zeros(56), <<248, 59, 249, 0, 56>> \o Zeros(56),
   <<248, 57, 184, 55>> \o Zeros(55),
   <<248, 58, 184, 56>> \o Zeros(56), <<248, 59, 248, 56>> \o Zeros(57)}
=============================================================================
