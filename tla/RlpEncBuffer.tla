---------------------------- MODULE RlpEncBuffer ----------------------------
(***************************************************************************)
(* The buffer of the RLP encoder (type encBuffer, src/rlp/encbuffer.go).    *)
(* The size of a list is not known when its header is due, so str holds     *)
(* everything but the list headers and lheads says where they belong; they  *)
(* are merged when the output is taken.  The operators map a buffer to the  *)
(* buffer a method leaves behind.                                           *)
(***************************************************************************)
EXTENDS RlpHead

(* What reset leaves: the contents of a new buffer, too.                   *)
emptyBuffer == [str |-> <<>>, lheads |-> <<>>, lhsize |-> 0]

size(buf) == Len(buf.str) + buf.lhsize

(* Write: b is appended to the output as it is.                            *)
Write(buf, b) == [buf EXCEPT !.str = @ \o b]

writeBool(buf, b) == Write(buf, IF b THEN <<1>> ELSE <<128>>)

writeUint64(buf, i) ==
  Write(buf, IF i = 0 THEN <<128>>
               ELSE IF i < 128 THEN <<i>>
               ELSE <<128 + intsize[i]>> \o putint[i])

encodeStringHeader(buf, n) == Write(buf, puthead(128, 183, n))

(* writeBytes, writeString, the writers of byte arrays, and writeBigInt    *)
(* for the bytes of the integer.                                           *)
writeBytes(buf, b) ==
  IF Len(b) = 1 /\ b[1] < 128 THEN Write(buf, b)
  ELSE Write(encodeStringHeader(buf, Len(b)), b)

(* list opens a list; until listEnd its size is the lhsize it began with.  *)
list(buf) ==
  [buf EXCEPT !.lheads = Append(@, [offset |-> Len(buf.str), size |-> buf.lhsize])]

(* Mutant: headers of lists inside the list are counted twice.             *)
listEnd_Twice(buf, index) ==
  LET n == size(buf) - buf.lheads[index].offset
  IN  [buf EXCEPT !.lheads[index].size = n, !.lhsize = @ + headsize(n)]

listEnd(buf, index) ==
  LET n == size(buf) - buf.lheads[index].offset - buf.lheads[index].size
  IN  [buf EXCEPT !.lheads[index].size = n, !.lhsize = @ + headsize(n)]

(* listhead.encode                                                         *)
encodeHead(head) == puthead(192, 247, head.size)

(* The output up to and with header k; after the last one only str is left. *)
Merged(buf, n) ==
  LET offset(k) == IF k = 0 THEN 0 ELSE buf.lheads[k].offset
      part[k \in 0..n] ==
        IF k = 0 THEN <<>>
        ELSE part[k - 1] \o SubSeq(buf.str, offset(k - 1) + 1, offset(k)) \o encodeHead(buf.lheads[k])
  IN  [out |-> part[n], strpos |-> offset(n)]

(* makeBytes, copyTo and writeTo to a writer that does not fail.           *)
makeBytes(buf) ==
  LET m == Merged(buf, Len(buf.lheads))
  IN  m.out \o SubSeq(buf.str, m.strpos + 1, Len(buf.str))
=============================================================================
