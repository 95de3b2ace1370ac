-------------------------- MODULE RlpStreamClient --------------------------
(***************************************************************************)
(* A client of a Stream (src/rlp/decode.go) that calls its methods in any  *)
(* order, after errors too, and takes the stream for other inputs.         *)
(***************************************************************************)
EXTENDS RlpStream

CONSTANTS
  Inputs,   (* What the reader may hold: sequences of bytes.               *)
  Limits,   (* Input limits passed to NewStream and Reset; 0 is none.      *)
  Lengths   (* Lengths of the buffers passed to ReadBytes.                 *)

ASSUME ClientAssumption ==
  /\ Inputs \subseteq Seq(0..255)
  /\ \A in \in Inputs : Len(in) < Word
  /\ Limits \subseteq 0..(Word - 1)
  /\ Lengths \subseteq Nat

VARIABLES
  s,      (* The Stream.                                                   *)
  res,    (* The error and the value the last call returned.               *)
  ends,   (* History: where each open list ends, by its declared size.     *)
  torn,   (* History: the input ran out inside a value.                    *)
  quota   (* History: remaining after the last Reset.                      *)

vars == <<s, res, ends, torn, quota>>

Init ==
  /\ \E in \in Inputs, limit \in Limits, auto \in BOOLEAN : s = Reset(in, limit, auto, 0)
  /\ quota = s.remaining
  /\ res = [err |-> Nil, val |-> <<>>]
  /\ ends = <<>>
  /\ torn = FALSE

(* What a call r of a method leaves behind.                                *)
Return(r) ==
  /\ s' = r.s
  /\ res' = [err |-> r.err, val |-> r.val]
  /\ torn' = (torn \/ r.err \in {"ErrUnexpectedEOF", "ErrValueTooLarge", "EOF"})
  /\ UNCHANGED quota

CallKind == Return(Kind(s)) /\ UNCHANGED ends

CallBytes == Return(Bytes(s)) /\ UNCHANGED ends

CallReadBytes(n) == Return(ReadBytes(s, n)) /\ UNCHANGED ends

CallRaw == Return(Raw(s)) /\ UNCHANGED ends

CallUint(maxbits) == Return(uint(s, maxbits)) /\ UNCHANGED ends

CallBool == Return(Bool(s)) /\ UNCHANGED ends

CallBigInt == Return(decodeBigInt(s)) /\ UNCHANGED ends

CallList ==
  /\ Return(List(s))
  /\ ends' = IF res'.err = Nil THEN Append(ends, s'.pos + res'.val) ELSE ends

CallListEnd ==
  /\ Return(ListEnd(s))
  /\ ends' = IF res'.err = Nil THEN SubSeq(ends, 1, Len(ends) - 1) ELSE ends

(* The stream is taken from streamPool for another input.                  *)
CallReset(limit, auto) ==
  /\ \E in \in Inputs : s' = Reset(in, limit, auto, s.remaining)
  /\ quota' = s'.remaining
  /\ res' = [err |-> Nil, val |-> <<>>]
  /\ ends' = <<>>
  /\ torn' = FALSE

(* A new stream that pretends to stand at a list of the length limit.      *)
CallNewListStream(limit, auto) ==
  /\ \E in \in Inputs : s' = [Reset(in, limit, auto, 0) EXCEPT !.kind = "list", !.size = limit]
  /\ quota' = s'.remaining
  /\ res' = [err |-> Nil, val |-> <<>>]
  /\ ends' = <<>>
  /\ torn' = FALSE

Next ==
  \/ CallKind \/ CallBytes \/ CallRaw \/ CallBool \/ CallBigInt
  \/ \E n \in Lengths : CallReadBytes(n)
  \/ \E maxbits \in {8, 16, 32, 64} : CallUint(maxbits)
  \/ CallList \/ CallListEnd
  \/ \E limit \in Limits, auto \in BOOLEAN : CallReset(limit, auto) \/ CallNewListStream(limit, auto)

Spec == Init /\ [][Next]_vars

-----------------------------------------------------------------------------
(* Properties.                                                             *)

(* Types of the stream; there is one declared end per open list.           *)
TypeOK ==
  /\ s \in Streams
  /\ s.pos <= Len(s.in)
  /\ ends \in Seq(Nat)
  /\ Len(ends) = Len(s.stack)
  /\ torn \in BOOLEAN

(* Where the part of list i that the stack accounts for ends: at the end   *)
(* of the list inside it, or where the reader is.                          *)
From(i) == IF i < Len(ends) THEN ends[i + 1] ELSE s.pos

(* The stack says, modulo 2^64, how far each open list still goes, through *)
(* any mix of calls, errors and headers read ahead.                        *)
ListAccounting ==
  ~torn => \A i \in DOMAIN ends : s.stack[i] = (ends[i] - From(i)) % Word

(* ListEnd leaves a list exactly where its header said that it ends.       *)
ListEndExact ==
  [][CallListEnd /\ res'.err = Nil /\ ~torn => s.pos = ends[Len(ends)]]_vars

(* A value that Kind announced without an error is not larger than the     *)
(* rest of a limited input, so the buffers that Bytes, Raw and BigInt      *)
(* allocate for it are not either (the comment at decode.go:961).          *)
BufferFits == s.limited /\ s.kind # None /\ s.kinderr = Nil => s.size <= s.remaining

(* With an input limit no more than this many bytes are read, and the      *)
(* stream knows how many more it may read.                                 *)
LimitHonoured == s.limited => s.pos + s.remaining <= quota

(* A list lies inside the list around it: "For non-toplevel values, Stream *)
(* returns ErrElemTooLarge for values that do not fit into the enclosing   *)
(* list" (decode.go:579).                                                  *)
ElemFitsList == \A i \in 1..(Len(ends) - 1) : ends[i + 1] <= ends[i]
=============================================================================
