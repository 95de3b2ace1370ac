---------------------------- MODULE RlpRawClient ----------------------------
(***************************************************************************)
(* A client of src/rlp/raw.go and src/rlp/iterator.go that needs no        *)
(* encoder and no stream.  It writes a list of integers with AppendUint64, *)
(* or gets bytes from elsewhere, and takes what it has apart again with    *)
(* the list iterator and SplitUint64.                                      *)
(***************************************************************************)
EXTENDS RlpRaw

CONSTANTS
  Ints,       (* The integers that are written.                            *)
  MaxInts,    (* How many of them at most.                                 *)
  Inputs      (* What comes from elsewhere, well formed or not.            *)

(* An integer has 64 bits.                                                 *)
ASSUME RawAssumption ==
  /\ Ints \subseteq {i \in Nat : intsize[i] <= 8}
  /\ MaxInts \in Nat
  /\ Inputs \subseteq Seq(0..255)

VARIABLES
  at,        (* What the client does next, or how it ended.                *)
  own,       (* The client wrote data itself.                              *)
  asks,      (* The client asks for Err after Next.                        *)
  data,      (* The content of the list, then its encoding.                *)
  written,   (* The integers in it, if the client wrote it.                *)
  it,        (* The iterator.                                              *)
  taken,     (* What Value returned so far, one value behind the other.    *)
  n,         (* How many values these are.                                 *)
  read       (* The integers among them.                                   *)

vars == <<at, own, asks, data, written, it, taken, n, read>>

NoIterator == [data |-> <<>>, next |-> <<>>, err |-> Nil]

Init ==
  /\ \/ at = "writing" /\ own = TRUE /\ data = <<>>
     \/ at = "open" /\ own = FALSE /\ data \in Inputs
  /\ asks \in BOOLEAN
  /\ written = <<>>
  /\ it = NoIterator
  /\ taken = <<>> /\ n = 0 /\ read = <<>>

CallAppendUint64(i) ==
  /\ at = "writing" /\ Len(written) < MaxInts
  /\ data' = AppendUint64(data, i)
  /\ written' = Append(written, i)
  /\ UNCHANGED <<at, own, asks, it, taken, n, read>>

(* The list is complete.  The length of a slice has at most 64 bits.       *)
Wrap ==
  /\ at = "writing" /\ intsize[Len(data)] <= 8
  /\ data' = EncodedList(data)
  /\ at' = "open"
  /\ UNCHANGED <<own, asks, written, it, taken, n, read>>

CallNewListIterator ==
  /\ at = "open"
  /\ LET new == NewListIterator(data)
     IN  IF new.err = Nil THEN it' = new /\ at' = "next"
         ELSE at' = "failed" /\ UNCHANGED it
  /\ UNCHANGED <<own, asks, data, written, taken, n, read>>

(* The value that the iterator has moved to, and what the client makes of  *)
(* it.  Behind an error there is no value: Value is empty.                 *)
TakeValue(value) ==
  LET r == SplitUint64(value)
  IN  /\ taken' = taken \o value
      /\ n' = n + 1
      /\ read' = IF r.err = Nil THEN Append(read, r.x) ELSE read

(* Next returns true as long as there is data.  A client that asks for Err *)
(* does not call it again once there was an error.                         *)
CallNext ==
  /\ at = "next" /\ it.data # <<>> /\ (asks => it.err = Nil)
  /\ it' = IteratorNext(it)
  /\ IF it'.err = Nil THEN TakeValue(it'.next) ELSE UNCHANGED <<taken, n, read>>
  /\ UNCHANGED <<at, own, asks, data, written>>

(* Next returns false, or the client has asked for an error and got one.   *)
EndLoop ==
  /\ at = "next" /\ (it.data = <<>> \/ (asks /\ it.err # Nil))
  /\ at' = "ended"
  /\ UNCHANGED <<own, asks, data, written, it, taken, n, read>>

Reading == CallNewListIterator \/ CallNext \/ EndLoop

Next == (\E i \in Ints : CallAppendUint64(i)) \/ Wrap \/ Reading

Spec == Init /\ [][Next]_vars

-----------------------------------------------------------------------------
(* Properties.                                                             *)

TypeOK ==
  /\ at \in {"writing", "open", "next", "ended", "failed"}
  /\ own \in BOOLEAN /\ asks \in BOOLEAN
  /\ data \in Seq(0..255)
  /\ written \in Seq(Ints)
  /\ it.data \in Seq(0..255) /\ it.next \in Seq(0..255)
  /\ it.err \in {Nil, "ErrUnexpectedEOF", "ErrCanonSize", "ErrValueTooLarge"}
  /\ taken \in Seq(0..255)
  /\ n \in Nat
  /\ read \in Seq(Nat)

Iterating == at \in {"next", "ended"}

(* The values of the iterator, in their order, are the content of the      *)
(* list: Next skips nothing and repeats nothing, and an error leaves the   *)
(* rest where it is.                                                       *)
NothingLost == Iterating => taken \o it.data = SplitList(data).content

(* CountValues counts the values that the iterator yields, and fails with  *)
(* the error that the iterator stops at.                                   *)
CountExact ==
  Iterating /\ (it.data = <<>> \/ it.err # Nil) =>
    CountValues(SplitList(data).content) =
      IF it.err = Nil THEN [n |-> n, err |-> Nil] ELSE [n |-> 0, err |-> it.err]

(* What Value returns is a value and nothing more, and the encoding that   *)
(* the encoder would make of it: readKind accepts no other.                *)
ValueIsEncoding ==
  n > 0 /\ it.err = Nil =>
    LET r == Split(it.next)
    IN  /\ r.err = Nil /\ r.rest = <<>>
        /\ it.next = IF r.k = "list" THEN EncodedList(r.content) ELSE EncodedString(r.content)

(* A list of integers that was written with AppendUint64 opens without an  *)
(* error, and its values are these integers, in their order.               *)
IntegersComeBack ==
  own =>
    /\ at # "failed" /\ it.err = Nil
    /\ read = SubSeq(written, 1, n)
    /\ at = "ended" => n = Len(written)

(* AppendUint64 and the header of a list take the space that IntSize and   *)
(* ListSize say.                                                           *)
SizesAsAnnounced ==
  [][/\ written' # written => Len(data') = Len(data) + IntSize(written'[Len(written')])
     /\ at = "writing" /\ at' = "open" => Len(data') = ListSize(Len(data))]_vars
=============================================================================
