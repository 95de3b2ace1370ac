----------------------------- MODULE RlpEncoder -----------------------------
(***************************************************************************)
(* Clients that encode values at the same time: each takes a buffer from   *)
(* encBufferPool, fills it and takes the output as bytes, through a writer *)
(* that may fail, or as a reader that is read piece by piece and gives the *)
(* buffer back when it comes to the end (src/rlp/encode.go, encbuffer.go); *)
(* or it keeps the buffer in an EncoderBuffer, as the trie does.           *)
(***************************************************************************)
EXTENDS RlpEncBuffer

CONSTANTS
  Clients,   (* Goroutines.                                                *)
  Buffers,   (* encBuffers; the pool makes a new one when it has none.     *)
  Strings,   (* Byte strings that are written.                             *)
  Chunks,    (* Lengths of the slices passed to Read, and taken by writers.*)
  MaxWrites  (* Bound: strings and lists per encoding of each client.      *)

ASSUME EncoderAssumption ==
  /\ "nil" \notin Buffers
  /\ Strings \subseteq Seq(0..255)
  /\ Chunks \subseteq Nat \ {0}
  /\ MaxWrites \in [Clients -> Nat]

VARIABLES
  pool,   (* encBufferPool                                                 *)
  bufs,   (* The contents of each encBuffer.                               *)
  at,     (* What each client is at.                                       *)
  held,   (* The buffer that its encoding or its reader has.               *)
  cl      (* The rest of its state.                                        *)

vars == <<pool, bufs, at, held, cl>>

NoBuf == "nil"

(* A client: open are the indices of the open lists; lhpos, strpos and     *)
(* piece the encReader; room is what the call of Read has left in its      *)
(* slice; got what came out.  frames is history: for the top level and     *)
(* each open list the encoding of what it holds.  writes counts towards    *)
(* MaxWrites.                                                              *)
fresh ==
  [open |-> <<>>, lhpos |-> 1, strpos |-> 0, piece |-> <<>>, room |-> 0, got |-> <<>>,
   frames |-> <<<<>>>>, writes |-> 0]

Init ==
  /\ pool = Buffers
  /\ bufs = [b \in Buffers |-> emptyBuffer]
  /\ at = [c \in Clients |-> "idle"]
  /\ held = [c \in Clients |-> NoBuf]
  /\ cl = [c \in Clients |-> fresh]

buffer(c) == bufs[held[c]]

(* The client is in an EncodeRLP method that encodes with a derived        *)
(* EncoderBuffer ("derived"), in another part of an encoding ("writing"),  *)
(* or it has an EncoderBuffer of its own ("buffered").                     *)
Encoding == {"writing", "derived", "buffered"}

(* What is left in a buffer that goes back to the pool; it stands for any  *)
(* contents.                                                               *)
Stale == [str |-> <<5>>, lheads |-> <<[offset |-> 0, size |-> 1]>>, lhsize |-> 1]

-----------------------------------------------------------------------------
(* Mutant: the buffer is used as it comes out of the pool.                 *)
getEncBuffer_Dirty(c, what) ==
  /\ at[c] \in {"idle", "done"}
  /\ at' = [at EXCEPT ![c] = what]
  /\ \E b \in pool :
       /\ pool' = pool \ {b}
       /\ held' = [held EXCEPT ![c] = b]
       /\ bufs' = bufs
  /\ cl' = [cl EXCEPT ![c] = fresh]

(* Encode, EncodeToBytes, EncodeToReader and NewEncoderBuffer begin with a *)
(* buffer.                                                                 *)
getEncBuffer(c, what) ==
  /\ at[c] \in {"idle", "done"}
  /\ at' = [at EXCEPT ![c] = what]
  /\ \E b \in pool :
       /\ pool' = pool \ {b}
       /\ held' = [held EXCEPT ![c] = b]
       /\ bufs' = [bufs EXCEPT ![b] = emptyBuffer]
  /\ cl' = [cl EXCEPT ![c] = fresh]

(* The client works on its buffer and keeps it.                            *)
Writing(c) == at[c] \in Encoding /\ UNCHANGED <<pool, at, held>>

Top(s) == s[Len(s)]
Pop(s) == SubSeq(s, 1, Len(s) - 1)

WriteBytes(c, b) ==
  /\ Writing(c)
  /\ cl[c].writes < MaxWrites[c]
  /\ bufs' = [bufs EXCEPT ![held[c]] = writeBytes(@, b)]
  /\ cl' = [cl EXCEPT ![c].writes = @ + 1,
                      ![c].frames[Len(cl[c].frames)] = @ \o EncodedString(b)]

(* Write appends bytes that are encoded already, as for a RawValue.        *)
WriteEncoded(c, b) ==
  /\ Writing(c)
  /\ cl[c].writes < MaxWrites[c]
  /\ bufs' = [bufs EXCEPT ![held[c]] = Write(@, b)]
  /\ cl' = [cl EXCEPT ![c].writes = @ + 1,
                      ![c].frames[Len(cl[c].frames)] = @ \o b]

List(c) ==
  /\ Writing(c)
  /\ cl[c].writes < MaxWrites[c]
  /\ bufs' = [bufs EXCEPT ![held[c]] = list(@)]
  /\ cl' = [cl EXCEPT ![c].writes = @ + 1,
                      ![c].open = Append(@, Len(buffer(c).lheads) + 1),
                      ![c].frames = Append(@, <<>>)]

ListEnd(c) ==
  /\ Writing(c)
  /\ cl[c].open # <<>>
  /\ bufs' = [bufs EXCEPT ![held[c]] = listEnd(@, Top(cl[c].open))]
  /\ LET f == cl[c].frames
         outer == Pop(f)
         item == puthead(192, 247, Len(Top(f))) \o Top(f)
     IN  cl' = [cl EXCEPT ![c].open = Pop(@),
                          ![c].frames = [outer EXCEPT ![Len(outer)] = @ \o item]]

(* The buffer goes back to the pool and the client to what.                *)
Put(c, what) ==
  /\ pool' = pool \cup {held[c]}
  /\ held' = [held EXCEPT ![c] = NoBuf]
  /\ at' = [at EXCEPT ![c] = what]
  /\ bufs' = [bufs EXCEPT ![held[c]] = Stale]

(* A writer for a value returns an error, in the middle of a list maybe.   *)
EncodeFails(c) ==
  /\ at[c] \in {"writing", "derived"}
  /\ Put(c, "idle")
  /\ cl' = [cl EXCEPT ![c] = fresh]

Finished(c) == at[c] = "writing" /\ cl[c].open = <<>>

(* EncodeToBytes, and Encode to a writer that takes all of it.             *)
EncodeToBytes(c) ==
  /\ Finished(c)
  /\ Put(c, "done")
  /\ cl' = [cl EXCEPT ![c].got = makeBytes(buffer(c))]

(* Encode to a writer that takes some of the bytes and fails: they are the *)
(* beginning of the output.                                                *)
EncodeToWriterFails(c) ==
  /\ Finished(c)
  /\ Put(c, "failed")
  /\ LET out == makeBytes(buffer(c))
     IN  \E n \in Chunks \cup {0} :
           n < Len(out) /\ cl' = [cl EXCEPT ![c].got = SubSeq(out, 1, n)]

(* The client that saw the error may begin again.                          *)
ClientGivesUp(c) ==
  /\ at[c] = "failed"
  /\ at' = [at EXCEPT ![c] = "idle"]
  /\ cl' = [cl EXCEPT ![c] = fresh]
  /\ UNCHANGED <<pool, bufs, held>>

-----------------------------------------------------------------------------
(* EncoderBuffer.                                                          *)

(* NewEncoderBuffer of a writer that is an encBuffer: it writes to this.   *)
Derive(c) ==
  /\ at[c] = "writing"
  /\ at' = [at EXCEPT ![c] = "derived"]
  /\ UNCHANGED <<pool, bufs, held, cl>>

(* Mutant: Flush does not ask who owns the buffer.                         *)
FlushDerived_Releases(c) ==
  /\ at[c] = "derived"
  /\ at' = [at EXCEPT ![c] = "writing"]
  /\ pool' = pool \cup {held[c]}
  /\ UNCHANGED <<bufs, held, cl>>

(* Flush of a derived buffer neither writes nor releases anything.         *)
FlushDerived(c) ==
  /\ at[c] = "derived"
  /\ at' = [at EXCEPT ![c] = "writing"]
  /\ UNCHANGED <<pool, bufs, held, cl>>

(* Reset, when the client has an EncoderBuffer already.                    *)
Reset(c) ==
  /\ at[c] = "buffered"
  /\ bufs' = [bufs EXCEPT ![held[c]] = emptyBuffer]
  /\ cl' = [cl EXCEPT ![c] = [fresh EXCEPT !.writes = cl[c].writes]]
  /\ UNCHANGED <<pool, at, held>>

Closed(c) == at[c] = "buffered" /\ cl[c].open = <<>>

(* ToBytes and AppendToBytes                                               *)
ToBytes(c) ==
  /\ Closed(c)
  /\ cl' = [cl EXCEPT ![c].got = makeBytes(buffer(c))]
  /\ UNCHANGED <<pool, bufs, at, held>>

(* Flush writes to the destination, if there is one, and releases the      *)
(* buffer whether or not this fails.                                       *)
Flush(c) ==
  /\ Closed(c)
  /\ \/ /\ Put(c, "done")
        /\ cl' = [cl EXCEPT ![c].got = makeBytes(buffer(c))]
     \/ /\ Put(c, "failed")
        /\ cl' = [cl EXCEPT ![c].got = <<>>]
     \/ /\ Put(c, "idle")
        /\ cl' = [cl EXCEPT ![c] = fresh]

-----------------------------------------------------------------------------
(* Readers.                                                                *)

EncodeToReader(c) ==
  /\ Finished(c)
  /\ at' = [at EXCEPT ![c] = "reading"]
  /\ UNCHANGED <<pool, bufs, held, cl>>

(* next: the reader with its next piece; none is left when piece is empty. *)
next(c) ==
  LET r == cl[c]
      buf == buffer(c)
      head == buf.lheads[r.lhpos]
  IN  IF r.piece # <<>> THEN r
      ELSE IF r.lhpos > Len(buf.lheads)
      THEN [r EXCEPT !.piece = SubSeq(buf.str, r.strpos + 1, Len(buf.str)), !.strpos = Len(buf.str)]
      ELSE IF head.offset > r.strpos
      THEN [r EXCEPT !.piece = SubSeq(buf.str, r.strpos + 1, head.offset), !.strpos = head.offset]
      ELSE [r EXCEPT !.piece = encodeHead(head), !.lhpos = @ + 1]

(* Read begins with n bytes of room.                                       *)
Read(c, n) ==
  /\ at[c] = "reading"
  /\ at' = [at EXCEPT ![c] = "copying"]
  /\ cl' = [cl EXCEPT ![c].room = n]
  /\ UNCHANGED <<pool, bufs, held>>

(* Mutant: the loop in Read goes on when the slice is full.                *)
ReadPiece_NeverReturns(c) ==
  LET x == next(c)
      nn == IF x.room < Len(x.piece) THEN x.room ELSE Len(x.piece)
  IN  /\ at[c] = "copying"
      /\ x.piece # <<>>
      /\ cl' = [cl EXCEPT ![c] = [x EXCEPT !.got = @ \o SubSeq(x.piece, 1, nn),
                                           !.piece = SubSeq(@, nn + 1, Len(@)),
                                           !.room = @ - nn]]
      /\ UNCHANGED <<pool, bufs, at, held>>

(* One turn of the loop in Read: as much of a piece as there is room for.  *)
(* It returns when the piece does not fit.                                 *)
ReadPiece(c) ==
  LET x == next(c)
      nn == IF x.room < Len(x.piece) THEN x.room ELSE Len(x.piece)
  IN  /\ at[c] = "copying"
      /\ x.piece # <<>>
      /\ at' = [at EXCEPT ![c] = IF nn < Len(x.piece) THEN "reading" ELSE @]
      /\ cl' = [cl EXCEPT ![c] = [x EXCEPT !.got = @ \o SubSeq(x.piece, 1, nn),
                                           !.piece = SubSeq(@, nn + 1, Len(@)),
                                           !.room = @ - nn]]
      /\ UNCHANGED <<pool, bufs, held>>

(* Read at the end: the reader gives the buffer back and forgets it.       *)
ReadEOF(c) ==
  /\ at[c] = "copying"
  /\ next(c).piece = <<>>
  /\ Put(c, "done")
  /\ cl' = [cl EXCEPT ![c] = next(c)]

-----------------------------------------------------------------------------
ReadStep(c) == (\E n \in Chunks : Read(c, n)) \/ ReadPiece(c) \/ ReadEOF(c)

Next ==
  \E c \in Clients :
    \/ getEncBuffer(c, "writing") \/ getEncBuffer(c, "buffered")
    \/ \E b \in Strings : WriteBytes(c, b) \/ WriteEncoded(c, b)
    \/ List(c) \/ ListEnd(c)
    \/ EncodeFails(c) \/ EncodeToBytes(c)
    \/ EncodeToWriterFails(c) \/ ClientGivesUp(c)
    \/ Derive(c) \/ FlushDerived(c)
    \/ Reset(c) \/ ToBytes(c) \/ Flush(c)
    \/ EncodeToReader(c) \/ ReadStep(c)

Spec == Init /\ [][Next]_vars

(* A client that reads goes on reading, as io.Copy and its like do.        *)
FairSpec == Spec /\ \A c \in Clients : WF_vars(ReadStep(c))

-----------------------------------------------------------------------------
(* Properties.                                                             *)

(* Types of the state.                                                     *)
TypeOK ==
  /\ pool \subseteq Buffers
  /\ at \in [Clients -> Encoding \cup {"idle", "reading", "copying", "done", "failed"}]
  /\ held \in [Clients -> Buffers \cup {NoBuf}]

(* A client has a buffer exactly while it encodes or reads, and a buffer   *)
(* is in the pool or with one client, never with two.                      *)
BufferExclusive ==
  /\ \A c \in Clients : (held[c] # NoBuf) = (at[c] \in Encoding \cup {"reading", "copying"})
  /\ \A c \in Clients : held[c] \notin pool
  /\ \A c, d \in Clients : c # d /\ held[c] # NoBuf => held[c] # held[d]

IsPrefixOf(p, q) == Len(p) <= Len(q) /\ p = SubSeq(q, 1, Len(p))

(* What comes out, whole, in pieces of any size or cut by a failing        *)
(* writer, is the encoding that the definition of RLP gives, and all of it *)
(* when the client was told that this is the end.                          *)
OutputIsEncoding ==
  \A c \in Clients :
    /\ at[c] \in {"buffered", "reading", "copying", "failed"} => IsPrefixOf(cl[c].got, cl[c].frames[1])
    /\ at[c] = "done" => cl[c].got = cl[c].frames[1]

(* The size that EncodeToReader announces is the size of the encoding.     *)
SizeIsLength ==
  \A c \in Clients : Finished(c) \/ Closed(c) => size(buffer(c)) = Len(cl[c].frames[1])

(* A reader comes to the end and gives its buffer back.                    *)
ReaderEnds == \A c \in Clients : (at[c] = "reading") ~> (at[c] = "done")
=============================================================================
