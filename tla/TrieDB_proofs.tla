--------------------------- MODULE TrieDB_proofs ----------------------------
(***************************************************************************)
(* Theorems about TrieDB, for every set of nodes, every shape of tries and *)
(* every number of readers.                                                *)
(***************************************************************************)
EXTENDS TrieDB, FiniteSetTheorems, SequenceTheorems, TLAPS

-----------------------------------------------------------------------------
(* Facts about the operators of TrieDB.                                    *)

(* How often a child occurs in a node is a number: the count that insert   *)
(* adds to parents.                                                        *)
LEMMA OccurrencesType ==
  ASSUME NEW h \in Hash, NEW c
  PROVE  Occurrences(h, c) \in Nat
<1>1. Kids[h] \in Seq(Hash)
  BY HashAssumption
<1>2. DOMAIN Kids[h] = 1..Len(Kids[h]) /\ Len(Kids[h]) \in Nat
  BY <1>1
<1>3. IsFiniteSet(1..Len(Kids[h]))
  BY <1>2, FS_Interval
<1>4. IsFiniteSet({i \in DOMAIN Kids[h] : Kids[h][i] = c})
  BY <1>2, <1>3, FS_Subset
<1> QED
  BY <1>4, FS_CardinalityType DEF Occurrences

(* The activation of commit for a cached node is well typed.               *)
LEMMA FrameType ==
  ASSUME TypeOK, NEW h \in HashZ
  PROVE  Frame(h) \in Frames
BY HashAssumption DEF TypeOK, Frame, Frames, forGatherChildren, HashZ

(* Entering commit keeps the stack well typed.                             *)
LEMMA EnterType ==
  ASSUME TypeOK, NEW st \in Seq(Frames), NEW h \in HashZ
  PROVE  Enter(st, h) \in Seq(Frames)
<1>1. Frame(h) \in Frames
  BY FrameType
<1> QED
  BY <1>1, AppendProperties DEF Enter

(* The length of a stack without its last element.                         *)
LEMMA FrontLen ==
  ASSUME NEW S, NEW s \in Seq(S), s # <<>>
  PROVE  Len(SubSeq(s, 1, Len(s) - 1)) = Len(s) - 1
<1> DEFINE n == Len(s) - 1
<1>1. n \in Nat
  OBVIOUS
<1>2. \A i \in 1..n : s[i] \in S
  OBVIOUS
<1> HIDE DEF n
<1>3. Len(SubSeq(s, 1, n)) = IF 1 <= n THEN n - 1 + 1 ELSE 0
  BY <1>1, <1>2, SubSeqProperties
<1>4. Len(SubSeq(s, 1, n)) = n
  BY <1>1, <1>3
<1> QED
  BY <1>4 DEF n

(* The innermost activation, and the stack without it.                     *)
LEMMA TopType ==
  ASSUME TypeOK, stack # <<>>
  PROVE  /\ Len(stack) \in Nat \ {0}
         /\ Top \in Frames
         /\ Pop \in Seq(Frames)
         /\ Len(Pop) = Len(stack) - 1
         /\ \A i \in 1..(Len(stack) - 1) : Pop[i] = stack[i]
<1>1. stack \in Seq(Frames) /\ Len(stack) \in Nat \ {0}
  BY EmptySeq, LenProperties DEF TypeOK
<1>2. Top \in Frames
  BY <1>1, ElementOfSeq DEF Top
<1>3. Pop \in Seq(Frames)
  BY <1>1 DEF Pop
<1>4. Len(Pop) = Len(stack) - 1
  BY <1>1, FrontLen DEF Pop
<1>5. \A i \in 1..(Len(stack) - 1) : Pop[i] = stack[i]
  BY <1>1 DEF Pop
<1> QED
  BY <1>1, <1>2, <1>3, <1>4, <1>5

-----------------------------------------------------------------------------
(* Type correctness.                                                       *)

LEMMA InitType == Init => TypeOK
BY DEF Init, TypeOK, HashZ, IdleReader, ReaderStates, Returned, Frames

LEMMA UpdateType ==
  ASSUME TypeOK,
         \/ \E storage \in SUBSET StorageLists, account \in AccountLists \cup {<<>>}, b \in BOOLEAN :
              UpdateStart(storage, account, b)
         \/ UpdateStep
  PROVE  TypeOK'
<1> USE DEF cacheVars, updateVars, commitVars
<1>1. ASSUME NEW storage \in SUBSET StorageLists, NEW account \in AccountLists \cup {<<>>},
             NEW b \in BOOLEAN, UpdateStart(storage, account, b)
      PROVE  TypeOK'
  <2>0. <<>> \in Seq(Hash)
    BY EmptySeq
  <2>1. storage \in SUBSET Seq(Hash) /\ account \in Seq(Hash)
    BY <2>0, HashAssumption, Zenon
  <2>2. links' = account \/ links' = <<>>
    BY <1>1 DEF UpdateStart
  <2> QED
    BY <1>1, <2>0, <2>1, <2>2 DEF TypeOK, UpdateStart
<1>2. ASSUME NextOwner PROVE TypeOK'
  BY <1>2 DEF TypeOK, NextOwner
<1>3. ASSUME Insert PROVE TypeOK'
  <2>1. Head(queue) \in Hash /\ Tail(queue) \in Seq(Hash)
    BY <1>3 DEF TypeOK, Insert
  <2>2. CASE Head(queue) \in dirties
    BY <1>3, <2>1, <2>2 DEF TypeOK, Insert, insert
  <2>3. CASE Head(queue) \notin dirties
    <3> DEFINE h == Head(queue)
    <3>1. \A c \in HashZ : Occurrences(h, c) \in Nat
      BY <2>1, OccurrencesType
    <3>2. /\ dirties' = dirties \cup {h}
          /\ parents' = [c \in HashZ |->
                           IF c \in dirties THEN parents[c] + Occurrences(h, c) ELSE parents[c]]
          /\ flushPrev' = [flushPrev EXCEPT ![h] = newest]
          /\ newest' = h
          /\ children' = children
          /\ flushNext' = flushNext \/ flushNext' = [flushNext EXCEPT ![newest] = h]
          /\ oldest' = h \/ oldest' = oldest
          /\ pc' = pc \/ pc' = "panic"
      BY <1>3, <2>3 DEF Insert, insert
    <3>3. parents' \in [HashZ -> Nat]
      <4>1. \A c \in HashZ : parents[c] \in Nat
        BY DEF TypeOK
      <4>2. \A c \in HashZ :
              (IF c \in dirties THEN parents[c] + Occurrences(h, c) ELSE parents[c]) \in Nat
        BY <3>1, <4>1
      <4> QED
        BY <3>2, <4>2, Zenon
    <3>4. /\ dirties' \in SUBSET HashZ /\ Zero \in dirties'
          /\ flushPrev' \in [HashZ -> HashZ]
          /\ flushNext' \in [HashZ -> HashZ]
          /\ oldest' \in HashZ /\ newest' \in HashZ
      <4>1. h \in HashZ
        BY <2>1 DEF HashZ
      <4> HIDE DEF h
      <4>2. dirties' \in SUBSET HashZ /\ Zero \in dirties'
        BY <3>2, <4>1 DEF TypeOK
      <4>3. flushPrev' \in [HashZ -> HashZ]
        BY <3>2, <4>1 DEF TypeOK
      <4>4. flushNext' \in [HashZ -> HashZ]
        BY <3>2, <4>1 DEF TypeOK
      <4>5. oldest' \in HashZ /\ newest' \in HashZ
        BY <3>2, <4>1 DEF TypeOK
      <4> QED
        BY <4>2, <4>3, <4>4, <4>5
    <3> QED
      BY <1>3, <2>1, <3>2, <3>3, <3>4 DEF TypeOK, Insert
  <2> QED
    BY <2>2, <2>3
<1>4. ASSUME InsertDone PROVE TypeOK'
  BY <1>4 DEF TypeOK, InsertDone
<1>5. ASSUME Link PROVE TypeOK'
  <2>1. /\ Head(links) \in Hash /\ Tail(links) \in Seq(Hash)
        /\ Account[Head(links)] \in HashZ \cup {NotLeaf, BadBlob, EmptyRoot}
    BY <1>5, AccountAssumption DEF TypeOK, Link
  <2> DEFINE leaf == Head(links)
  <2>2. /\ links' = <<>> \/ links' = Tail(links)
        /\ pc' = pc \/ pc' = "idle" \/ pc' = "panic"
    BY <1>5 DEF Link, reference
  <2>3. parents' \in [HashZ -> Nat] /\ children' \in [HashZ -> SUBSET HashZ]
    <3>1. CASE parents' = parents /\ children' = children
      BY <3>1 DEF TypeOK
    <3>2. CASE /\ Account[leaf] \in HashZ
               /\ parents' = [parents EXCEPT ![Account[leaf]] = @ + 1]
               /\ children' = [children EXCEPT ![leaf] = @ \cup {Account[leaf]}]
      BY <2>1, <3>2, SMTT(80) DEF TypeOK, HashZ
    <3> QED
      BY <1>5, <3>1, <3>2 DEF Link, reference
  <2>4. links' \in Seq(Hash)
    BY <2>1, <2>2, EmptySeq, Zenon
  <2>5. pc' \in {"idle", "link", "panic"}
    BY <1>5, <2>2 DEF Link
  <2> QED
    BY <1>5, <2>3, <2>4, <2>5 DEF TypeOK, Link
<1>6. ASSUME UpdateDone PROVE TypeOK'
  BY <1>6 DEF TypeOK, UpdateDone
<1> QED
  BY <1>1, <1>2, <1>3, <1>4, <1>5, <1>6 DEF UpdateStep

(* Taking a node out of the flush-list and out of the cache.               *)
LEMMA CleanerType ==
  ASSUME TypeOK, pc = "replay", NEW h \in Hash, cleanerPut(h)
  PROVE  /\ dirties' \in SUBSET HashZ /\ Zero \in dirties'
         /\ parents' \in [HashZ -> Nat]
         /\ children' \in [HashZ -> SUBSET HashZ]
         /\ flushPrev' \in [HashZ -> HashZ]
         /\ flushNext' \in [HashZ -> HashZ]
         /\ oldest' \in HashZ /\ newest' \in HashZ
         /\ pc' \in {"replay", "panic"}
<1>1. CASE h \notin dirties
  BY <1>1 DEF TypeOK, cleanerPut, cacheVars
<1>2. CASE h \in dirties
  <2>1. h \in HashZ /\ h # Zero /\ Zero \in HashZ
    BY HashAssumption DEF HashZ
  <2>2. dirties' \in SUBSET HashZ /\ Zero \in dirties'
    BY <1>2, <2>1 DEF TypeOK, cleanerPut
  <2>3. parents' \in [HashZ -> Nat] /\ children' \in [HashZ -> SUBSET HashZ]
    <3>1. parents' = [parents EXCEPT ![h] = 0] /\ children' = [children EXCEPT ![h] = {}]
      BY <1>2 DEF cleanerPut
    <3> QED
      BY <2>1, <3>1 DEF TypeOK
  <2>4. /\ flushPrev' \in [HashZ -> HashZ]
        /\ flushNext' \in [HashZ -> HashZ]
        /\ oldest' \in HashZ /\ newest' \in HashZ
    <3>1. unlink(h)
      BY <1>2 DEF cleanerPut
    <3>2. CASE /\ oldest' = flushNext[h]
               /\ flushPrev' = [flushPrev EXCEPT ![flushNext[h]] = Zero, ![h] = Zero]
               /\ flushNext' = [flushNext EXCEPT ![h] = Zero]
               /\ UNCHANGED newest
      BY <2>1, <3>2 DEF TypeOK
    <3>3. CASE /\ newest' = flushPrev[h]
               /\ flushNext' = [flushNext EXCEPT ![flushPrev[h]] = Zero, ![h] = Zero]
               /\ flushPrev' = [flushPrev EXCEPT ![h] = Zero]
               /\ UNCHANGED oldest
      BY <2>1, <3>3 DEF TypeOK
    <3>4. CASE /\ flushNext' = [flushNext EXCEPT ![flushPrev[h]] = flushNext[h], ![h] = Zero]
               /\ flushPrev' = [flushPrev EXCEPT ![flushNext[h]] = flushPrev[h], ![h] = Zero]
               /\ UNCHANGED <<oldest, newest>>
      BY <2>1, <3>4 DEF TypeOK
    <3> QED
      BY <3>1, <3>2, <3>3, <3>4 DEF unlink
  <2>5. pc' \in {"replay", "panic"}
    BY <1>2 DEF cleanerPut, unlink
  <2> QED
    BY <2>2, <2>3, <2>4, <2>5
<1> QED
  BY <1>1, <1>2

LEMMA CommitType ==
  ASSUME TypeOK, (\E h \in CommitArgs : CommitStart(h)) \/ CommitStep
  PROVE  TypeOK'
<1> USE DEF cacheVars, updateVars, commitVars
<1>0. <<>> \in Seq(Hash) /\ <<>> \in Seq(Frames)
  BY EmptySeq
<1>1. ASSUME NEW h \in CommitArgs, CommitStart(h) PROVE TypeOK'
  <2>1. h \in HashZ
    BY HashAssumption DEF HashZ
  <2>2. Enter(<<>>, h) \in Seq(Frames)
    BY <1>0, <2>1, EnterType
  <2> QED
    BY <1>0, <1>1, <2>1, <2>2 DEF TypeOK, CommitStart, HashZ
<1>2. ASSUME WalkExternal PROVE TypeOK'
  <2>1. PICK c \in Top.ext : stack' = Enter(Append(Pop, [Top EXCEPT !.ext = @ \ {c}]), c)
    BY <1>2 DEF WalkExternal
  <2>2. Top \in Frames /\ Pop \in Seq(Frames)
    BY <1>2, TopType DEF WalkExternal
  <2>3. c \in HashZ /\ [Top EXCEPT !.ext = @ \ {c}] \in Frames
    BY <2>1, <2>2 DEF Frames
  <2>4. Append(Pop, [Top EXCEPT !.ext = @ \ {c}]) \in Seq(Frames)
    BY <2>2, <2>3, AppendProperties
  <2>5. stack' \in Seq(Frames)
    BY <2>1, <2>3, <2>4, EnterType
  <2> QED
    BY <1>2, <2>5 DEF TypeOK, WalkExternal
<1>3. ASSUME WalkKid PROVE TypeOK'
  <2>1. stack # <<>> /\ Top.kids # <<>>
    BY <1>3 DEF WalkKid
  <2>2. Top \in Frames /\ Pop \in Seq(Frames)
    BY <2>1, TopType
  <2>3. Head(Top.kids) \in HashZ /\ Tail(Top.kids) \in Seq(Hash)
    BY <2>1, <2>2 DEF Frames, HashZ
  <2>4. [Top EXCEPT !.kids = Tail(@)] \in Frames
    BY <2>2, <2>3 DEF Frames
  <2>5. Append(Pop, [Top EXCEPT !.kids = Tail(@)]) \in Seq(Frames)
    BY <2>2, <2>4, AppendProperties
  <2>6. stack' \in Seq(Frames)
    BY <1>3, <2>3, <2>5, EnterType DEF WalkKid
  <2> QED
    BY <1>3, <2>6 DEF TypeOK, WalkKid
<1>4. ASSUME WalkPut PROVE TypeOK'
  <2>1. Top \in Frames /\ Pop \in Seq(Frames)
    BY <1>4, TopType DEF WalkPut
  <2>2. CASE Top.hash = Zero
    BY <1>4, <2>2 DEF TypeOK, WalkPut
  <2>3. CASE Top.hash # Zero
    <3>1. Top.hash \in Hash /\ Weight[Top.hash] \in Nat
      BY <2>1, <2>3, BatchAssumption DEF Frames, HashZ
    <3>2. batch' \in Seq(Hash) /\ size' \in Nat
      <4>1. \/ batch' = Append(batch, Top.hash) /\ size' = size + Weight[Top.hash]
            \/ batch' = batch /\ size' = size
        BY <1>4, <2>3 DEF WalkPut
      <4>2. batch \in Seq(Hash) /\ Append(batch, Top.hash) \in Seq(Hash)
        BY <3>1, AppendProperties DEF TypeOK
      <4>3. size \in Nat /\ size + Weight[Top.hash] \in Nat
        BY <3>1 DEF TypeOK
      <4> QED
        BY <4>1, <4>2, <4>3, Zenon
    <3>3. /\ stack' = Pop
          /\ pc' \in {"walk", "submit"}
          /\ cont' \in {cont, "walk"}
      BY <1>4, <2>3 DEF WalkPut
    <3> QED
      BY <1>4, <2>1, <3>2, <3>3 DEF TypeOK, WalkPut
  <2> QED
    BY <2>2, <2>3
<1>5. ASSUME WalkDone PROVE TypeOK'
  BY <1>5 DEF TypeOK, WalkDone
<1>6. ASSUME Submit PROVE TypeOK'
  <2>1. Elems(batch) \subseteq Hash
    BY DEF TypeOK, Elems
  <2> QED
    BY <1>6, <2>1 DEF TypeOK, Submit
<1>7. ASSUME SubmitFails PROVE TypeOK'
  <2>1. PICK n \in 0..Len(batch) : disk' = disk \cup {batch[i] : i \in 1..n}
    BY <1>7 DEF SubmitFails
  <2>2. {batch[i] : i \in 1..n} \subseteq Hash
    BY <2>1 DEF TypeOK
  <2>3. disk' \in SUBSET Hash
    BY <2>1, <2>2 DEF TypeOK
  <2> QED
    BY <1>0, <1>7, <2>3 DEF TypeOK, SubmitFails, HashZ
<1>8. ASSUME Replay PROVE TypeOK'
  <2>1. Head(batch) \in Hash /\ Tail(batch) \in Seq(Hash)
    BY <1>8 DEF TypeOK, Replay
  <2> QED
    BY <1>8, <2>1, CleanerType DEF TypeOK, Replay
<1>9. ASSUME ReplayDone PROVE TypeOK'
  <2>1. target' \in HashZ /\ committed' \in SUBSET Hash
    BY <1>9 DEF TypeOK, ReplayDone, HashZ
  <2>2. pc' \in {"idle", "walk"}
    BY <1>9 DEF TypeOK, ReplayDone
  <2> QED
    BY <1>9, <2>1, <2>2 DEF TypeOK, ReplayDone
<1> QED
  BY <1>1, <1>2, <1>3, <1>4, <1>5, <1>6, <1>7, <1>8, <1>9 DEF CommitStep

LEMMA ReadType ==
  ASSUME TypeOK,
         \/ \E g \in Readers, h \in NodeArgs : ReadBegin(g, "node", h)
         \/ \E g \in Readers, h \in BlobArgs : ReadBegin(g, "blob", h)
         \/ \E g \in Readers : ReadCache(g) \/ ReadDisk(g)
  PROVE  TypeOK'
<1> USE DEF cacheVars, updateVars, commitVars
<1>1. ASSUME NEW g \in Readers, NEW h \in HashZ, NEW api \in {"node", "blob"}, ReadBegin(g, api, h)
      PROVE  TypeOK'
  <2>1. rd' \in [Readers -> ReaderStates]
    <3> DEFINE k == h \in Available
               x == IF api = "blob" /\ h = Zero THEN "missing" ELSE "cache"
               r == [pc |-> x, api |-> api, hash |-> h, known |-> k]
    <3>1. rd' = [rd EXCEPT ![g] = r]
      BY <1>1 DEF ReadBegin
    <3>2. x \in {"missing", "cache"}
      OBVIOUS
    <3>3. k \in BOOLEAN
      OBVIOUS
    <3> HIDE DEF k, x
    <3>4. r \in ReaderStates
      BY <1>1, <3>2, <3>3 DEF ReaderStates, Returned
    <3> HIDE DEF r
    <3> QED
      BY <3>1, <3>4 DEF TypeOK
  <2> QED
    BY <1>1, <2>1 DEF TypeOK, ReadBegin
<1>2. ASSUME NEW g \in Readers, ReadCache(g) PROVE TypeOK'
  <2>1. rd' \in [Readers -> ReaderStates]
    <3>1. PICK x \in {"disk", "panic", "found"} : rd' = [rd EXCEPT ![g].pc = x]
      BY <1>2 DEF ReadCache
    <3> QED
      BY <3>1, ZenonT(80) DEF TypeOK, ReaderStates, Returned
  <2> QED
    BY <1>2, <2>1 DEF TypeOK, ReadCache
<1>3. ASSUME NEW g \in Readers, ReadDisk(g) PROVE TypeOK'
  <2>1. rd' \in [Readers -> ReaderStates]
    <3>1. PICK x \in {"found", "missing"} : rd' = [rd EXCEPT ![g].pc = x]
      BY <1>3 DEF ReadDisk
    <3> QED
      BY <3>1 DEF TypeOK, ReaderStates, Returned
  <2> QED
    BY <1>3, <2>1 DEF TypeOK, ReadDisk
<1> QED
  BY <1>1, <1>2, <1>3, ReaderAssumption

LEMMA CrashType == TypeOK /\ Crash => TypeOK'
BY DEF TypeOK, Crash, HashZ, IdleReader, ReaderStates, Returned, Frames

(* The state of the database, of its mutator and of its readers is well    *)
(* typed in every reachable state.                                         *)
THEOREM TypeCorrect == Spec => []TypeOK
<1>1. Init => TypeOK
  BY InitType
<1>2. TypeOK /\ [Next]_vars => TypeOK'
  <2> SUFFICES ASSUME TypeOK, [Next]_vars PROVE TypeOK'
    OBVIOUS
  <2>1. CASE Next
    BY <2>1, UpdateType, CommitType, ReadType, CrashType DEF Next
  <2>2. CASE UNCHANGED vars
    BY <2>2 DEF TypeOK, vars, cacheVars, updateVars, commitVars
  <2> QED
    BY <2>1, <2>2
<1> QED
  BY <1>1, <1>2, PTL DEF Spec

-----------------------------------------------------------------------------
(* Readers.  A node that is uncached is on disk, so a lookup finds at any  *)
(* time what it found before.                                              *)

(* What the batch holds during the replay has been submitted.              *)
ReplayOnDisk == pc = "replay" => Elems(batch) \subseteq disk

(* A reader that looks for a known node can still find it in what it has   *)
(* not looked at.                                                          *)
ReadInv ==
  \A g \in Readers : rd[g].known =>
    /\ rd[g].pc = "cache" => rd[g].hash \in Available
    /\ rd[g].pc = "disk" => rd[g].hash \in disk
    /\ rd[g].pc # "missing"

LEMMA ReplayOnDiskStep ==
  ASSUME TypeOK, ReplayOnDisk, [Next]_vars
  PROVE  ReplayOnDisk'
<1> USE DEF cacheVars, updateVars, commitVars
<1>1. ASSUME Submit PROVE ReplayOnDisk'
  BY <1>1 DEF Submit, ReplayOnDisk, Elems
<1>2. ASSUME Replay PROVE ReplayOnDisk'
  <2>1. Tail(batch) \in Seq(Hash) /\ batch \in Seq(Hash) /\ batch # <<>>
    BY <1>2 DEF TypeOK, Replay
  <2>2. Elems(Tail(batch)) \subseteq Elems(batch)
    BY <2>1 DEF Elems
  <2> QED
    BY <1>2, <2>2 DEF Replay, ReplayOnDisk, Elems
<1>3. ASSUME pc' # "replay" PROVE ReplayOnDisk'
  BY <1>3 DEF ReplayOnDisk
<1>4. ASSUME UNCHANGED <<pc, batch, disk>> PROVE ReplayOnDisk'
  BY <1>4 DEF ReplayOnDisk, Elems
<1>5. ASSUME UpdateStep PROVE pc' # "replay"
  BY <1>5 DEF UpdateStep, NextOwner, Insert, insert, InsertDone, Link, reference, UpdateDone
<1>6. ASSUME WalkExternal \/ WalkKid \/ WalkPut \/ WalkDone \/ SubmitFails \/ ReplayDone
      PROVE  pc' # "replay"
  BY <1>6 DEF WalkExternal, WalkKid, WalkPut, WalkDone, SubmitFails, ReplayDone, TypeOK
<1>7. ASSUME NEW h \in CommitArgs, CommitStart(h) PROVE pc' # "replay"
  BY <1>7 DEF CommitStart
<1>8. ASSUME NEW a, NEW b, NEW c, UpdateStart(a, b, c) PROVE pc' # "replay"
  BY <1>8 DEF UpdateStart
<1>9. ASSUME NEW g, NEW api, NEW h, ReadBegin(g, api, h) \/ ReadCache(g) \/ ReadDisk(g)
      PROVE  UNCHANGED <<pc, batch, disk>>
  BY <1>9 DEF ReadBegin, ReadCache, ReadDisk
<1>10. ASSUME Crash PROVE pc' # "replay"
  BY <1>10 DEF Crash
<1>11. ASSUME UNCHANGED vars PROVE UNCHANGED <<pc, batch, disk>>
  BY <1>11 DEF vars
<1> QED
  BY <1>1, <1>2, <1>3, <1>4, <1>5, <1>6, <1>7, <1>8, <1>9, <1>10, <1>11 DEF Next, CommitStep

(* Only a crash takes a node away.                                         *)
LEMMA AvailableGrows ==
  ASSUME TypeOK, ReplayOnDisk, [Next]_vars, ~Crash
  PROVE  Available \subseteq Available' /\ disk \subseteq disk'
<1> USE DEF cacheVars, updateVars, commitVars
<1>1. ASSUME dirties \subseteq dirties', disk \subseteq disk'
      PROVE  Available \subseteq Available' /\ disk \subseteq disk'
  BY <1>1 DEF Available, Live
<1>2. ASSUME Replay PROVE Available \subseteq Available' /\ disk \subseteq disk'
  <2>1. batch # <<>> /\ pc = "replay" /\ disk' = disk /\ cleanerPut(Head(batch))
    BY <1>2 DEF Replay
  <2>2. Head(batch) \in disk
    BY <2>1 DEF ReplayOnDisk, TypeOK, Elems
  <2>3. dirties' = dirties \/ dirties' = dirties \ {Head(batch)}
    BY <2>1 DEF cleanerPut
  <2> QED
    BY <2>1, <2>2, <2>3 DEF Available, Live
<1>3. ASSUME UpdateStep PROVE dirties \subseteq dirties' /\ disk \subseteq disk'
  BY <1>3 DEF UpdateStep, NextOwner, Insert, insert, InsertDone, Link, UpdateDone
<1>4. ASSUME CommitStep, ~Replay PROVE dirties \subseteq dirties' /\ disk \subseteq disk'
  BY <1>4 DEF CommitStep, WalkExternal, WalkKid, WalkPut, WalkDone, Submit, SubmitFails, ReplayDone
<1>5. ASSUME NEW h \in CommitArgs, CommitStart(h) PROVE dirties \subseteq dirties' /\ disk \subseteq disk'
  BY <1>5 DEF CommitStart
<1>6. ASSUME NEW a, NEW b, NEW c, UpdateStart(a, b, c)
      PROVE  dirties \subseteq dirties' /\ disk \subseteq disk'
  BY <1>6 DEF UpdateStart
<1>7. ASSUME NEW g, NEW api, NEW h, ReadBegin(g, api, h) \/ ReadCache(g) \/ ReadDisk(g)
      PROVE  dirties \subseteq dirties' /\ disk \subseteq disk'
  BY <1>7 DEF ReadBegin, ReadCache, ReadDisk
<1>8. ASSUME UNCHANGED vars PROVE dirties \subseteq dirties' /\ disk \subseteq disk'
  BY <1>8 DEF vars
<1> QED
  BY <1>1, <1>2, <1>3, <1>4, <1>5, <1>6, <1>7, <1>8 DEF Next

LEMMA ReadInvStep ==
  ASSUME TypeOK, ReplayOnDisk, ReadInv, [Next]_vars
  PROVE  ReadInv'
<1> USE DEF cacheVars, updateVars, commitVars
<1>1. ASSUME UNCHANGED rd, ~Crash PROVE ReadInv'
  BY <1>1, AvailableGrows DEF ReadInv
<1>2. ASSUME Crash PROVE ReadInv'
  BY <1>2 DEF Crash, ReadInv, IdleReader
<1>3. ASSUME NEW g \in Readers, NEW api \in {"node", "blob"}, NEW h \in HashZ, ReadBegin(g, api, h)
      PROVE  ReadInv'
  <2>1. Available' = Available /\ disk' = disk
    BY <1>3 DEF ReadBegin, Available, Live
  <2>2. Zero \notin Available
    BY HashAssumption DEF TypeOK, Available, Live
  <2>3. \A k \in Readers : k # g => rd'[k] = rd[k]
    BY <1>3 DEF ReadBegin, TypeOK
  <2>4. /\ rd'[g].hash = h
        /\ rd'[g].known <=> h \in Available
        /\ rd'[g].pc = "cache" \/ (rd'[g].pc = "missing" /\ h = Zero)
    BY <1>3 DEF ReadBegin, TypeOK
  <2> QED
    BY <2>1, <2>2, <2>3, <2>4 DEF ReadInv
<1>4. ASSUME NEW g \in Readers, ReadCache(g) PROVE ReadInv'
  <2>1. Available' = Available /\ disk' = disk
    BY <1>4 DEF ReadCache, Available, Live
  <2>2. \A k \in Readers : k # g => rd'[k] = rd[k]
    BY <1>4 DEF ReadCache, TypeOK
  <2>3. /\ rd'[g].hash = rd[g].hash
        /\ rd'[g].known = rd[g].known
        /\ rd'[g].pc = "disk" => rd[g].hash \notin dirties
        /\ rd'[g].pc \in {"disk", "panic", "found"}
    BY <1>4 DEF ReadCache, TypeOK, ReaderStates
  <2>4. rd[g].known => rd[g].hash \in Available
    BY <1>4 DEF ReadCache, ReadInv
  <2> QED
    BY <2>1, <2>2, <2>3, <2>4 DEF ReadInv, Available, Live
<1>5. ASSUME NEW g \in Readers, ReadDisk(g) PROVE ReadInv'
  <2>1. Available' = Available /\ disk' = disk
    BY <1>5 DEF ReadDisk, Available, Live
  <2>2. \A k \in Readers : k # g => rd'[k] = rd[k]
    BY <1>5 DEF ReadDisk, TypeOK
  <2>3. /\ rd'[g].known = rd[g].known
        /\ rd'[g].pc = IF rd[g].hash \in disk THEN "found" ELSE "missing"
    BY <1>5 DEF ReadDisk, TypeOK, ReaderStates
  <2>4. rd[g].known => rd[g].hash \in disk
    BY <1>5 DEF ReadDisk, ReadInv
  <2> QED
    BY <2>1, <2>2, <2>3, <2>4 DEF ReadInv
<1>6. ASSUME UpdateStep \/ CommitStep PROVE UNCHANGED rd
  BY <1>6 DEF UpdateStep, NextOwner, Insert, InsertDone, Link, UpdateDone, CommitStep,
              WalkExternal, WalkKid, WalkPut, WalkDone, Submit, SubmitFails, Replay, ReplayDone
<1>7. ASSUME NEW h, CommitStart(h) PROVE UNCHANGED rd
  BY <1>7 DEF CommitStart
<1>8. ASSUME NEW a, NEW b, NEW c, UpdateStart(a, b, c) PROVE UNCHANGED rd
  BY <1>8 DEF UpdateStart
<1>9. ASSUME UNCHANGED vars PROVE UNCHANGED rd
  BY <1>9 DEF vars
<1> QED
  BY <1>1, <1>2, <1>3, <1>4, <1>5, <1>6, <1>7, <1>8, <1>9, ReaderAssumption DEF Next

(* A reader that asks for an available node gets it, however its two looks *)
(* (at the cache, then at the disk) interleave with Update and Commit, and *)
(* even if errors of batch.Put are dropped or batch.Submit fails.          *)
THEOREM ReadsNeverMiss == Spec => []ReadNeverMisses
<1>1. Init => ReplayOnDisk /\ ReadInv
  BY DEF Init, ReplayOnDisk, ReadInv, IdleReader
<1>2. TypeOK /\ ReplayOnDisk /\ ReadInv /\ [Next]_vars => (ReplayOnDisk /\ ReadInv)'
  BY ReplayOnDiskStep, ReadInvStep
<1>3. ReadInv => ReadNeverMisses
  BY DEF ReadInv, ReadNeverMisses
<1> QED
  BY <1>1, <1>2, <1>3, TypeCorrect, PTL DEF Spec

-----------------------------------------------------------------------------
(***************************************************************************)
(* The flush-list, for every history of calls, errors and crashes: the     *)
(* list is never broken, and the cache entries that insert and cleaner.Put *)
(* patch are there.                                                        *)
(***************************************************************************)

-----------------------------------------------------------------------------
(* The inductive invariant.                                                *)

(* The flush-list from oldest to newest is l, of length n: it holds every  *)
(* live node once, and it is linked in both directions.  That the nodes    *)
(* are linked to each other as FlushListLinked says would not be enough:   *)
(* a ring of live nodes beside the list satisfies it, too.                 *)
IsFlushList(l, n) ==
  /\ l \in [1..n -> Hash]
  /\ Live = {l[i] : i \in 1..n}
  /\ \A i, j \in 1..n : l[i] = l[j] => i = j
  /\ IF n = 0 THEN oldest = Zero ELSE oldest = l[1] /\ newest = l[n] /\ flushNext[l[n]] = Zero
  /\ \A i \in 1..(n - 1) : flushNext[l[i]] = l[i + 1] /\ flushPrev[l[i + 1]] = l[i]

(* In l a child that is not on disk comes before its parents.              *)
ChildrenOlder(l, n) ==
  \A i, j \in 1..n : l[j] \in Elems(Kids[l[i]]) \ disk => j < i

(* A node that is not cached has left nothing behind: the cachedNode that  *)
(* insert makes for it is new.                                             *)
FreshEntries ==
  \A h \in HashZ \ Live : /\ children[h] = {} /\ flushNext[h] = Zero
                          /\ h # Zero => parents[h] = 0

(* The leaves that Update still has to link are cached, or they come in    *)
(* the node set that is inserted last.                                     *)
LinksLive ==
  /\ pc = "insert" => Elems(links) \subseteq Live \cup Elems(queue) \cup Elems(final)
  /\ pc = "link" => Elems(links) \subseteq Live

IsLinked == \E n \in Nat : \E l \in [1..n -> Hash] : IsFlushList(l, n)

ListInv == FreshEntries /\ IsLinked /\ LinksLive

-----------------------------------------------------------------------------
(* Sequences.                                                              *)

LEMMA ElemsHeadTail ==
  ASSUME NEW S, NEW s \in Seq(S), s # <<>>
  PROVE  /\ Elems(s) = {Head(s)} \cup Elems(Tail(s))
         /\ Elems(s) \subseteq S
<1>1. /\ Len(s) \in Nat \ {0} /\ DOMAIN s = 1..Len(s)
      /\ \A i \in 1..Len(s) : s[i] \in S
      /\ Head(s) = s[1]
  OBVIOUS
<1>2. /\ Tail(s) \in Seq(S) /\ Len(Tail(s)) = Len(s) - 1
      /\ \A i \in 1..Len(Tail(s)) : Tail(s)[i] = s[i + 1]
  BY HeadTailProperties
<1>3. DOMAIN Tail(s) = 1..(Len(s) - 1)
  BY <1>2
<1>4. \A i \in 1..Len(s) : i = 1 \/ (i - 1 \in 1..(Len(s) - 1) /\ s[i] = Tail(s)[i - 1])
  BY <1>1, <1>2
<1>5. \A i \in 1..(Len(s) - 1) : i + 1 \in 1..Len(s) /\ Tail(s)[i] = s[i + 1]
  BY <1>1, <1>2
<1>6. ASSUME NEW x \in Elems(s) PROVE x \in {Head(s)} \cup Elems(Tail(s)) /\ x \in S
  BY <1>1, <1>3, <1>4, ZenonT(80) DEF Elems
<1>7. ASSUME NEW x \in Elems(Tail(s)) PROVE x \in Elems(s)
  BY <1>1, <1>3, <1>5 DEF Elems
<1>8. Head(s) \in Elems(s)
  BY <1>1 DEF Elems
<1> QED
  BY <1>6, <1>7, <1>8

LEMMA ElemsEmpty == Elems(<<>>) = {}
BY DEF Elems

-----------------------------------------------------------------------------
(* insert and cleaner.Put on a flush-list l of length n.                   *)

(* The list with h as its newest node, and without its k-th node.          *)
Longer(l, n, h) == [i \in 1..(n + 1) |-> IF i = n + 1 THEN h ELSE l[i]]
Shorter(l, n, k) == [i \in 1..(n - 1) |-> IF i < k THEN l[i] ELSE l[i + 1]]

(* A new node becomes the newest one, and the node it is linked to is      *)
(* cached.                                                                 *)
LEMMA InsertList ==
  ASSUME TypeOK, FreshEntries, NEW n \in Nat, NEW l, IsFlushList(l, n),
         NEW h \in Hash, h \notin dirties, insert(h)
  PROVE  IsFlushList(Longer(l, n, h), n + 1)' /\ FreshEntries' /\ pc' = pc
<1> DEFINE m == Longer(l, n, h)
<1>1. h # Zero /\ h \in HashZ /\ h \notin Live /\ Zero \notin Live /\ Live' = Live \cup {h}
  BY HashAssumption DEF HashZ, Live, insert
<1>2. /\ flushPrev' = [flushPrev EXCEPT ![h] = newest]
      /\ newest' = h
      /\ children' = children
  BY DEF insert
<1>3. flushNext[h] = Zero /\ \A x \in Hash : x \in HashZ /\ x # Zero
  BY <1>1, HashAssumption DEF FreshEntries, HashZ
<1>4. /\ l \in [1..n -> Hash]
      /\ Live = {l[i] : i \in 1..n}
      /\ \A i, j \in 1..n : l[i] = l[j] => i = j
      /\ \A i \in 1..(n - 1) : flushNext[l[i]] = l[i + 1] /\ flushPrev[l[i + 1]] = l[i]
  BY DEF IsFlushList
<1>5. /\ \A i \in 1..n : m[i] = l[i] /\ l[i] # h /\ l[i] \in Hash /\ l[i] \in Live
      /\ m[n + 1] = h
      /\ m \in [1..(n + 1) -> Hash]
  BY <1>1, <1>4 DEF Longer
<1>6. Live' = {m[i] : i \in 1..(n + 1)}
  <2>1. ASSUME NEW x \in Live' PROVE \E i \in 1..(n + 1) : x = m[i]
    BY <1>1, <1>4, <1>5
  <2>2. \A i \in 1..(n + 1) : m[i] \in Live'
    BY <1>1, <1>4, <1>5
  <2> HIDE DEF m
  <2> QED
    BY <2>1, <2>2
<1>7. \A i, j \in 1..(n + 1) : m[i] = m[j] => i = j
  BY <1>4, <1>5
<1> HIDE DEF m
<1>8. /\ oldest' = m[1] /\ newest' = m[n + 1] /\ flushNext'[m[n + 1]] = Zero /\ pc' = pc
      /\ \A i \in 1..n : flushNext'[m[i]] = m[i + 1] /\ flushPrev'[m[i + 1]] = m[i]
      /\ \A x \in HashZ \ Live' : flushNext'[x] = flushNext[x]
  <2>1. CASE n = 0
    <3>1. oldest' = h /\ flushNext' = flushNext /\ pc' = pc
      BY <2>1 DEF IsFlushList, insert
    <3> QED
      BY <1>2, <1>3, <1>5, <2>1, <3>1
  <2>2. CASE n # 0
    <3>1. oldest = l[1] /\ newest = l[n] /\ flushNext[l[n]] = Zero
      BY <2>2 DEF IsFlushList
    <3>2. oldest # Zero /\ newest \in dirties /\ newest \in Live
      BY <1>1, <1>3, <1>5, <2>2, <3>1 DEF Live
    <3>3. oldest' = oldest /\ flushNext' = [flushNext EXCEPT ![newest] = h] /\ pc' = pc
      BY <3>2 DEF insert
    <3>4. \A x \in HashZ : flushNext'[x] = IF x = newest THEN h ELSE flushNext[x]
      BY <1>1, <3>3 DEF TypeOK
    <3>5. \A x \in HashZ : flushPrev'[x] = IF x = h THEN newest ELSE flushPrev[x]
      BY <1>1, <1>2 DEF TypeOK
    <3>6. \A i \in 1..(n - 1) : l[i] # newest /\ flushNext'[m[i]] = m[i + 1] /\ flushPrev'[m[i + 1]] = m[i]
      BY <1>3, <1>4, <1>5, <2>2, <3>1, <3>4, <3>5
    <3>7. flushNext'[m[n]] = m[n + 1] /\ flushPrev'[m[n + 1]] = m[n]
      BY <1>1, <1>3, <1>5, <2>2, <3>1, <3>4, <3>5
    <3>8. flushNext'[m[n + 1]] = Zero
      BY <1>1, <1>3, <1>5, <2>2, <3>1, <3>4
    <3>9. \A i \in 1..n : i \in 1..(n - 1) \/ i = n
      OBVIOUS
    <3> QED
      BY <1>1, <1>2, <1>5, <2>2, <3>1, <3>2, <3>3, <3>4, <3>6, <3>7, <3>8, <3>9
  <2> QED
    BY <2>1, <2>2
<1>9. IsFlushList(m, n + 1)'
  BY <1>5, <1>6, <1>7, <1>8 DEF IsFlushList
<1>10. \A x \in Hash \ Live' : parents'[x] = parents[x]
  <2>1. \A x \in HashZ : parents'[x] = IF x \in dirties THEN parents[x] + Occurrences(h, x) ELSE parents[x]
    BY DEF insert
  <2>2. \A x \in Hash \ Live' : x \in HashZ /\ x \notin dirties
    BY <1>1, HashAssumption DEF Live, HashZ
  <2> QED
    BY <2>1, <2>2
<1>11. FreshEntries'
  BY <1>1, <1>2, <1>8, <1>10 DEF FreshEntries, HashZ
<1> QED
  BY <1>8, <1>9, <1>11 DEF m

(* Taking the k-th node out of the list, at its old end, at its new end or *)
(* in between; the neighbours it had are cached.                           *)
LEMMA UnlinkList ==
  ASSUME TypeOK, FreshEntries, NEW n \in Nat, NEW l, IsFlushList(l, n), NEW k \in 1..n,
         NEW h \in Hash, h = l[k], unlink(h), dirties' = dirties \ {h}
  PROVE  /\ IsFlushList(Shorter(l, n, k), n - 1)'
         /\ \A x \in HashZ \ Live' : flushNext'[x] = Zero
         /\ pc' = pc
<1> DEFINE m == Shorter(l, n, k)
<1>1. /\ l \in [1..n -> Hash]
      /\ Live = {l[i] : i \in 1..n}
      /\ \A i, j \in 1..n : l[i] = l[j] => i = j
      /\ \A i \in 1..(n - 1) : flushNext[l[i]] = l[i + 1] /\ flushPrev[l[i + 1]] = l[i]
      /\ oldest = l[1] /\ newest = l[n] /\ flushNext[l[n]] = Zero
  BY DEF IsFlushList
<1>2. /\ h # Zero /\ h \in HashZ /\ h \in Live /\ Zero \notin Live /\ Zero \in HashZ
      /\ Live' = Live \ {h} /\ dirties = Live \cup {Zero}
      /\ \A x \in Hash : x \in HashZ /\ x # Zero
  BY <1>1, HashAssumption DEF HashZ, Live, TypeOK
<1>3. /\ flushNext \in [HashZ -> HashZ] /\ flushPrev \in [HashZ -> HashZ]
      /\ \A x \in HashZ \ Live : flushNext[x] = Zero
  BY DEF TypeOK, FreshEntries
<1>4. /\ \A i \in 1..n : l[i] \in Hash /\ l[i] \in HashZ /\ l[i] \in Live
      /\ \A i \in 1..(n - 1) : m[i] = IF i < k THEN l[i] ELSE l[i + 1]
      /\ m \in [1..(n - 1) -> Hash]
  BY <1>1, <1>2 DEF Shorter
<1>5. \A i \in 1..(n - 1) : m[i] \in Live' /\ m[i] \in HashZ /\ m[i] # h
  BY <1>1, <1>2, <1>4
<1>6. Live' = {m[i] : i \in 1..(n - 1)}
  <2>1. ASSUME NEW x \in Live' PROVE \E i \in 1..(n - 1) : x = m[i]
    <3>1. PICK j \in 1..n : x = l[j] /\ j # k
      BY <1>1, <1>2, <2>1
    <3>2. CASE j < k
      BY <1>4, <3>1, <3>2
    <3>3. CASE j > k
      <4>1. j - 1 \in 1..(n - 1) /\ m[j - 1] = l[j]
        BY <1>4, <3>1, <3>3
      <4> QED
        BY <3>1, <4>1
    <3> QED
      BY <3>1, <3>2, <3>3
  <2> HIDE DEF m
  <2> QED
    BY <1>5, <2>1
<1>7. \A i, j \in 1..(n - 1) : m[i] = m[j] => i = j
  <2>1. ASSUME NEW i \in 1..(n - 1), NEW j \in 1..(n - 1), m[i] = m[j] PROVE i = j
    <3>1. i \in 1..n /\ j \in 1..n /\ i + 1 \in 1..n /\ j + 1 \in 1..n
      OBVIOUS
    <3>2. l[IF i < k THEN i ELSE i + 1] = l[IF j < k THEN j ELSE j + 1]
      BY <1>4, <2>1
    <3>3. (IF i < k THEN i ELSE i + 1) = (IF j < k THEN j ELSE j + 1)
      BY <1>1, <3>1, <3>2
    <3> QED
      BY <3>3
  <2> QED
    BY <2>1
<1> HIDE DEF m
<1>8. CASE k = 1
  <2>1. h = oldest /\ \A i \in 1..(n - 1) : m[i] = l[i + 1]
    BY <1>1, <1>4, <1>8
  <2>2. /\ oldest' = flushNext[h]
        /\ flushPrev' = [flushPrev EXCEPT ![flushNext[h]] = Zero, ![h] = Zero]
        /\ flushNext' = [flushNext EXCEPT ![h] = Zero]
        /\ newest' = newest
        /\ pc' = IF flushNext[h] \in dirties THEN pc ELSE "panic"
    BY <2>1 DEF unlink
  <2>3. flushNext[h] = IF n = 1 THEN Zero ELSE l[2]
    BY <1>1, <1>8
  <2>4. \A x \in HashZ : /\ flushNext'[x] = IF x = h THEN Zero ELSE flushNext[x]
                         /\ x # h /\ x # flushNext[h] => flushPrev'[x] = flushPrev[x]
    BY <1>2, <1>3, <2>2
  <2>5. pc' = pc
    BY <1>2, <1>4, <2>2, <2>3
  <2>6. IF n - 1 = 0 THEN oldest' = Zero
                     ELSE oldest' = m[1] /\ newest' = m[n - 1] /\ flushNext'[m[n - 1]] = Zero
    BY <1>1, <1>4, <1>5, <2>1, <2>2, <2>3, <2>4
  <2>7. ASSUME NEW i \in 1..(n - 2)
        PROVE  flushNext'[m[i]] = m[i + 1] /\ flushPrev'[m[i + 1]] = m[i]
    <3>1. i + 1 \in 1..(n - 1) /\ i + 1 \in 1..n /\ i + 2 \in 1..n /\ 2 \in 1..n /\ i + 1 + 1 = i + 2
      OBVIOUS
    <3>2. m[i] = l[i + 1] /\ m[i + 1] = l[i + 2]
      BY <2>1, <3>1
    <3>3. l[i + 1] # h /\ l[i + 2] # h /\ l[i + 2] # l[2]
      BY <1>1, <1>8, <3>1
    <3>4. flushNext[l[i + 1]] = l[i + 2] /\ flushPrev[l[i + 2]] = l[i + 1]
      BY <1>1, <3>1
    <3> QED
      BY <1>4, <2>3, <2>4, <3>1, <3>2, <3>3, <3>4
  <2>8. IsFlushList(m, n - 1)'
    BY <1>4, <1>6, <1>7, <2>6, <2>7 DEF IsFlushList
  <2> QED
    BY <1>2, <1>3, <2>4, <2>5, <2>8 DEF m
<1>9. CASE k # 1 /\ k = n
  <2>1. h # oldest /\ h = newest /\ flushPrev[h] = l[n - 1] /\ \A i \in 1..(n - 1) : m[i] = l[i]
    BY <1>1, <1>4, <1>9
  <2>2. /\ newest' = flushPrev[h]
        /\ flushNext' = [flushNext EXCEPT ![flushPrev[h]] = Zero, ![h] = Zero]
        /\ flushPrev' = [flushPrev EXCEPT ![h] = Zero]
        /\ oldest' = oldest
        /\ pc' = IF flushPrev[h] \in dirties THEN pc ELSE "panic"
    BY <2>1 DEF unlink
  <2>3. \A x \in HashZ : /\ flushNext'[x] = IF x = h \/ x = flushPrev[h] THEN Zero ELSE flushNext[x]
                         /\ x # h => flushPrev'[x] = flushPrev[x]
    BY <1>2, <1>3, <2>2
  <2>4. pc' = pc
    BY <1>2, <1>4, <1>9, <2>1, <2>2
  <2>5. n - 1 # 0 /\ oldest' = m[1] /\ newest' = m[n - 1] /\ flushNext'[m[n - 1]] = Zero
    <3>1. n - 1 \in 1..(n - 1) /\ 1 \in 1..(n - 1) /\ m[n - 1] = l[n - 1] /\ m[1] = l[1]
      BY <1>9, <2>1
    <3>2. m[n - 1] \in HashZ
      BY <1>5, <3>1
    <3>3. n - 1 # 0 /\ oldest' = m[1] /\ newest' = m[n - 1]
      BY <1>1, <1>9, <2>1, <2>2, <3>1
    <3>4. m[n - 1] = flushPrev[h]
      BY <2>1, <3>1
    <3> QED
      BY <2>3, <3>2, <3>3, <3>4
  <2>6. ASSUME NEW i \in 1..(n - 2)
        PROVE  flushNext'[m[i]] = m[i + 1] /\ flushPrev'[m[i + 1]] = m[i]
    <3>1. i \in 1..n /\ i \in 1..(n - 1) /\ i + 1 \in 1..(n - 1) /\ i + 1 \in 1..n /\ n - 1 \in 1..n
      OBVIOUS
    <3>2. m[i] = l[i] /\ m[i + 1] = l[i + 1]
      BY <2>1, <3>1
    <3>3. l[i] # h /\ l[i + 1] # h /\ l[i] # l[n - 1]
      BY <1>1, <1>9, <3>1
    <3>4. flushNext[l[i]] = l[i + 1] /\ flushPrev[l[i + 1]] = l[i]
      BY <1>1, <3>1
    <3> QED
      BY <1>4, <2>1, <2>3, <3>1, <3>2, <3>3, <3>4
  <2>7. IsFlushList(m, n - 1)'
    BY <1>4, <1>6, <1>7, <2>5, <2>6 DEF IsFlushList
  <2> QED
    BY <1>2, <1>3, <1>5, <2>1, <2>3, <2>4, <2>7 DEF m
<1>10. CASE k # 1 /\ k # n
  <2>1. h # oldest /\ h # newest /\ flushPrev[h] = l[k - 1] /\ flushNext[h] = l[k + 1]
    BY <1>1, <1>4, <1>10
  <2>2. /\ flushNext' = [flushNext EXCEPT ![flushPrev[h]] = flushNext[h], ![h] = Zero]
        /\ flushPrev' = [flushPrev EXCEPT ![flushNext[h]] = flushPrev[h], ![h] = Zero]
        /\ oldest' = oldest /\ newest' = newest
        /\ pc' = IF {flushPrev[h], flushNext[h]} \subseteq dirties THEN pc ELSE "panic"
    BY <2>1 DEF unlink
  <2>3. \A x \in HashZ :
          /\ flushNext'[x] = IF x = h THEN Zero ELSE IF x = l[k - 1] THEN l[k + 1] ELSE flushNext[x]
          /\ flushPrev'[x] = IF x = h THEN Zero ELSE IF x = l[k + 1] THEN l[k - 1] ELSE flushPrev[x]
    BY <1>2, <1>3, <2>1, <2>2
  <2>4. pc' = pc
    BY <1>2, <1>4, <1>10, <2>1, <2>2
  <2>5. n - 1 # 0 /\ oldest' = m[1] /\ newest' = m[n - 1] /\ m[1] = l[1] /\ m[n - 1] = l[n]
    BY <1>1, <1>4, <1>10, <2>2
  <2>6. flushNext'[m[n - 1]] = Zero
    BY <1>1, <1>4, <1>5, <1>10, <2>3, <2>5
  <2>7. \A i \in 1..(n - 2) : flushNext'[m[i]] = m[i + 1] /\ flushPrev'[m[i + 1]] = m[i]
    <3>1. ASSUME NEW i \in 1..(n - 2), i < k - 1
          PROVE  flushNext'[m[i]] = m[i + 1] /\ flushPrev'[m[i + 1]] = m[i]
      <4>1. /\ i \in 1..n /\ i \in 1..(n - 1) /\ i + 1 \in 1..(n - 1) /\ i + 1 \in 1..n
            /\ k - 1 \in 1..n /\ k + 1 \in 1..n
        BY <1>10, <3>1
      <4>2. m[i] = l[i] /\ m[i + 1] = l[i + 1]
        BY <1>4, <3>1, <4>1
      <4>3. l[i] # h /\ l[i + 1] # h /\ l[i] # l[k - 1] /\ l[i + 1] # l[k + 1]
        BY <1>1, <3>1, <4>1
      <4>4. flushNext[l[i]] = l[i + 1] /\ flushPrev[l[i + 1]] = l[i]
        BY <1>1, <4>1
      <4> QED
        BY <1>4, <2>3, <4>1, <4>2, <4>3, <4>4
    <3>2. ASSUME NEW i \in 1..(n - 2), i = k - 1
          PROVE  flushNext'[m[i]] = m[i + 1] /\ flushPrev'[m[i + 1]] = m[i]
      <4>1. m[i] = l[k - 1] /\ m[i + 1] = l[k + 1] /\ l[k - 1] # h /\ l[k + 1] # h
        BY <1>1, <1>4, <1>10, <3>2
      <4> QED
        BY <1>4, <1>10, <2>3, <4>1
    <3>3. ASSUME NEW i \in 1..(n - 2), i > k - 1
          PROVE  flushNext'[m[i]] = m[i + 1] /\ flushPrev'[m[i + 1]] = m[i]
      <4>1. /\ i \in 1..(n - 1) /\ i + 1 \in 1..(n - 1) /\ i + 1 \in 1..n /\ i + 2 \in 1..n
            /\ k - 1 \in 1..n /\ k + 1 \in 1..n /\ i + 1 + 1 = i + 2
        BY <1>10, <3>3
      <4>2. m[i] = l[i + 1] /\ m[i + 1] = l[i + 2]
        BY <1>4, <3>3, <4>1
      <4>3. l[i + 1] # h /\ l[i + 2] # h /\ l[i + 1] # l[k - 1] /\ l[i + 2] # l[k + 1]
        BY <1>1, <3>3, <4>1
      <4>4. flushNext[l[i + 1]] = l[i + 2] /\ flushPrev[l[i + 2]] = l[i + 1]
        BY <1>1, <4>1
      <4> QED
        BY <1>4, <2>3, <4>1, <4>2, <4>3, <4>4
    <3> QED
      BY <3>1, <3>2, <3>3
  <2>8. IsFlushList(m, n - 1)'
    BY <1>4, <1>6, <1>7, <2>5, <2>6, <2>7 DEF IsFlushList
  <2>9. \A x \in HashZ \ Live' : flushNext'[x] = Zero
    BY <1>2, <1>3, <1>4, <1>10, <2>3
  <2> QED
    BY <2>4, <2>8, <2>9 DEF m
<1> QED
  BY <1>8, <1>9, <1>10

(* A step that leaves the list alone.                                      *)
LEMMA ListUnchanged ==
  ASSUME UNCHANGED <<dirties, flushPrev, flushNext, oldest, newest>>, IsLinked
  PROVE  IsLinked' /\ Live' = Live
<1>1. Live' = Live
  BY DEF Live
<1>2. ASSUME NEW n, NEW l, IsFlushList(l, n) PROVE IsFlushList(l, n)'
  BY <1>1, <1>2 DEF IsFlushList
<1> QED
  BY <1>1, <1>2 DEF IsLinked

(* A step that leaves the cache alone.                                     *)
LEMMA CacheUnchanged ==
  ASSUME UNCHANGED cacheVars, FreshEntries, IsLinked
  PROVE  FreshEntries' /\ IsLinked' /\ Live' = Live
<1>1. Live' = Live /\ IsLinked'
  BY ListUnchanged DEF cacheVars
<1> QED
  BY <1>1 DEF cacheVars, FreshEntries

(* One call of insert, and one of cleaner.Put: neither panics.             *)
LEMMA InsertStep ==
  ASSUME TypeOK, FreshEntries, IsLinked, NEW h \in Hash, insert(h)
  PROVE  FreshEntries' /\ IsLinked' /\ pc' = pc /\ Live' = Live \cup {h}
<1>1. CASE h \in dirties
  <2>1. UNCHANGED <<cacheVars, pc>>
    BY <1>1 DEF insert
  <2>2. h \in Live
    BY <1>1, HashAssumption DEF Live
  <2> QED
    BY <2>1, <2>2, CacheUnchanged
<1>2. CASE h \notin dirties
  <2>1. PICK n \in Nat : \E l \in [1..n -> Hash] : IsFlushList(l, n)
    BY DEF IsLinked
  <2>2. PICK l \in [1..n -> Hash] : IsFlushList(l, n)
    BY <2>1
  <2>3. IsFlushList(Longer(l, n, h), n + 1)' /\ FreshEntries' /\ pc' = pc
    BY <1>2, <2>2, InsertList
  <2>4. n + 1 \in Nat /\ Longer(l, n, h) \in [1..(n + 1) -> Hash]
    BY DEF Longer
  <2>5. Live' = Live \cup {h}
    BY <1>2, HashAssumption DEF insert, Live
  <2> QED
    BY <2>3, <2>4, <2>5 DEF IsLinked
<1> QED
  BY <1>1, <1>2

LEMMA CleanerStep ==
  ASSUME TypeOK, FreshEntries, IsLinked, NEW h \in Hash, cleanerPut(h)
  PROVE  FreshEntries' /\ IsLinked' /\ pc' = pc
<1>1. CASE h \notin dirties
  BY <1>1, CacheUnchanged DEF cleanerPut
<1>2. CASE h \in dirties
  <2>1. /\ unlink(h)
        /\ dirties' = dirties \ {h}
        /\ parents' = [parents EXCEPT ![h] = 0]
        /\ children' = [children EXCEPT ![h] = {}]
    BY <1>2 DEF cleanerPut
  <2>2. PICK n \in Nat : \E l \in [1..n -> Hash] : IsFlushList(l, n)
    BY DEF IsLinked
  <2>3. PICK l \in [1..n -> Hash] : IsFlushList(l, n)
    BY <2>2
  <2>4. PICK k \in 1..n : h = l[k]
    BY <1>2, <2>3, HashAssumption DEF IsFlushList, Live
  <2>5. /\ IsFlushList(Shorter(l, n, k), n - 1)'
        /\ \A x \in HashZ \ Live' : flushNext'[x] = Zero
        /\ pc' = pc
    BY <2>1, <2>3, <2>4, UnlinkList
  <2>6. n - 1 \in Nat /\ Shorter(l, n, k) \in [1..(n - 1) -> Hash]
    BY <2>4 DEF Shorter
  <2>7. \A x \in HashZ \ Live' : children'[x] = {} /\ (x # Zero => parents'[x] = 0)
    BY <2>1 DEF FreshEntries, TypeOK, Live, HashZ
  <2> QED
    BY <2>5, <2>6, <2>7 DEF FreshEntries, IsLinked
<1> QED
  BY <1>1, <1>2

-----------------------------------------------------------------------------
(* The invariant is inductive.                                             *)

LEMMA InitList == Init => ListInv
<1> SUFFICES ASSUME Init PROVE ListInv
  OBVIOUS
<1>1. Live = {} /\ oldest = Zero
  BY DEF Init, Live
<1>2. IsLinked
  <2> DEFINE l == [i \in 1..0 |-> Zero]
  <2>1. l \in [1..0 -> Hash]
    OBVIOUS
  <2>2. IsFlushList(l, 0)
    BY <1>1, <2>1 DEF IsFlushList
  <2> QED
    BY <2>1, <2>2 DEF IsLinked
<1> QED
  BY <1>2 DEF Init, ListInv, FreshEntries, LinksLive, HashZ

LEMMA CrashList == ASSUME Crash PROVE ListInv'
<1>1. Live' = {} /\ oldest' = Zero
  BY DEF Crash, Live
<1>2. IsLinked'
  <2> DEFINE l == [i \in 1..0 |-> Zero]
  <2>1. l \in [1..0 -> Hash]
    OBVIOUS
  <2>2. IsFlushList(l, 0)'
    BY <1>1, <2>1 DEF IsFlushList
  <2> QED
    BY <2>1, <2>2 DEF IsLinked
<1> QED
  BY <1>2 DEF Crash, ListInv, FreshEntries, LinksLive, HashZ


LEMMA UpdateList ==
  ASSUME TypeOK, ListInv,
         \/ \E storage \in SUBSET StorageLists, account \in AccountLists \cup {<<>>}, b \in BOOLEAN :
              UpdateStart(storage, account, b)
         \/ UpdateStep
  PROVE  ListInv'
<1> USE ElemsEmpty DEF ListInv
<1>1. ASSUME NEW storage, NEW account, NEW b, UpdateStart(storage, account, b)
      PROVE  ListInv'
  BY <1>1, CacheUnchanged DEF UpdateStart, LinksLive
<1>2. ASSUME NextOwner PROVE ListInv'
  BY <1>2, CacheUnchanged DEF NextOwner, LinksLive
<1>3. ASSUME Insert PROVE ListInv'
  <2>1. Elems(queue) = {Head(queue)} \cup Elems(Tail(queue)) /\ Head(queue) \in Hash
    BY <1>3, ElemsHeadTail DEF Insert, TypeOK
  <2>2. FreshEntries' /\ IsLinked' /\ pc' = pc /\ Live' = Live \cup {Head(queue)}
    BY <1>3, <2>1, InsertStep DEF Insert
  <2> QED
    BY <1>3, <2>1, <2>2 DEF Insert, LinksLive
<1>4. ASSUME InsertDone PROVE ListInv'
  BY <1>4, CacheUnchanged DEF InsertDone, updateVars, LinksLive
<1>5. ASSUME Link PROVE ListInv'
  <2>1. /\ Elems(links) = {Head(links)} \cup Elems(Tail(links))
        /\ Head(links) \in Hash
        /\ Head(links) \in Live
    BY <1>5, ElemsHeadTail DEF Link, TypeOK, LinksLive
  <2>2. Live' = Live /\ IsLinked'
    BY <1>5, ListUnchanged DEF Link
  <2>3. /\ \A x \in HashZ \ Live : children'[x] = children[x]
        /\ \A x \in Hash \ Live : parents'[x] = parents[x]
        /\ flushNext' = flushNext
    <3>1. CASE UNCHANGED <<parents, children>>
      BY <1>5, <3>1 DEF Link
    <3>2. CASE reference(Account[Head(links)], Head(links))
      <4>1. Account[Head(links)] \in dirties \/ UNCHANGED <<parents, children>>
        BY <3>2 DEF reference
      <4>2. \/ UNCHANGED <<parents, children>>
            \/ /\ parents' = [parents EXCEPT ![Account[Head(links)]] = @ + 1]
               /\ children' = [children EXCEPT ![Head(links)] = @ \cup {Account[Head(links)]}]
        BY <3>2 DEF reference
      <4>3. \A x \in Hash \ Live : x \notin dirties
        BY HashAssumption DEF Live
      <4> QED
        BY <1>5, <2>1, <4>1, <4>2, <4>3 DEF Link, TypeOK, HashZ
    <3> QED
      BY <1>5, <3>1, <3>2 DEF Link
  <2>4. FreshEntries'
    BY <2>2, <2>3 DEF FreshEntries, HashZ
  <2>5. (pc' = "link" => Elems(links') \subseteq Live') /\ pc' # "insert"
    BY <1>5, <2>1, <2>2 DEF Link, LinksLive, reference
  <2> QED
    BY <2>2, <2>4, <2>5 DEF LinksLive
<1>6. ASSUME UpdateDone PROVE ListInv'
  BY <1>6, CacheUnchanged DEF UpdateDone, LinksLive
<1> QED
  BY <1>1, <1>2, <1>3, <1>4, <1>5, <1>6 DEF UpdateStep

LEMMA CommitList ==
  ASSUME TypeOK, ListInv, (\E h \in CommitArgs : CommitStart(h)) \/ CommitStep
  PROVE  ListInv'
<1> USE DEF ListInv
<1>1. ASSUME NEW h, CommitStart(h) PROVE ListInv'
  BY <1>1, CacheUnchanged DEF CommitStart, LinksLive
<1>2. ASSUME WalkExternal \/ WalkKid \/ WalkDone \/ Submit \/ SubmitFails PROVE ListInv'
  BY <1>2, CacheUnchanged DEF WalkExternal, WalkKid, WalkDone, Submit, SubmitFails, LinksLive
<1>3. ASSUME WalkPut PROVE ListInv'
  BY <1>3, CacheUnchanged DEF WalkPut, LinksLive
<1>4. ASSUME Replay PROVE ListInv'
  <2>1. Head(batch) \in Hash
    BY <1>4 DEF Replay, TypeOK
  <2> QED
    BY <1>4, <2>1, CleanerStep DEF Replay, LinksLive
<1>5. ASSUME ReplayDone PROVE ListInv'
  BY <1>5, CacheUnchanged DEF ReplayDone, LinksLive, TypeOK
<1> QED
  BY <1>1, <1>2, <1>3, <1>4, <1>5 DEF CommitStep

LEMMA ReadList ==
  ASSUME ListInv, NEW g, NEW api, NEW h, ReadBegin(g, api, h) \/ ReadCache(g) \/ ReadDisk(g)
  PROVE  ListInv'
BY CacheUnchanged DEF ListInv, LinksLive, ReadBegin, ReadCache, ReadDisk, updateVars

LEMMA ListStep == TypeOK /\ ListInv /\ [Next]_vars => ListInv'
<1> SUFFICES ASSUME TypeOK, ListInv, [Next]_vars PROVE ListInv'
  OBVIOUS
<1>1. CASE UNCHANGED vars
  BY <1>1, CacheUnchanged DEF vars, updateVars, ListInv, LinksLive
<1>2. CASE Next
  BY <1>2, UpdateList, CommitList, ReadList, CrashList DEF Next
<1> QED
  BY <1>1, <1>2

LEMMA ListInvariant == Spec => []ListInv
<1>1. Init => ListInv
  BY InitList
<1>2. TypeOK /\ ListInv /\ [Next]_vars => ListInv'
  BY ListStep
<1> QED
  BY <1>1, <1>2, TypeCorrect, PTL DEF Spec

(* A flush-list links its nodes as FlushListLinked says.                   *)
LEMMA ListIsLinked ==
  ASSUME IsLinked
  PROVE  FlushListLinked
<1>1. PICK n \in Nat : \E l \in [1..n -> Hash] : IsFlushList(l, n)
  BY DEF IsLinked
<1>2. PICK l \in [1..n -> Hash] : IsFlushList(l, n)
  BY <1>1
<1>3. /\ Live = {l[i] : i \in 1..n}
      /\ \A i, j \in 1..n : l[i] = l[j] => i = j
      /\ \A i \in 1..(n - 1) : flushNext[l[i]] = l[i + 1] /\ flushPrev[l[i + 1]] = l[i]
  BY <1>2 DEF IsFlushList
<1>4. CASE n = 0
  BY <1>2, <1>3, <1>4 DEF IsFlushList, FlushListLinked
<1>5. CASE n # 0
  <2>1. 1 \in 1..n /\ n \in 1..n
    BY <1>5
  <2>2. oldest = l[1] /\ newest = l[n] /\ flushNext[l[n]] = Zero
    BY <1>2, <1>5 DEF IsFlushList
  <2>3. oldest \in Live /\ newest \in Live
    BY <1>3, <2>1, <2>2
  <2>4. ASSUME NEW h \in Live \ {newest}
        PROVE  flushNext[h] \in Live \ {oldest} /\ flushPrev[flushNext[h]] = h
    <3>1. PICK i \in 1..n : h = l[i]
      BY <1>3
    <3>2. i \in 1..(n - 1) /\ i + 1 \in 1..n /\ i + 1 # 1
      BY <2>2, <2>4, <3>1
    <3>3. l[i + 1] \in Live /\ l[i + 1] # l[1]
      BY <1>3, <2>1, <3>2
    <3> QED
      BY <1>3, <2>2, <3>1, <3>2, <3>3
  <2>5. ASSUME NEW h \in Live \ {oldest}
        PROVE  flushPrev[h] \in Live \ {newest} /\ flushNext[flushPrev[h]] = h
    <3>1. PICK i \in 1..n : h = l[i]
      BY <1>3
    <3>2. i - 1 \in 1..(n - 1) /\ i - 1 \in 1..n /\ i - 1 # n /\ (i - 1) + 1 = i
      BY <2>2, <2>5, <3>1
    <3>3. l[i - 1] \in Live /\ l[i - 1] # l[n]
      BY <1>3, <2>1, <3>2
    <3>4. flushNext[l[i - 1]] = l[i] /\ flushPrev[l[i]] = l[i - 1]
      BY <1>3, <3>2
    <3> QED
      BY <2>2, <3>1, <3>3, <3>4
  <2> QED
    BY <2>2, <2>3, <2>4, <2>5 DEF FlushListLinked
<1> QED
  BY <1>4, <1>5

(* The flush-list is linked from oldest to newest through the live nodes,  *)
(* whatever Update, Commit and its cleaner, errors of Put and Submit, and  *)
(* crashes have done.                                                      *)
THEOREM FlushListIntact == Spec => []FlushListLinked
<1>1. ListInv => FlushListLinked
  BY ListIsLinked DEF ListInv
<1> QED
  BY <1>1, ListInvariant, PTL
=============================================================================
