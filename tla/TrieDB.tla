------------------------------- MODULE TrieDB -------------------------------
(***************************************************************************)
(* The trie database: the cache of dirty trie nodes that sits between the  *)
(* tries and the disk (src/trie/trie_db.go, trie_db_cleaner.go and         *)
(* cachedNode in trie_types.go), its disk and write batch                  *)
(* (src/accdb/memorydb/memorydb.go), and the goroutines that read nodes    *)
(* while the single mutator runs Update or Commit.                         *)
(*                                                                         *)
(* A node is its hash.  A content-addressed store tells nodes apart by     *)
(* nothing else, so the collapsed node a hash stands for is given by the   *)
(* constants Kids (the hashes inside the node), Account (what a leaf blob  *)
(* decodes to) and Weight (the bytes it adds to a batch).                  *)
(*                                                                         *)
(* Locking.  Update holds db.lock from UpdateStart to its return and       *)
(* submit holds it while the batch is replayed into the cleaner, so        *)
(* LockHeld is a state predicate: a reader takes the lock only in the      *)
(* step ReadCache.  Commit walks the cache without the lock: it is a       *)
(* "non-synchronized mutator" and no other mutator runs meanwhile.         *)
(***************************************************************************)
EXTENDS Naturals, Sequences, FiniteSets

CONSTANTS
  Hash,            (* The hashes of trie nodes.                            *)
  Zero,            (* common.Hash{}: the key of the metaroot, and "none".  *)
  Kids,            (* Kids[h]: the hash children of h, one per occurrence. *)
  Account,         (* Account[h]: storage root in the leaf h, or a mark:   *)
  NotLeaf,         (*   h is not a leaf,                                   *)
  BadBlob,         (*   the value of the leaf is not an RLP account,       *)
  EmptyRoot,       (*   the account's storage trie is empty.               *)
  Weight,          (* Weight[h]: bytes of key and blob in a batch.         *)
  IdealBatchSize,  (* accdb.IdealBatchSize.                                *)
  StorageLists,    (* Node sets of storage tries, as their update order.   *)
  AccountLists,    (* Node sets of owner Hash{}, likewise.                 *)
  CommitArgs,      (* The hashes that are passed to Commit.                *)
  Readers,         (* Goroutines that call Node and NodeBlob.              *)
  NodeArgs,        (* The hashes they pass to Node.                        *)
  BlobArgs,        (* The hashes they pass to NodeBlob.                    *)
  PutMayFail,      (* May batch.Put return an error?                       *)
  SubmitMayFail,   (* May batch.Submit return an error?                    *)
  MaxParents       (* A bound: with more references to a node, no Update.  *)

HashZ == Hash \cup {Zero}

ASSUME HashAssumption ==
  /\ Zero \notin Hash
  /\ Kids \in [Hash -> Seq(Hash)]
  /\ StorageLists \subseteq Seq(Hash)
  /\ AccountLists \subseteq Seq(Hash)
  /\ CommitArgs \subseteq Hash

ASSUME AccountAssumption ==
  /\ Account \in [Hash -> HashZ \cup {NotLeaf, BadBlob, EmptyRoot}]
  /\ {NotLeaf, BadBlob, EmptyRoot} \cap HashZ = {}
  /\ Cardinality({NotLeaf, BadBlob, EmptyRoot}) = 3

ASSUME BatchAssumption ==
  /\ Weight \in [Hash -> Nat]
  /\ IdealBatchSize \in Nat
  /\ PutMayFail \in BOOLEAN
  /\ SubmitMayFail \in BOOLEAN
  /\ MaxParents \in Nat

ASSUME ReaderAssumption == NodeArgs \subseteq HashZ /\ BlobArgs \subseteq HashZ

VARIABLES
  \* TrieDB and its cachedNodes.  The fields of a node that is not in
  \* dirties have the value a new cachedNode gives them.
  dirties,    (* The keys of the map dirties; Zero is the metaroot.        *)
  parents,    (* Number of counted references to a cached node.            *)
  children,   (* External children: storage roots linked to account leaves.*)
  flushPrev, flushNext, oldest, newest,   (* The flush-list.               *)
  \* diskdb
  disk,       (* The keys on disk.                                         *)
  \* The mutator, at most one call of Update or Commit at a time.
  pc,         (* Where it is.                                              *)
  todo,       (* Update: node sets of storage tries still to insert.       *)
  final,      (* Update: the node set of owner Hash{}, inserted last.      *)
  queue,      (* Update: rest of the node set being inserted.              *)
  links,      (* Update: nodes whose account leaf is still to be linked.   *)
  stack,      (* Commit: activations of commit, the innermost one last.    *)
  batch,      (* Commit: keys in the batch; replay: keys not yet replayed. *)
  size,       (* Commit: batch.ValueSize().                                *)
  cont,       (* Commit: where the mutator goes when submit returns.       *)
  target,     (* Commit: its argument, or Zero if that node was unknown.   *)
  committed,  (* History: known nodes for which Commit returned nil.       *)
  \* The readers.
  rd          (* rd[g]: call in progress or last result of goroutine g.    *)

cacheVars  == <<dirties, parents, children, flushPrev, flushNext, oldest, newest>>
updateVars == <<todo, final, queue, links>>
commitVars == <<stack, batch, size, cont, target>>
vars == <<cacheVars, disk, pc, updateVars, commitVars, committed, rd>>

-----------------------------------------------------------------------------
(* Helpers.                                                                *)

Elems(s) == {s[i] : i \in DOMAIN s}

(* The nodes Nodes() lists: everything cached except the metaroot.         *)
Live == dirties \ {Zero}

(* What a lookup by hash can find.                                         *)
Available == Live \cup disk

LockHeld == pc \in {"insert", "link", "replay"}

(* Mutant: the loop over the children of a full node starts at 1.          *)
forGatherChildren_SkipsFirst(h) ==
  IF h = Zero \/ Kids[h] = <<>> THEN <<>> ELSE Tail(Kids[h])

(* forGatherChildren: the hash children inside the node.  The metaroot     *)
(* holds no node.                                                          *)
forGatherChildren(h) == IF h = Zero THEN <<>> ELSE Kids[h]

(* forChilds: the external children and the ones inside the node.          *)
forChilds(h) == children[h] \cup Elems(forGatherChildren(h))

(* Number of times the child c occurs inside the node h.                   *)
Occurrences(h, c) == Cardinality({i \in DOMAIN Kids[h] : Kids[h][i] = c})

(* Children are inserted before their parents (trie_db.go:161): what       *)
(* Trie.Commit puts in a node set, given what is available before it.      *)
ChildrenFirst(s, known) ==
  \A i \in DOMAIN s : Elems(Kids[s[i]]) \subseteq known \cup {s[j] : j \in 1..(i - 1)}

-----------------------------------------------------------------------------
IdleReader == [pc |-> "idle", api |-> "node", hash |-> Zero, known |-> FALSE]

(* NewTrieDB on an empty disk.                                             *)
Init ==
  /\ dirties = {Zero}
  /\ parents = [h \in HashZ |-> 0]
  /\ children = [h \in HashZ |-> {}]
  /\ flushPrev = [h \in HashZ |-> Zero]
  /\ flushNext = [h \in HashZ |-> Zero]
  /\ oldest = Zero /\ newest = Zero
  /\ disk = {}
  /\ pc = "idle"
  /\ todo = {} /\ final = <<>> /\ queue = <<>> /\ links = <<>>
  /\ stack = <<>> /\ batch = <<>> /\ size = 0 /\ cont = "idle" /\ target = Zero
  /\ committed = {}
  /\ rd = [g \in Readers |-> IdleReader]

-----------------------------------------------------------------------------
(* Update.                                                                 *)

(* The merged node set holds the node sets of some storage tries and maybe *)
(* the one of owner Hash{}, whose leaves are collected or not.             *)
UpdateStart(storage, account, collectLeaf) ==
  /\ pc = "idle"
  /\ \A h \in Hash : parents[h] <= MaxParents
  /\ \A s \in storage : ChildrenFirst(s, Available)
  /\ ChildrenFirst(account, Available)
  /\ pc' = "insert"
  /\ todo' = storage
  /\ final' = account
  /\ queue' = <<>>
  /\ links' = IF collectLeaf THEN account ELSE <<>>
  /\ UNCHANGED <<cacheVars, disk, commitVars, committed, rd>>

(* The owners come out of a Go map, in any order; owner Hash{} is last.    *)
NextOwner ==
  /\ pc = "insert"
  /\ queue = <<>>
  /\ \/ \E s \in todo : queue' = s /\ todo' = todo \ {s} /\ UNCHANGED final
     \/ todo = {} /\ final # <<>> /\ queue' = final /\ final' = <<>> /\ UNCHANGED todo
  /\ UNCHANGED <<cacheVars, disk, pc, links, commitVars, committed, rd>>

(* Mutant: a child that occurs twice in the node is counted once.          *)
insert_CountsChildOnce(h) ==
  IF h \in dirties
  THEN UNCHANGED <<cacheVars, pc>>
  ELSE
    /\ dirties' = dirties \cup {h}
    /\ parents' = [c \in HashZ |->
                     IF c \in dirties /\ c \in Elems(Kids[h]) THEN parents[c] + 1 ELSE parents[c]]
    /\ flushPrev' = [flushPrev EXCEPT ![h] = newest]
    /\ flushNext' = IF oldest = Zero THEN flushNext ELSE [flushNext EXCEPT ![newest] = h]
    /\ newest' = h
    /\ oldest' = IF oldest = Zero THEN h ELSE oldest
    /\ UNCHANGED <<children, pc>>

(* Mutant: new nodes enter the flush-list at the old end.                  *)
insert_AtOldEnd(h) ==
  IF h \in dirties
  THEN UNCHANGED <<cacheVars, pc>>
  ELSE
    /\ dirties' = dirties \cup {h}
    /\ parents' = [c \in HashZ |->
                     IF c \in dirties THEN parents[c] + Occurrences(h, c) ELSE parents[c]]
    /\ flushNext' = [flushNext EXCEPT ![h] = oldest]
    /\ flushPrev' = IF oldest = Zero THEN flushPrev ELSE [flushPrev EXCEPT ![oldest] = h]
    /\ oldest' = h
    /\ newest' = IF oldest = Zero THEN h ELSE newest
    /\ UNCHANGED <<children, pc>>

(* One call of insert(h), for the next node of the set.  With nothing in   *)
(* the list, newest may still name a node that has left it.                *)
insert(h) ==
  IF h \in dirties
  THEN UNCHANGED <<cacheVars, pc>>
  ELSE
    /\ dirties' = dirties \cup {h}
    /\ parents' = [c \in HashZ |->
                     IF c \in dirties THEN parents[c] + Occurrences(h, c) ELSE parents[c]]
    /\ flushPrev' = [flushPrev EXCEPT ![h] = newest]
    /\ newest' = h
    /\ UNCHANGED children
    /\ IF oldest = Zero
       THEN oldest' = h /\ UNCHANGED <<flushNext, pc>>
       ELSE /\ UNCHANGED oldest
            /\ flushNext' = [flushNext EXCEPT ![newest] = h]
            /\ pc' = IF newest \in dirties THEN pc ELSE "panic"

Insert ==
  /\ pc = "insert"
  /\ queue # <<>>
  /\ insert(Head(queue))
  /\ queue' = Tail(queue)
  /\ UNCHANGED <<disk, todo, final, links, commitVars, committed, rd>>

InsertDone ==
  /\ pc = "insert"
  /\ queue = <<>> /\ todo = {} /\ final = <<>>
  /\ pc' = "link"
  /\ UNCHANGED <<cacheVars, disk, updateVars, commitVars, committed, rd>>

(* reference(child, parent).  Update passes account leaves as parents and  *)
(* never the metaroot, so a reference counts once.                         *)
reference(child, parent) ==
  IF child \notin dirties \/ child \in children[parent]
  THEN UNCHANGED <<parents, children, pc>>
  ELSE /\ parents' = [parents EXCEPT ![child] = @ + 1]
       /\ children' = [children EXCEPT ![parent] = @ \cup {child}]
       /\ pc' = IF parent \in dirties THEN pc ELSE "panic"

(* One round of the loop over the leaves (nodes that are no leaf are not   *)
(* in set.leaves).  A blob that does not decode ends Update with an error; *)
(* what was inserted and linked stays.                                     *)
Link ==
  /\ pc = "link"
  /\ links # <<>>
  /\ \/ /\ Account[Head(links)] = BadBlob
        /\ pc' = "idle" /\ links' = <<>>
        /\ UNCHANGED <<parents, children>>
     \/ /\ Account[Head(links)] \in {EmptyRoot, NotLeaf}
        /\ links' = Tail(links)
        /\ UNCHANGED <<pc, parents, children>>
     \/ /\ Account[Head(links)] \in HashZ
        /\ links' = Tail(links)
        /\ reference(Account[Head(links)], Head(links))
  /\ UNCHANGED <<dirties, flushPrev, flushNext, oldest, newest>>
  /\ UNCHANGED <<disk, todo, final, queue, commitVars, committed, rd>>

UpdateDone ==
  /\ pc = "link"
  /\ links = <<>>
  /\ pc' = "idle"
  /\ UNCHANGED <<cacheVars, disk, updateVars, commitVars, committed, rd>>

-----------------------------------------------------------------------------
(* Commit.                                                                 *)

(* Mutant: the external children of a node are not visited.                *)
Frame_NoExternal(h) == [hash |-> h, ext |-> {}, kids |-> forGatherChildren(h)]

(* An activation of commit(h): the node it holds (a pointer that outlives  *)
(* the map entry) and the children its forChilds still has to visit.       *)
Frame(h) == [hash |-> h, ext |-> children[h], kids |-> forGatherChildren(h)]

(* The entry of commit(h): a node that is not cached was committed before. *)
Enter(st, h) == IF h \in dirties THEN Append(st, Frame(h)) ELSE st

CommitStart(h) ==
  /\ pc = "idle"
  /\ pc' = "walk"
  /\ stack' = Enter(<<>>, h)
  /\ batch' = <<>>
  /\ size' = 0
  /\ cont' = "idle"
  /\ target' = IF h \in Available THEN h ELSE Zero
  /\ UNCHANGED <<cacheVars, disk, updateVars, committed, rd>>

Top == stack[Len(stack)]

Pop == SubSeq(stack, 1, Len(stack) - 1)

(* forChilds visits the external children first, in the order of a map.    *)
WalkExternal ==
  /\ pc = "walk"
  /\ stack # <<>>
  /\ \E c \in Top.ext :
       stack' = Enter(Append(Pop, [Top EXCEPT !.ext = @ \ {c}]), c)
  /\ UNCHANGED <<cacheVars, disk, pc, updateVars, batch, size, cont, target, committed, rd>>

WalkKid ==
  /\ pc = "walk"
  /\ stack # <<>>
  /\ Top.ext = {}
  /\ Top.kids # <<>>
  /\ stack' = Enter(Append(Pop, [Top EXCEPT !.kids = Tail(@)]), Head(Top.kids))
  /\ UNCHANGED <<cacheVars, disk, pc, updateVars, batch, size, cont, target, committed, rd>>

(* All children visited: the node goes into the batch.  The metaroot has   *)
(* no node to encode: rlp() fails on it.  An error of batch.Put is         *)
(* ignored.  A batch that is large enough is submitted at once.            *)
WalkPut ==
  /\ pc = "walk"
  /\ stack # <<>>
  /\ Top.ext = {} /\ Top.kids = <<>>
  /\ IF Top.hash = Zero
     THEN pc' = "panic" /\ UNCHANGED <<stack, batch, size, cont>>
     ELSE /\ \/ batch' = Append(batch, Top.hash) /\ size' = size + Weight[Top.hash]
             \/ PutMayFail /\ UNCHANGED <<batch, size>>
          /\ stack' = Pop
          /\ IF size' >= IdealBatchSize
             THEN pc' = "submit" /\ cont' = "walk"
             ELSE UNCHANGED <<pc, cont>>
  /\ UNCHANGED <<cacheVars, disk, updateVars, target, committed, rd>>

(* Mutant: the cache is cleaned before the batch is written.               *)
WalkDone_CleansFirst ==
  /\ pc = "walk"
  /\ stack = <<>>
  /\ pc' = "replay"
  /\ cont' = "idle"
  /\ UNCHANGED <<cacheVars, disk, updateVars, stack, batch, size, target, committed, rd>>

(* The outermost commit returned nil: Commit submits what is left.         *)
WalkDone ==
  /\ pc = "walk"
  /\ stack = <<>>
  /\ pc' = "submit"
  /\ cont' = "idle"
  /\ UNCHANGED <<cacheVars, disk, updateVars, stack, batch, size, target, committed, rd>>

(* batch.Submit: all keys reach the disk.                                  *)
Submit ==
  /\ pc = "submit"
  /\ disk' = disk \cup Elems(batch)
  /\ pc' = "replay"
  /\ UNCHANGED <<cacheVars, updateVars, commitVars, committed, rd>>

(* Mutant: the error of batch.Submit is not returned to the caller.        *)
SubmitFails_Swallowed ==
  /\ SubmitMayFail
  /\ pc = "submit"
  /\ \E n \in 0..Len(batch) : disk' = disk \cup {batch[i] : i \in 1..n}
  /\ pc' = "idle"
  /\ committed' = committed \cup ({target} \ {Zero})
  /\ stack' = <<>> /\ batch' = <<>> /\ size' = 0 /\ cont' = "idle" /\ target' = Zero
  /\ UNCHANGED <<cacheVars, updateVars, rd>>

(* A store other than memorydb may fail in batch.Submit after writing some *)
(* of the keys, in the order they were put.  Every activation returns the  *)
(* error and the batch is dropped; nothing is uncached.                    *)
SubmitFails ==
  /\ SubmitMayFail
  /\ pc = "submit"
  /\ \E n \in 0..Len(batch) : disk' = disk \cup {batch[i] : i \in 1..n}
  /\ pc' = "idle"
  /\ stack' = <<>> /\ batch' = <<>> /\ size' = 0 /\ cont' = "idle" /\ target' = Zero
  /\ UNCHANGED <<cacheVars, updateVars, committed, rd>>

(* Mutant: taking out the newest node leaves newest where it was.          *)
unlink_KeepsNewest(h) ==
  IF h = oldest
  THEN /\ oldest' = flushNext[h]
       /\ flushPrev' = [flushPrev EXCEPT ![flushNext[h]] = Zero, ![h] = Zero]
       /\ flushNext' = [flushNext EXCEPT ![h] = Zero]
       /\ UNCHANGED <<newest, pc>>
  ELSE /\ flushNext' = [flushNext EXCEPT ![flushPrev[h]] = flushNext[h], ![h] = Zero]
       /\ flushPrev' = [flushPrev EXCEPT ![flushNext[h]] = flushPrev[h], ![h] = Zero]
       /\ UNCHANGED <<oldest, newest, pc>>

(* Mutant: the node after the removed one keeps its flushPrev.             *)
unlink_KeepsPrev(h) ==
  /\ oldest' = IF h = oldest THEN flushNext[h] ELSE oldest
  /\ newest' = IF h # oldest /\ h = newest THEN flushPrev[h] ELSE newest
  /\ flushNext' = IF h = oldest THEN [flushNext EXCEPT ![h] = Zero]
                  ELSE [flushNext EXCEPT ![flushPrev[h]] = flushNext[h], ![h] = Zero]
  /\ flushPrev' = [flushPrev EXCEPT ![h] = Zero]
  /\ UNCHANGED pc

(* cleaner.Put: take h out of the flush-list ...                           *)
unlink(h) ==
  \/ /\ h = oldest
     /\ oldest' = flushNext[h]
     /\ flushPrev' = [flushPrev EXCEPT ![flushNext[h]] = Zero, ![h] = Zero]
     /\ flushNext' = [flushNext EXCEPT ![h] = Zero]
     /\ UNCHANGED newest
     /\ pc' = IF flushNext[h] \in dirties THEN pc ELSE "panic"
  \/ /\ h # oldest /\ h = newest
     /\ newest' = flushPrev[h]
     /\ flushNext' = [flushNext EXCEPT ![flushPrev[h]] = Zero, ![h] = Zero]
     /\ flushPrev' = [flushPrev EXCEPT ![h] = Zero]
     /\ UNCHANGED oldest
     /\ pc' = IF flushPrev[h] \in dirties THEN pc ELSE "panic"
  \/ /\ h # oldest /\ h # newest
     /\ flushNext' = [flushNext EXCEPT ![flushPrev[h]] = flushNext[h], ![h] = Zero]
     /\ flushPrev' = [flushPrev EXCEPT ![flushNext[h]] = flushPrev[h], ![h] = Zero]
     /\ UNCHANGED <<oldest, newest>>
     /\ pc' = IF {flushPrev[h], flushNext[h]} \subseteq dirties THEN pc ELSE "panic"

(* ... and out of the cache, unless it left before.                        *)
cleanerPut(h) ==
  IF h \notin dirties
  THEN UNCHANGED <<cacheVars, pc>>
  ELSE /\ unlink(h)
       /\ dirties' = dirties \ {h}
       /\ parents' = [parents EXCEPT ![h] = 0]
       /\ children' = [children EXCEPT ![h] = {}]

Replay ==
  /\ pc = "replay"
  /\ batch # <<>>
  /\ cleanerPut(Head(batch))
  /\ batch' = Tail(batch)
  /\ UNCHANGED <<disk, updateVars, stack, size, cont, target, committed, rd>>

(* Mutant: Reset subtracts the ideal size from the size of the batch.      *)
ReplayDone_KeepsRemainder ==
  /\ pc = "replay"
  /\ batch = <<>>
  /\ size' = size - IdealBatchSize
  /\ pc' = cont
  /\ IF cont = "walk"
     THEN UNCHANGED <<target, committed>>
     ELSE target' = Zero /\ committed' = committed \cup ({target} \ {Zero})
  /\ cont' = "idle"
  /\ UNCHANGED <<cacheVars, disk, updateVars, stack, batch, rd>>

(* Mutant: Commit starts over after its last batch, too.                   *)
ReplayDone_StartsOver ==
  /\ pc = "replay"
  /\ batch = <<>>
  /\ size' = 0
  /\ pc' = "walk"
  /\ cont' = "idle"
  /\ UNCHANGED <<cacheVars, disk, updateVars, stack, batch, target, committed, rd>>

(* batch.Reset, and submit returns: to commit, or to the caller of Commit. *)
ReplayDone ==
  /\ pc = "replay"
  /\ batch = <<>>
  /\ size' = 0
  /\ pc' = cont
  /\ IF cont = "walk"
     THEN UNCHANGED <<target, committed>>
     ELSE target' = Zero /\ committed' = committed \cup ({target} \ {Zero})
  /\ cont' = "idle"
  /\ UNCHANGED <<cacheVars, disk, updateVars, stack, batch, rd>>

-----------------------------------------------------------------------------
(* Node and NodeBlob.                                                      *)

Returned == {"idle", "found", "missing"}

ReadBegin(g, api, h) ==
  /\ rd[g].pc \in Returned
  /\ rd' = [rd EXCEPT ![g] =
              [pc |-> IF api = "blob" /\ h = Zero THEN "missing" ELSE "cache",
               api |-> api, hash |-> h, known |-> h \in Available]]
  /\ UNCHANGED <<cacheVars, disk, pc, updateVars, commitVars, committed>>

(* The lookup in dirties, under the read lock.  The metaroot is there, but *)
(* expandNode cannot expand it.                                            *)
ReadCache(g) ==
  /\ rd[g].pc = "cache"
  /\ ~LockHeld
  /\ rd' = [rd EXCEPT ![g].pc = IF rd[g].hash \notin dirties THEN "disk"
                                ELSE IF rd[g].hash = Zero THEN "panic" ELSE "found"]
  /\ UNCHANGED <<cacheVars, disk, pc, updateVars, commitVars, committed>>

(* The lookup on disk, after the read lock was released.                   *)
ReadDisk(g) ==
  /\ rd[g].pc = "disk"
  /\ rd' = [rd EXCEPT ![g].pc = IF rd[g].hash \in disk THEN "found" ELSE "missing"]
  /\ UNCHANGED <<cacheVars, disk, pc, updateVars, commitVars, committed>>

-----------------------------------------------------------------------------
(* The process dies, for whatever reason (a panic included), and a new one *)
(* opens the same disk.                                                    *)
Crash ==
  /\ dirties' = {Zero}
  /\ parents' = [h \in HashZ |-> 0]
  /\ children' = [h \in HashZ |-> {}]
  /\ flushPrev' = [h \in HashZ |-> Zero]
  /\ flushNext' = [h \in HashZ |-> Zero]
  /\ oldest' = Zero /\ newest' = Zero
  /\ pc' = "idle"
  /\ todo' = {} /\ final' = <<>> /\ queue' = <<>> /\ links' = <<>>
  /\ stack' = <<>> /\ batch' = <<>> /\ size' = 0 /\ cont' = "idle" /\ target' = Zero
  /\ rd' = [g \in Readers |-> IdleReader]
  /\ UNCHANGED <<disk, committed>>

UpdateStep == NextOwner \/ Insert \/ InsertDone \/ Link \/ UpdateDone

CommitStep ==
  \/ WalkExternal \/ WalkKid \/ WalkPut \/ WalkDone
  \/ Submit \/ SubmitFails \/ Replay \/ ReplayDone

Next ==
  \/ \E storage \in SUBSET StorageLists, account \in AccountLists \cup {<<>>}, b \in BOOLEAN :
       UpdateStart(storage, account, b)
  \/ UpdateStep
  \/ \E h \in CommitArgs : CommitStart(h)
  \/ CommitStep
  \/ \E g \in Readers, h \in NodeArgs : ReadBegin(g, "node", h)
  \/ \E g \in Readers, h \in BlobArgs : ReadBegin(g, "blob", h)
  \/ \E g \in Readers : ReadCache(g) \/ ReadDisk(g)
  \/ Crash

Spec == Init /\ [][Next]_vars

(* Fairness.  A goroutine inside Update, Commit, Node or NodeBlob is never *)
(* descheduled for good, and when a writer releases an RWMutex the readers *)
(* that wait for it get it, so a reader is not overtaken for ever.         *)
Fairness ==
  /\ WF_vars(UpdateStep)
  /\ WF_vars(CommitStep)
  /\ \A g \in Readers : SF_vars(ReadCache(g)) /\ WF_vars(ReadDisk(g))

FairSpec == Spec /\ Fairness

-----------------------------------------------------------------------------
(* Properties.                                                             *)

Frames == [hash : HashZ, ext : SUBSET HashZ, kids : Seq(Hash)]

ReaderStates ==
  [pc : Returned \cup {"cache", "disk", "panic"}, api : {"node", "blob"},
   hash : HashZ, known : BOOLEAN]

(* Types of the state.  The metaroot is always cached, never on disk and   *)
(* never in a batch, and batch.ValueSize() is never negative.              *)
TypeOK ==
  /\ dirties \in SUBSET HashZ /\ Zero \in dirties
  /\ parents \in [HashZ -> Nat]
  /\ children \in [HashZ -> SUBSET HashZ]
  /\ flushPrev \in [HashZ -> HashZ]
  /\ flushNext \in [HashZ -> HashZ]
  /\ oldest \in HashZ /\ newest \in HashZ
  /\ disk \in SUBSET Hash
  /\ pc \in {"idle", "insert", "link", "walk", "submit", "replay", "panic"}
  /\ todo \in SUBSET Seq(Hash)
  /\ final \in Seq(Hash) /\ queue \in Seq(Hash) /\ links \in Seq(Hash)
  /\ stack \in Seq(Frames)
  /\ batch \in Seq(Hash)
  /\ size \in Nat
  /\ cont \in {"idle", "walk"}
  /\ target \in HashZ
  /\ committed \in SUBSET Hash
  /\ rd \in [Readers -> ReaderStates]

(* Update and Commit never dereference a cache entry that is not there and *)
(* never encode the metaroot: the flush-list neighbours patched by insert  *)
(* and cleaner.Put, and the parent patched by reference, are cached.       *)
NoPanic == pc # "panic"

(* A trie that can be entered can be walked: every child of an available   *)
(* node, inside it or linked to it, is available, whatever Update or       *)
(* Commit is in the middle of.                                             *)
NodeAvailable ==
  /\ \A h \in Available : Elems(Kids[h]) \subseteq Available
  /\ \A h \in Live : children[h] \subseteq Available \cup {Zero}

(* What is on disk is closed under children at every moment, so a crash    *)
(* between two batches of one Commit leaves no dangling hash behind.       *)
DiskClosed == \A h \in disk : Elems(Kids[h]) \subseteq disk

(* When Commit has returned nil for a node the database knew, the node     *)
(* stays on disk for good (with DiskClosed: all of its trie does).         *)
CommittedDurable == committed \subseteq disk

(* A reader that asks for a node that was available when it called Node or *)
(* NodeBlob gets it, although its look at the cache and its look at the    *)
(* disk are two steps between which Commit moves nodes from one to the     *)
(* other.                                                                  *)
ReadNeverMisses == \A g \in Readers : rd[g].pc = "missing" => ~rd[g].known

(* The flush-list is doubly linked from oldest to newest through the live  *)
(* nodes.  The flushPrev of the oldest node is not part of it: insert      *)
(* takes it from newest, which is stale when the list was empty.           *)
FlushListLinked ==
  IF Live = {}
  THEN oldest = Zero
  ELSE /\ oldest \in Live /\ newest \in Live
       /\ flushNext[newest] = Zero
       /\ \A h \in Live \ {newest} :
            flushNext[h] \in Live \ {oldest} /\ flushPrev[flushNext[h]] = h
       /\ \A h \in Live \ {oldest} :
            flushPrev[h] \in Live \ {newest} /\ flushNext[flushPrev[h]] = h

(* The node n steps after the oldest one in the flush-list.                *)
FlushListAt ==
  LET at[n \in 0..Cardinality(Live)] == IF n = 0 THEN oldest ELSE flushNext[at[n - 1]]
  IN  at

(* Walking the flush-list from oldest meets every live node, and meets a   *)
(* child that is not on disk yet before its parent: flushing oldest first  *)
(* would keep the disk closed under children.                              *)
FlushOldestFirst ==
  LET at == FlushListAt
      n  == Cardinality(Live)
      Pos(h) == CHOOSE i \in 0..(n - 1) : at[i] = h
  IN  /\ {at[i] : i \in 0..(n - 1)} \ {Zero} = Live
      /\ \A h \in Live : \A c \in (Live \cap Elems(Kids[h])) \ disk : Pos(c) < Pos(h)

(* The references to c from live nodes: one per occurrence inside a node,  *)
(* one per account leaf linked to it.                                      *)
References(c) ==
  Cardinality(UNION {{<<p, i>> : i \in {j \in DOMAIN Kids[p] : Kids[p][j] = c}} : p \in Live})
    + Cardinality({p \in Live : c \in children[p]})

(* The reference count of a node that exists only in memory is exact       *)
(* after any history of updates, commits, failed commits and crashes.      *)
(* (A node that is also on disk may have lost counts: dereference:236.)    *)
RefCount == pc # "panic" => \A c \in Live \ disk : parents[c] = References(c)

(* A node leaves the cache only when it and all its children, the storage  *)
(* roots linked to it included, are on disk; Crash starts a new cache.     *)
UncacheDurable ==
  [][~Crash => \A h \in Live \ Live' : {h} \cup forChilds(h) \subseteq disk']_vars

(* Every Update and every Commit returns, and so does every Node and       *)
(* NodeBlob, although Update and Commit keep taking the lock.              *)
CallsReturn ==
  /\ (pc # "idle") ~> (pc = "idle")
  /\ \A g \in Readers : (rd[g].pc = "cache") ~> (rd[g].pc \in Returned)

(* The database implements the abstract node store.                        *)
Store == INSTANCE NodeStore WITH avail <- Available, durable <- disk

StoreSpec == Store!StoreSpec
=============================================================================
