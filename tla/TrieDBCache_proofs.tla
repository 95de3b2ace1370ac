-------------------------- MODULE TrieDBCache_proofs --------------------------
(***************************************************************************)
(* The books the cache of TrieDB keeps, for every set of nodes: the        *)
(* reference counts, which no other code reads but a flush by age would,   *)
(* and the order of the flush-list.                                        *)
(***************************************************************************)
EXTENDS TrieDBCommit_proofs

-----------------------------------------------------------------------------
(* The references to a node, one by one.                                   *)

(* The places inside the node p where c occurs.                            *)
Sites(p, c) == {<<p, i>> : i \in {j \in DOMAIN Kids[p] : Kids[p][j] = c}}

Inside(c) == UNION {Sites(p, c) : p \in Live}

Linked(c) == {p \in Live : c \in children[p]}

(* The cache is finite, and the count of a node in it that is not on disk  *)
(* is exact.                                                               *)
CountInv ==
  /\ IsFiniteSet(Live)
  /\ \A c \in Live \ disk : parents[c] = Cardinality(Inside(c)) + Cardinality(Linked(c))

LEMMA SitesCount ==
  ASSUME NEW p \in Hash, NEW c
  PROVE  /\ IsFiniteSet(Sites(p, c))
         /\ Cardinality(Sites(p, c)) = Occurrences(p, c)
         /\ c \notin Elems(Kids[p]) => Sites(p, c) = {}
<1> DEFINE D == {j \in DOMAIN Kids[p] : Kids[p][j] = c}
<1>1. Kids[p] \in Seq(Hash)
  BY HashAssumption
<1>2. DOMAIN Kids[p] = 1..Len(Kids[p]) /\ Len(Kids[p]) \in Nat
  BY <1>1
<1>3. IsFiniteSet(1..Len(Kids[p]))
  BY <1>2, FS_Interval
<1>4. IsFiniteSet(D)
  BY <1>2, <1>3, FS_Subset
<1>5. ExistsBijection(D, Sites(p, c))
  <2> DEFINE f == [i \in D |-> <<p, i>>]
  <2>1. f \in Bijection(D, Sites(p, c))
    BY DEF Bijection, Injection, Surjection, IsInjective, Sites
  <2> QED
    BY <2>1 DEF ExistsBijection
<1>6. IsFiniteSet(Sites(p, c)) /\ Cardinality(Sites(p, c)) = Cardinality(D)
  BY <1>4, <1>5, FS_Bijection
<1>7. c \notin Elems(Kids[p]) => Sites(p, c) = {}
  BY DEF Elems, Sites
<1> QED
  BY <1>6, <1>7 DEF Occurrences

LEMMA InsideFinite ==
  ASSUME IsFiniteSet(Live), Live \subseteq Hash, NEW c
  PROVE  IsFiniteSet(Inside(c)) /\ IsFiniteSet(Linked(c))
<1>1. \A p \in Live : IsFiniteSet(Sites(p, c))
  BY SitesCount
<1> DEFINE SS == {Sites(p, c) : p \in Live}
<1>2. IsFiniteSet(SS)
  <2> DEFINE f == [p \in Live |-> Sites(p, c)]
  <2>1. f \in Surjection(Live, SS)
    BY DEF Surjection
  <2> QED
    BY <2>1, FS_Surjection
<1>3. \A T \in SS : IsFiniteSet(T)
  BY <1>1
<1> HIDE DEF SS
<1>4. IsFiniteSet(UNION SS)
  BY <1>2, <1>3, FS_UNION
<1>5. IsFiniteSet(Linked(c))
  BY FS_Subset DEF Linked
<1> QED
  BY <1>4, <1>5 DEF Inside, SS

-----------------------------------------------------------------------------
(* The counts through insert, reference and cleaner.Put.                   *)

(* The references are those there were when the cache was not touched.     *)
LEMMA SameReferences ==
  ASSUME Live' = Live, children' = children, parents' = parents, disk \subseteq disk', CountInv
  PROVE  CountInv'
<1>1. \A c : Inside(c)' = Inside(c) /\ Linked(c)' = Linked(c)
  BY DEF Inside, Linked, Sites
<1> QED
  BY <1>1 DEF CountInv

(* A new node refers to its children as often as they occur in it, and     *)
(* nothing refers to it: no available node has a child that is not.        *)
LEMMA CountInsert ==
  ASSUME TypeOK, ListInv, CommitInv, CountInv, Insert
  PROVE  CountInv'
<1>0. PICK h \in Hash : h = Head(queue)
  BY DEF Insert, TypeOK
<1>1. /\ pc = "insert" /\ queue # <<>> /\ queue \in Seq(Hash)
      /\ h \in Hash /\ h \in HashZ /\ h # Zero
      /\ insert(h) /\ disk' = disk
  BY <1>0, HashAssumption DEF Insert, TypeOK, HashZ
<1>2. Live' = Live \cup {h} /\ Live \subseteq Hash
  BY <1>1, InsertStep DEF ListInv, Live, TypeOK, HashZ
<1>3. Elems(Kids[h]) \subseteq Available
  BY <1>0, <1>1, ChildrenFirstTail DEF CommitInv, UpdateOrdered
<1>4. CASE h \in dirties
  <2>1. UNCHANGED cacheVars
    BY <1>1, <1>4 DEF insert
  <2> QED
    BY <1>1, <2>1, SameReferences DEF cacheVars, Live
<1>5. CASE h \notin dirties
  <2>1. h \notin Live /\ children' = children
    BY <1>1, <1>5 DEF Live, insert
  <2>2. \A c \in HashZ : parents'[c] = IF c \in dirties THEN parents[c] + Occurrences(h, c) ELSE parents[c]
    BY <1>1, <1>5 DEF insert
  <2>3. children[h] = {} /\ parents[h] = 0
    BY <1>1, <2>1 DEF ListInv, FreshEntries
  <2>4. IsFiniteSet(Live')
    BY <1>2, FS_AddElement DEF CountInv
  <2>5. \A c : Inside(c)' = Inside(c) \cup Sites(h, c) /\ Linked(c)' = Linked(c)
    BY <1>2, <2>1, <2>3 DEF Inside, Linked, Sites
  <2>6. ASSUME NEW c \in Live \ disk
        PROVE  parents'[c] = Cardinality(Inside(c)') + Cardinality(Linked(c)')
    <3>1. Inside(c) \cap Sites(h, c) = {}
      BY <2>1 DEF Inside, Sites
    <3>2. IsFiniteSet(Inside(c)) /\ IsFiniteSet(Sites(h, c)) /\ IsFiniteSet(Linked(c))
      BY <1>1, <1>2, InsideFinite, SitesCount DEF CountInv
    <3>3. Cardinality(Inside(c) \cap Sites(h, c)) = 0
      BY <3>1, FS_EmptySet
    <3>4. Cardinality(Inside(c) \cup Sites(h, c))
            = Cardinality(Inside(c)) + Cardinality(Sites(h, c)) - Cardinality(Inside(c) \cap Sites(h, c))
      BY <3>2, FS_Union
    <3>5. Cardinality(Sites(h, c)) = Occurrences(h, c) /\ Occurrences(h, c) \in Nat
      BY <1>1, SitesCount, OccurrencesType
    <3>6. Cardinality(Inside(c)) \in Nat /\ Cardinality(Linked(c)) \in Nat
      BY <3>2, FS_CardinalityType
    <3>7. c \in dirties /\ c \in HashZ /\ parents[c] = Cardinality(Inside(c)) + Cardinality(Linked(c))
      BY <1>2 DEF CountInv, Live, HashZ
    <3>8. parents'[c] = parents[c] + Occurrences(h, c)
      BY <2>2, <3>7
    <3>9. Cardinality(Inside(c) \cup Sites(h, c)) = Cardinality(Inside(c)) + Occurrences(h, c)
      BY <3>3, <3>4, <3>5, <3>6
    <3>10. Cardinality(Inside(c)') = Cardinality(Inside(c)) + Occurrences(h, c)
      BY <2>5, <3>9, Zenon
    <3>11. Cardinality(Linked(c)') = Cardinality(Linked(c))
      BY <2>5, Zenon
    <3> QED
      BY <3>5, <3>6, <3>7, <3>8, <3>10, <3>11
  <2>7. ASSUME h \notin disk
        PROVE  parents'[h] = Cardinality(Inside(h)') + Cardinality(Linked(h)')
    <3>1. h \notin Available
      BY <2>1, <2>7 DEF Available
    <3>2. \A p \in Live : h \notin Elems(Kids[p]) /\ h \notin children[p]
      BY <1>1, <3>1 DEF CommitInv, NodeAvailable, Available
    <3>3. Sites(h, h) = {} /\ \A p \in Live : Sites(p, h) = {}
      BY <1>1, <1>2, <1>3, <3>1, <3>2, SitesCount
    <3>4. Inside(h)' = {} /\ Linked(h)' = {}
      BY <2>5, <3>2, <3>3 DEF Inside, Linked
    <3>5. parents'[h] = 0
      BY <1>1, <1>5, <2>2, <2>3
    <3> QED
      BY <3>4, <3>5, FS_EmptySet
  <2> QED
    BY <1>1, <1>2, <2>4, <2>6, <2>7 DEF CountInv
<1> QED
  BY <1>4, <1>5

(* A storage root that is linked to an account leaf for the first time is  *)
(* counted once; linked again, it is not.                                  *)
LEMMA CountLink ==
  ASSUME TypeOK, ListInv, CountInv, Link
  PROVE  CountInv'
<1> DEFINE p == Head(links)
           a == Account[Head(links)]
<1>1. p \in Live /\ p \in HashZ /\ Live \subseteq HashZ
  BY ElemsHeadTail DEF Link, TypeOK, ListInv, LinksLive, Live
<1>2. Live' = Live /\ disk' = disk
  BY DEF Link, Live
<1>3. CASE UNCHANGED <<parents, children>>
  BY <1>2, <1>3, SameReferences
<1>4. CASE /\ a \in dirties /\ a \notin children[p]
           /\ parents' = [parents EXCEPT ![a] = @ + 1]
           /\ children' = [children EXCEPT ![p] = @ \cup {a}]
  <2>1. a \in HashZ
    BY <1>4 DEF TypeOK
  <2> HIDE DEF p, a
  <2>2. /\ \A c \in HashZ : parents'[c] = IF c = a THEN parents[c] + 1 ELSE parents[c]
        /\ \A x \in HashZ : children'[x] = IF x = p THEN children[x] \cup {a} ELSE children[x]
    BY <1>1, <1>4, <2>1 DEF TypeOK
  <2>3. \A c : Inside(c)' = Inside(c)
    BY <1>2 DEF Inside, Sites
  <2>4. \A c \in HashZ : Linked(c)' = IF c = a THEN Linked(c) \cup {p} ELSE Linked(c)
    BY <1>1, <1>2, <2>2 DEF Linked
  <2>5. p \notin Linked(a)
    BY <1>4 DEF Linked
  <2>6. ASSUME NEW c \in Live \ disk
        PROVE  parents'[c] = Cardinality(Inside(c)') + Cardinality(Linked(c)')
    <3>1. IsFiniteSet(Inside(c)) /\ IsFiniteSet(Linked(c))
      <4>1. Live \subseteq Hash
        BY DEF Live, TypeOK, HashZ
      <4> QED
        BY <4>1, InsideFinite DEF CountInv
    <3>2. Cardinality(Inside(c)) \in Nat /\ Cardinality(Linked(c)) \in Nat
      BY <3>1, FS_CardinalityType
    <3>3. c \in HashZ /\ parents[c] = Cardinality(Inside(c)) + Cardinality(Linked(c))
      BY <1>1 DEF CountInv
    <3>4. CASE c = a
      <4>1. Cardinality(Linked(c) \cup {p}) = Cardinality(Linked(c)) + 1
        BY <2>5, <3>1, <3>4, FS_AddElement
      <4>2. Cardinality(Linked(c)') = Cardinality(Linked(c)) + 1
        BY <2>4, <3>3, <3>4, <4>1
      <4> QED
        BY <2>2, <2>3, <3>2, <3>3, <3>4, <4>2
    <3>5. CASE c # a
      BY <2>2, <2>3, <2>4, <3>3, <3>5
    <3> QED
      BY <3>4, <3>5
  <2> QED
    BY <1>2, <2>6 DEF CountInv
<1> QED
  BY <1>3, <1>4 DEF Link, reference

(* A node that leaves the cache takes its references away, but it leaves   *)
(* after its children are on disk.                                         *)
LEMMA CountReplay ==
  ASSUME TypeOK, ListInv, CommitInv, ReplayOnDisk, CountInv, Replay
  PROVE  CountInv'
<1> DEFINE h == Head(batch)
<1>1. /\ h \in Hash /\ h \in HashZ /\ h # Zero /\ h = batch[1] /\ 1 \in 1..Len(batch)
      /\ cleanerPut(h) /\ disk' = disk /\ InCommit
  BY HashAssumption DEF Replay, TypeOK, HashZ, InCommit
<1>2. forChilds(batch[1]) \subseteq disk \cup {batch[j] : j \in 1..(1 - 1)}
  BY <1>1 DEF CommitInv, BatchOrdered
<1>3. children[h] \subseteq disk /\ Elems(Kids[h]) \subseteq disk
  BY <1>1, <1>2 DEF forChilds, forGatherChildren
<1>4. Live \subseteq Hash
  BY DEF Live, TypeOK, HashZ
<1> HIDE DEF h
<1>5. CASE h \notin dirties
  BY <1>1, <1>5, SameReferences DEF cleanerPut, cacheVars, Live
<1>6. CASE h \in dirties
  <2>1. /\ Live' = Live \ {h}
        /\ parents' = [parents EXCEPT ![h] = 0]
        /\ children' = [children EXCEPT ![h] = {}]
    BY <1>1, <1>6 DEF cleanerPut, Live
  <2>2. \A c \in HashZ : /\ c # h => parents'[c] = parents[c]
                         /\ c # h => children'[c] = children[c]
    BY <1>1, <2>1 DEF TypeOK
  <2>3. IsFiniteSet(Live')
    BY <2>1, FS_RemoveElement DEF CountInv
  <2>4. ASSUME NEW c \in Live' \ disk'
        PROVE  parents'[c] = Cardinality(Inside(c)') + Cardinality(Linked(c)')
    <3>1. c \in Live /\ c \notin disk /\ c # h /\ c \in HashZ
      BY <1>1, <1>4, <2>1 DEF HashZ
    <3>2. Sites(h, c) = {} /\ c \notin children[h]
      BY <1>1, <1>3, <3>1, SitesCount
    <3>3. Inside(c)' = Inside(c)
      BY <2>1, <3>2 DEF Inside, Sites
    <3>4. Linked(c)' = Linked(c)
      BY <1>4, <2>1, <2>2, <3>2 DEF Linked, HashZ
    <3> QED
      BY <2>2, <3>1, <3>3, <3>4 DEF CountInv
  <2> QED
    BY <2>3, <2>4 DEF CountInv
<1> QED
  BY <1>5, <1>6

LEMMA CountInvStep ==
  ASSUME TypeOK, ListInv, CommitInv, ReplayOnDisk, CountInv, [Next]_vars
  PROVE  CountInv'
<1>1. ASSUME UNCHANGED <<dirties, parents, children>>, disk \subseteq disk' PROVE CountInv'
  BY <1>1, SameReferences DEF Live
<1>2. ASSUME NextOwner \/ InsertDone \/ UpdateDone PROVE CountInv'
  BY <1>1, <1>2 DEF NextOwner, InsertDone, UpdateDone, cacheVars
<1>3. ASSUME CommitStep, ~Replay PROVE CountInv'
  BY <1>1, <1>3 DEF CommitStep, WalkExternal, WalkKid, WalkPut, WalkDone, Submit, SubmitFails,
                    ReplayDone, cacheVars
<1>4. ASSUME NEW h, CommitStart(h) PROVE CountInv'
  BY <1>1, <1>4 DEF CommitStart, cacheVars
<1>5. ASSUME NEW a, NEW b, NEW c, UpdateStart(a, b, c) PROVE CountInv'
  BY <1>1, <1>5 DEF UpdateStart, cacheVars
<1>6. ASSUME NEW g, NEW api, NEW h, ReadBegin(g, api, h) \/ ReadCache(g) \/ ReadDisk(g)
      PROVE  CountInv'
  BY <1>1, <1>6 DEF ReadBegin, ReadCache, ReadDisk, cacheVars
<1>7. ASSUME Crash PROVE CountInv'
  <2>1. Live' = {}
    BY <1>7 DEF Crash, Live
  <2> QED
    BY <2>1, FS_EmptySet DEF CountInv
<1>8. ASSUME UNCHANGED vars PROVE CountInv'
  BY <1>1, <1>8 DEF vars, cacheVars
<1> QED
  BY <1>2, <1>3, <1>4, <1>5, <1>6, <1>7, <1>8, CountInsert, CountLink, CountReplay
     DEF Next, UpdateStep

LEMMA CountInvariant == ASSUME ~PutMayFail PROVE Spec => []CountInv
<1>1. Init => CountInv
  <2>1. Init => Live = {}
    BY DEF Init, Live
  <2> QED
    BY <2>1, FS_EmptySet DEF CountInv
<1>2. TypeOK /\ ListInv /\ ReplayOnDisk /\ CommitInv /\ CountInv /\ [Next]_vars => CountInv'
  BY CountInvStep
<1> QED
  BY <1>1, <1>2, CommitInvariant, PTL DEF Spec

(* The reference count of a node that is only in memory is the number of   *)
(* references to it, after any history of updates, commits, failed commits *)
(* and crashes.                                                            *)
THEOREM CountsAreExact == ASSUME ~PutMayFail PROVE Spec => []RefCount
<1>1. CountInv => RefCount
  BY DEF CountInv, RefCount, References, Inside, Linked, Sites
<1> QED
  BY <1>1, CountInvariant, PTL

-----------------------------------------------------------------------------
(* The order of the flush-list.                                            *)

(* The flush-list is some l of length n, with children before parents.     *)
OrderInv == \E n \in Nat : \E l \in [1..n -> Hash] : IsFlushList(l, n) /\ ChildrenOlder(l, n)

LEMMA OrderUnchanged ==
  ASSUME OrderInv, UNCHANGED <<dirties, flushPrev, flushNext, oldest, newest>>, disk \subseteq disk'
  PROVE  OrderInv'
<1>1. Live' = Live
  BY DEF Live
<1>2. ASSUME NEW n, NEW l, IsFlushList(l, n), ChildrenOlder(l, n)
      PROVE  IsFlushList(l, n)' /\ ChildrenOlder(l, n)'
  BY <1>1, <1>2 DEF IsFlushList, ChildrenOlder
<1> QED
  BY <1>2 DEF OrderInv

(* A new node is inserted after its children, and no node that is cached   *)
(* refers to it.                                                           *)
LEMMA OrderInsert ==
  ASSUME TypeOK, ListInv, CommitInv, OrderInv, Insert
  PROVE  OrderInv'
<1>1. PICK h \in Hash : h = Head(queue)
  BY DEF Insert, TypeOK
<1>2. pc = "insert" /\ queue # <<>> /\ queue \in Seq(Hash) /\ insert(h) /\ disk' = disk
  BY <1>1 DEF Insert, TypeOK
<1>3. CASE h \in dirties
  BY <1>2, <1>3, OrderUnchanged DEF insert, cacheVars
<1>4. CASE h \notin dirties
  <2>1. PICK n \in Nat : \E l \in [1..n -> Hash] : IsFlushList(l, n) /\ ChildrenOlder(l, n)
    BY DEF OrderInv
  <2>2. PICK l \in [1..n -> Hash] : IsFlushList(l, n) /\ ChildrenOlder(l, n)
    BY <2>1
  <2> DEFINE m == Longer(l, n, h)
  <2>3. IsFlushList(m, n + 1)'
    BY <1>2, <1>4, <2>2, InsertList DEF ListInv
  <2>4. /\ \A i \in 1..n : m[i] = l[i] /\ l[i] \in Live
        /\ m[n + 1] = h /\ m \in [1..(n + 1) -> Hash]
    BY <2>2 DEF Longer, IsFlushList
  <2> HIDE DEF m
  <2>5. Elems(Kids[h]) \subseteq Available
    BY <1>1, <1>2, ChildrenFirstTail DEF CommitInv, UpdateOrdered
  <2>6. \A i \in 1..n : Elems(Kids[l[i]]) \subseteq Available
    BY <2>4 DEF CommitInv, NodeAvailable, Available
  <2>7. h \notin disk => h \notin Available
    BY <1>4 DEF Available, Live
  <2>8. ASSUME NEW i \in 1..(n + 1), NEW j \in 1..(n + 1), m[j] \in Elems(Kids[m[i]]) \ disk
        PROVE  j < i
    <3>1. CASE i \in 1..n /\ j \in 1..n
      BY <2>2, <2>4, <2>8, <3>1 DEF ChildrenOlder
    <3>2. CASE j = n + 1
      <4>1. m[j] \in Available
        BY <2>4, <2>5, <2>6, <2>8
      <4> QED
        BY <2>4, <2>7, <2>8, <3>2, <4>1
    <3> QED
      BY <3>1, <3>2
  <2>9. ChildrenOlder(m, n + 1)'
    BY <1>2, <2>8 DEF ChildrenOlder
  <2>10. n + 1 \in Nat
    OBVIOUS
  <2> QED
    BY <2>3, <2>4, <2>9, <2>10 DEF OrderInv
<1> QED
  BY <1>3, <1>4

(* Taking a node out leaves the others in their order.                     *)
LEMMA OrderReplay ==
  ASSUME TypeOK, ListInv, OrderInv, Replay
  PROVE  OrderInv'
<1>1. PICK h \in Hash : h = Head(batch)
  BY DEF Replay, TypeOK
<1>2. cleanerPut(h) /\ disk' = disk
  BY <1>1 DEF Replay
<1>3. CASE h \notin dirties
  BY <1>2, <1>3, OrderUnchanged DEF cleanerPut, cacheVars
<1>4. CASE h \in dirties
  <2>1. unlink(h) /\ dirties' = dirties \ {h}
    BY <1>2, <1>4 DEF cleanerPut
  <2>2. PICK n \in Nat : \E l \in [1..n -> Hash] : IsFlushList(l, n) /\ ChildrenOlder(l, n)
    BY DEF OrderInv
  <2>3. PICK l \in [1..n -> Hash] : IsFlushList(l, n) /\ ChildrenOlder(l, n)
    BY <2>2
  <2>4. PICK k \in 1..n : h = l[k]
    BY <1>4, <2>3, HashAssumption DEF IsFlushList, Live
  <2> DEFINE m == Shorter(l, n, k)
  <2>5. IsFlushList(m, n - 1)'
    BY <2>1, <2>3, <2>4, UnlinkList DEF ListInv
  <2>6. /\ \A i \in 1..(n - 1) : m[i] = l[IF i < k THEN i ELSE i + 1]
        /\ m \in [1..(n - 1) -> Hash]
        /\ n - 1 \in Nat
    BY <2>3, <2>4 DEF Shorter
  <2> HIDE DEF m
  <2>7. ASSUME NEW i \in 1..(n - 1), NEW j \in 1..(n - 1), m[j] \in Elems(Kids[m[i]]) \ disk
        PROVE  j < i
    <3>1. PICK a \in 1..n : a = IF i < k THEN i ELSE i + 1
      OBVIOUS
    <3>2. PICK b \in 1..n : b = IF j < k THEN j ELSE j + 1
      OBVIOUS
    <3>3. l[b] \in Elems(Kids[l[a]]) \ disk
      BY <2>6, <2>7, <3>1, <3>2
    <3>4. b < a
      BY <2>3, <3>3 DEF ChildrenOlder
    <3> QED
      BY <3>1, <3>2, <3>4
  <2>8. ChildrenOlder(m, n - 1)'
    BY <1>2, <2>7 DEF ChildrenOlder
  <2> QED
    BY <2>5, <2>6, <2>8 DEF OrderInv
<1> QED
  BY <1>3, <1>4

LEMMA OrderEmpty ==
  ASSUME Live = {}, oldest = Zero
  PROVE  OrderInv
<1> DEFINE l == [i \in 1..0 |-> Zero]
<1>1. l \in [1..0 -> Hash]
  OBVIOUS
<1>2. IsFlushList(l, 0) /\ ChildrenOlder(l, 0)
  BY <1>1 DEF IsFlushList, ChildrenOlder
<1> QED
  BY <1>1, <1>2 DEF OrderInv

LEMMA OrderInvStep ==
  ASSUME TypeOK, ListInv, CommitInv, OrderInv, [Next]_vars
  PROVE  OrderInv'
<1>1. ASSUME UNCHANGED cacheVars, disk \subseteq disk' PROVE OrderInv'
  BY <1>1, OrderUnchanged DEF cacheVars
<1>2. ASSUME NextOwner \/ InsertDone \/ UpdateDone PROVE OrderInv'
  BY <1>1, <1>2 DEF NextOwner, InsertDone, UpdateDone
<1>3. ASSUME Link PROVE OrderInv'
  BY <1>3, OrderUnchanged DEF Link
<1>4. ASSUME CommitStep, ~Replay PROVE OrderInv'
  BY <1>1, <1>4 DEF CommitStep, WalkExternal, WalkKid, WalkPut, WalkDone, Submit, SubmitFails, ReplayDone
<1>5. ASSUME NEW h, CommitStart(h) PROVE OrderInv'
  BY <1>1, <1>5 DEF CommitStart
<1>6. ASSUME NEW a, NEW b, NEW c, UpdateStart(a, b, c) PROVE OrderInv'
  BY <1>1, <1>6 DEF UpdateStart
<1>7. ASSUME NEW g, NEW api, NEW h, ReadBegin(g, api, h) \/ ReadCache(g) \/ ReadDisk(g)
      PROVE  OrderInv'
  BY <1>1, <1>7 DEF ReadBegin, ReadCache, ReadDisk
<1>8. ASSUME Crash PROVE OrderInv'
  <2>1. (Live = {})' /\ (oldest = Zero)'
    BY <1>8 DEF Crash, Live
  <2> DEFINE l == [i \in 1..0 |-> Zero]
  <2>2. l \in [1..0 -> Hash]
    OBVIOUS
  <2>3. (IsFlushList(l, 0) /\ ChildrenOlder(l, 0))'
    BY <2>1, <2>2 DEF IsFlushList, ChildrenOlder
  <2> QED
    BY <2>2, <2>3 DEF OrderInv
<1>9. ASSUME UNCHANGED vars PROVE OrderInv'
  BY <1>1, <1>9 DEF vars
<1> QED
  BY <1>2, <1>3, <1>4, <1>5, <1>6, <1>7, <1>8, <1>9, OrderInsert, OrderReplay DEF Next, UpdateStep

LEMMA OrderInvariant == ASSUME ~PutMayFail PROVE Spec => []OrderInv
<1>1. Init => OrderInv
  BY OrderEmpty DEF Init, Live
<1>2. TypeOK /\ ListInv /\ CommitInv /\ OrderInv /\ [Next]_vars => OrderInv'
  BY OrderInvStep
<1> QED
  BY <1>1, <1>2, CommitInvariant, PTL DEF Spec

(* Two numberings that agree on 0 and step alike agree: the node that is i *)
(* steps from oldest is the i-th one of the flush-list.                    *)
LEMMA WalkOfFlushList ==
  ASSUME ListInv, NEW n \in Nat, NEW l \in [1..n -> Hash], IsFlushList(l, n)
  PROVE  /\ Cardinality(Live) = n
         /\ \A i \in 0..(n - 1) : FlushListAt[i] = l[i + 1]
<1>1. Cardinality(Live) = n
  <2>1. l \in Bijection(1..n, Live)
    BY DEF IsFlushList, Bijection, Injection, Surjection, IsInjective
  <2> QED
    BY <2>1, FS_CountingElements DEF ExistsBijection
<1>2. IF n = 0 THEN oldest = Zero ELSE oldest = l[1] /\ newest = l[n] /\ flushNext[l[n]] = Zero
  BY DEF IsFlushList
<1>3. \A i \in 1..(n - 1) : flushNext[l[i]] = l[i + 1]
  BY DEF IsFlushList
<1> DEFINE at == FlushListAt
           w  == [i \in 0..n |-> IF i < n THEN l[i + 1] ELSE Zero]
<1>4. w = [i \in 0..n |-> IF i = 0 THEN oldest ELSE flushNext[w[i - 1]]]
  <2>1. ASSUME NEW i \in 0..n PROVE w[i] = IF i = 0 THEN oldest ELSE flushNext[w[i - 1]]
    <3>1. CASE i = 0
      BY <1>2, <3>1
    <3>2. CASE i # 0
      <4>1. i - 1 \in 0..n /\ i - 1 < n /\ w[i - 1] = l[i]
        BY <3>2
      <4>2. i = n \/ i \in 1..(n - 1)
        BY <3>2
      <4> QED
        BY <1>2, <1>3, <3>2, <4>1, <4>2
    <3> QED
      BY <3>1, <3>2
  <2>2. w = [i \in 0..n |-> w[i]]
    OBVIOUS
  <2> HIDE DEF w
  <2> QED
    BY <2>1, <2>2
<1>5. at = [i \in 0..n |-> IF i = 0 THEN oldest ELSE flushNext[at[i - 1]]]
  <2> HIDE DEF w
  <2>1. at = CHOOSE g : g = [i \in 0..n |-> IF i = 0 THEN oldest ELSE flushNext[g[i - 1]]]
    BY <1>1 DEF FlushListAt
  <2>2. \E g : g = [i \in 0..n |-> IF i = 0 THEN oldest ELSE flushNext[g[i - 1]]]
    BY <1>4
  <2> HIDE DEF at
  <2> QED
    BY <2>1, <2>2
<1> HIDE DEF at
<1>6. \A i \in 0..(n - 1) : at[i] = l[i + 1]
  <2> DEFINE T == {i \in 0..(n - 1) : at[i] # l[i + 1]}
  <2>1. SUFFICES ASSUME T # {} PROVE FALSE
    OBVIOUS
  <2>2. T \subseteq Nat
    OBVIOUS
  <2>3. PICK i \in T : \A j \in T : <<j, i>> \notin OpToRel(<, Nat)
    BY <2>1, <2>2, NatLessThanWellFounded, WFMin
  <2>4. i \in 0..(n - 1) /\ i \in 0..n /\ at[i] # l[i + 1]
    <3>1. i \in 0..(n - 1) /\ at[i] # l[i + 1]
      BY <2>3, Zenon
    <3>2. i \in 0..n
      BY <3>1
    <3> QED
      BY <3>1, <3>2
  <2>5. i # 0
    BY <1>2, <1>5, <2>4
  <2>6. i - 1 \in 0..(n - 1) /\ i \in 1..(n - 1) /\ i - 1 < i /\ i - 1 \in Nat /\ i \in Nat
    BY <2>4, <2>5
  <2>7. <<i - 1, i>> \in OpToRel(<, Nat)
    BY <2>6 DEF OpToRel
  <2>8. i - 1 \notin T
    BY <2>3, <2>7
  <2>9. at[i - 1] = l[i]
    BY <2>6, <2>8
  <2>10. at[i] = flushNext[at[i - 1]]
    BY <1>5, <2>4, <2>5
  <2> QED
    BY <1>3, <2>4, <2>6, <2>9, <2>10
<1> QED
  BY <1>1, <1>6 DEF at

LEMMA OrderIsOldestFirst ==
  ASSUME ListInv, OrderInv
  PROVE  FlushOldestFirst
<1>1. PICK n \in Nat : \E l \in [1..n -> Hash] : IsFlushList(l, n) /\ ChildrenOlder(l, n)
  BY DEF OrderInv
<1>2. PICK l \in [1..n -> Hash] : IsFlushList(l, n) /\ ChildrenOlder(l, n)
  BY <1>1
<1> DEFINE at == FlushListAt
           Pos(h) == CHOOSE i \in 0..(n - 1) : at[i] = h
<1>3. Cardinality(Live) = n /\ \A i \in 0..(n - 1) : at[i] = l[i + 1]
  BY <1>2, WalkOfFlushList
<1>4. /\ Live = {l[i] : i \in 1..n}
      /\ \A i, j \in 1..n : l[i] = l[j] => i = j
      /\ Zero \notin Live
  BY <1>2 DEF IsFlushList, Live
<1> HIDE DEF at
<1>5. {at[i] : i \in 0..(n - 1)} \ {Zero} = Live
  <2>1. \A i \in 0..(n - 1) : i + 1 \in 1..n
    OBVIOUS
  <2>2. \A i \in 1..n : i - 1 \in 0..(n - 1) /\ (i - 1) + 1 = i
    OBVIOUS
  <2>3. ASSUME NEW i \in 0..(n - 1) PROVE at[i] \in Live
    BY <1>3, <1>4, <2>1
  <2>4. ASSUME NEW h \in Live PROVE \E i \in 0..(n - 1) : h = at[i]
    <3>1. PICK i \in 1..n : h = l[i]
      BY <1>4
    <3>2. i - 1 \in 0..(n - 1) /\ at[i - 1] = l[i]
      BY <1>3, <2>2
    <3> QED
      BY <3>1, <3>2
  <2> DEFINE W == {at[i] : i \in 0..(n - 1)}
  <2>5. W \subseteq Live
    BY <2>3
  <2>6. Live \subseteq W
    BY <2>4
  <2> HIDE DEF W
  <2>7. W \ {Zero} = Live
    BY <1>4, <2>5, <2>6
  <2> QED
    BY <2>7 DEF W
<1>6. ASSUME NEW h \in Live PROVE Pos(h) \in 0..(n - 1) /\ l[Pos(h) + 1] = h
  <2>1. PICK i \in 1..n : h = l[i]
    BY <1>4
  <2>2. i - 1 \in 0..(n - 1) /\ at[i - 1] = h
    BY <1>3, <2>1
  <2>3. Pos(h) \in 0..(n - 1) /\ at[Pos(h)] = h
    BY <2>2
  <2> QED
    BY <1>3, <2>3
<1>7. ASSUME NEW h \in Live, NEW c \in (Live \cap Elems(Kids[h])) \ disk PROVE Pos(c) < Pos(h)
  <2> HIDE DEF Pos
  <2>1. Pos(h) + 1 \in 1..n /\ Pos(c) + 1 \in 1..n /\ Pos(h) \in Nat /\ Pos(c) \in Nat
    BY <1>6
  <2>2. l[Pos(c) + 1] \in Elems(Kids[l[Pos(h) + 1]]) \ disk
    BY <1>6
  <2>3. Pos(c) + 1 < Pos(h) + 1
    BY <1>2, <2>1, <2>2 DEF ChildrenOlder
  <2> QED
    BY <2>1, <2>3
<1> QED
  BY <1>3, <1>5, <1>7 DEF FlushOldestFirst, at

(* Walking the flush-list from oldest to newest meets every cached node,   *)
(* and a child that is not on disk before its parents: writing the oldest  *)
(* node first would keep the disk closed.                                  *)
THEOREM OldestCanBeFlushed == ASSUME ~PutMayFail PROVE Spec => []FlushOldestFirst
<1>1. ListInv /\ OrderInv => FlushOldestFirst
  BY OrderIsOldestFirst
<1> QED
  BY <1>1, ListInvariant, OrderInvariant, PTL
=============================================================================
