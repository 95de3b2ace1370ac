------------------------- MODULE TrieDBCommit_proofs --------------------------
(***************************************************************************)
(* Commit of TrieDB, for every set of nodes, every shape of tries and      *)
(* every size of the batches: which nodes are on disk, and when.           *)
(*                                                                         *)
(* A batch.Put that fails drops a node and Commit does not notice, so what *)
(* is said of the disk is said of a store whose Put never fails, as the    *)
(* one of memorydb never does.  Submit may fail, and the process may crash *)
(* at any moment.                                                          *)
(***************************************************************************)
EXTENDS TrieDB_proofs

-----------------------------------------------------------------------------
(* The inductive invariant.                                                *)

(* The node sets that Update has not inserted yet hold children before     *)
(* their parents, up to what is available.                                 *)
UpdateOrdered ==
  pc = "insert" => /\ \A s \in todo : ChildrenFirst(s, Available)
                   /\ ChildrenFirst(final, Available)
                   /\ ChildrenFirst(queue, Available)

InCommit == pc \in {"walk", "submit", "replay"}

(* The nodes an activation of commit stands for and those it will visit.   *)
Reached(f) == {f.hash} \cup f.ext \cup Elems(f.kids)

(* Commit meets available nodes only, or the metaroot.                     *)
WalkAvailable ==
  InCommit => /\ \A i \in 1..Len(stack) : Reached(stack[i]) \subseteq Available \cup {Zero}
              /\ Elems(batch) \subseteq Available

(* The node that the activation above the i-th one stands for.             *)
Above(i) == IF i < Len(stack) THEN {stack[i + 1].hash} ELSE {}

(* A child of a node that commit is in has still to be visited, is being   *)
(* visited, is in the batch, or is on disk.                                *)
WalkVisited ==
  InCommit =>
    \A i \in 1..Len(stack) :
      forChilds(stack[i].hash) \subseteq
        stack[i].ext \cup Elems(stack[i].kids) \cup Above(i) \cup disk \cup Elems(batch)

(* The batch holds a node after its children, inside it or linked to it.   *)
BatchOrdered ==
  InCommit =>
    \A i \in 1..Len(batch) : forChilds(batch[i]) \subseteq disk \cup {batch[j] : j \in 1..(i - 1)}

(* The argument of Commit is the outermost activation, in the batch or on  *)
(* disk; the last batch is submitted when no activation is left.           *)
TargetKept ==
  /\ InCommit /\ target # Zero =>
       \/ target \in disk \cup Elems(batch)
       \/ stack # <<>> /\ stack[1].hash = target
  /\ pc \in {"submit", "replay"} /\ cont = "idle" => stack = <<>>

CommitInv ==
  /\ NodeAvailable /\ DiskClosed /\ CommittedDurable
  /\ UpdateOrdered
  /\ WalkAvailable /\ WalkVisited /\ BatchOrdered /\ TargetKept

-----------------------------------------------------------------------------
(* Sequences of nodes.                                                     *)

LEMMA ElemsAppend ==
  ASSUME NEW S, NEW s \in Seq(S), NEW e \in S
  PROVE  Elems(Append(s, e)) = Elems(s) \cup {e}
<1>1. /\ Append(s, e) \in Seq(S) /\ Len(Append(s, e)) = Len(s) + 1 /\ Len(s) \in Nat
      /\ \A i \in 1..Len(s) : Append(s, e)[i] = s[i]
      /\ Append(s, e)[Len(s) + 1] = e
  BY AppendProperties
<1>2. DOMAIN Append(s, e) = 1..(Len(s) + 1) /\ DOMAIN s = 1..Len(s)
  BY <1>1
<1>3. ASSUME NEW x \in Elems(s) \cup {e} PROVE x \in Elems(Append(s, e))
  <2>1. CASE x = e
    <3>1. Len(s) + 1 \in 1..(Len(s) + 1)
      BY <1>1
    <3> QED
      BY <1>1, <1>2, <2>1, <3>1 DEF Elems
  <2>2. CASE x \in Elems(s)
    <3>1. PICK i \in 1..Len(s) : x = s[i]
      BY <1>2, <2>2 DEF Elems
    <3>2. i \in 1..(Len(s) + 1)
      BY <1>1
    <3> QED
      BY <1>1, <1>2, <3>1, <3>2 DEF Elems
  <2> QED
    BY <1>3, <2>1, <2>2
<1>4. ASSUME NEW x \in Elems(Append(s, e)) PROVE x \in Elems(s) \cup {e}
  <2>1. PICK i \in 1..(Len(s) + 1) : x = Append(s, e)[i]
    BY <1>2, <1>4 DEF Elems
  <2>2. i \in 1..Len(s) \/ i = Len(s) + 1
    BY <1>1
  <2> QED
    BY <1>1, <1>2, <2>1, <2>2 DEF Elems
<1> QED
  BY <1>3, <1>4

(* A node set that is ordered when less is available is ordered.           *)
LEMMA ChildrenFirstMono ==
  ASSUME NEW s, NEW K, NEW L, K \subseteq L, ChildrenFirst(s, K)
  PROVE  ChildrenFirst(s, L)
BY DEF ChildrenFirst

(* The first node of a set has its children; with it, so do the others.    *)
LEMMA ChildrenFirstTail ==
  ASSUME NEW K, NEW s \in Seq(Hash), s # <<>>, ChildrenFirst(s, K)
  PROVE  /\ Elems(Kids[Head(s)]) \subseteq K
         /\ ChildrenFirst(Tail(s), K \cup {Head(s)})
<1>1. /\ Len(s) \in Nat \ {0} /\ DOMAIN s = 1..Len(s)
      /\ Head(s) = s[1]
  OBVIOUS
<1>2. /\ Tail(s) \in Seq(Hash) /\ Len(Tail(s)) = Len(s) - 1
      /\ \A i \in 1..Len(Tail(s)) : Tail(s)[i] = s[i + 1]
  BY HeadTailProperties
<1>3. DOMAIN Tail(s) = 1..(Len(s) - 1)
  BY <1>2
<1>4. Elems(Kids[s[1]]) \subseteq K \cup {s[j] : j \in 1..(1 - 1)}
  BY <1>1 DEF ChildrenFirst
<1>5. ASSUME NEW i \in 1..(Len(s) - 1)
      PROVE  Elems(Kids[Tail(s)[i]]) \subseteq K \cup {Head(s)} \cup {Tail(s)[j] : j \in 1..(i - 1)}
  <2>1. i + 1 \in 1..Len(s) /\ Tail(s)[i] = s[i + 1]
    BY <1>1, <1>2
  <2>2. Elems(Kids[s[i + 1]]) \subseteq K \cup {s[j] : j \in 1..(i + 1 - 1)}
    BY <1>1, <2>1 DEF ChildrenFirst
  <2>3. ASSUME NEW j \in 1..(i + 1 - 1)
        PROVE  s[j] = Head(s) \/ \E k \in 1..(i - 1) : s[j] = Tail(s)[k]
    <3>1. CASE j = 1
      BY <1>1, <3>1
    <3>2. CASE j # 1
      <4>1. j - 1 \in 1..(i - 1) /\ j - 1 \in 1..Len(Tail(s)) /\ (j - 1) + 1 = j
        BY <1>1, <1>2, <3>2
      <4> QED
        BY <1>2, <4>1
    <3> QED
      BY <3>1, <3>2
  <2> QED
    BY <2>1, <2>2, <2>3
<1>6. Elems(Kids[Head(s)]) \subseteq K
  BY <1>1, <1>4
<1>7. ChildrenFirst(Tail(s), K \cup {Head(s)})
  BY <1>3, <1>5, Zenon DEF ChildrenFirst
<1> QED
  BY <1>6, <1>7

-----------------------------------------------------------------------------
(* The stack of commit.                                                    *)

(* The innermost activation is replaced by f and commit(c) is called: the  *)
(* other activations stay, and a node that is not cached is not entered.   *)
LEMMA EnterStack ==
  ASSUME TypeOK, stack # <<>>, NEW f \in Frames, NEW c \in HashZ,
         NEW n \in Nat, n = Len(stack), NEW t, t = Enter(Append(Pop, f), c)
  PROVE  /\ t \in Seq(Frames)
         /\ Len(t) = IF c \in dirties THEN n + 1 ELSE n
         /\ \A i \in 1..(n - 1) : t[i] = stack[i]
         /\ t[n] = f
         /\ c \in dirties => t[n + 1] = Frame(c)
<1>1. /\ n \in Nat \ {0}
      /\ Pop \in Seq(Frames)
      /\ Len(Pop) = n - 1
      /\ \A i \in 1..(n - 1) : Pop[i] = stack[i]
  BY TopType
<1> DEFINE u == Append(Pop, f)
<1>2. /\ u \in Seq(Frames) /\ Len(u) = n
      /\ \A i \in 1..(n - 1) : u[i] = stack[i]
      /\ u[n] = f
  BY <1>1, AppendProperties
<1> HIDE DEF u
<1>3. CASE c \notin dirties
  BY <1>2, <1>3 DEF Enter, u
<1>4. CASE c \in dirties
  <2>1. Frame(c) \in Frames /\ t = Append(u, Frame(c))
    BY <1>4, FrameType DEF Enter, u
  <2>2. t \in Seq(Frames) /\ Len(t) = n + 1 /\ \A i \in 1..n : t[i] = u[i]
    BY <1>2, <2>1, AppendProperties
  <2>3. t[n + 1] = Frame(c)
    BY <1>2, <2>1, AppendProperties
  <2>4. n \in 1..n /\ \A i \in 1..(n - 1) : i \in 1..n
    BY <1>1
  <2> QED
    BY <1>2, <1>4, <2>2, <2>3, <2>4
<1> QED
  BY <1>3, <1>4

-----------------------------------------------------------------------------
(* Update.                                                                 *)

LEMMA UpdateKeeps ==
  ASSUME TypeOK, ListInv, CommitInv,
         \/ \E storage \in SUBSET StorageLists, account \in AccountLists \cup {<<>>}, b \in BOOLEAN :
              UpdateStart(storage, account, b)
         \/ UpdateStep
  PROVE  CommitInv'
<1>1. ASSUME ~InCommit', disk' = disk, committed' = committed, NodeAvailable', UpdateOrdered'
      PROVE  CommitInv'
  BY <1>1 DEF CommitInv, InCommit, DiskClosed, CommittedDurable, WalkAvailable, WalkVisited,
              BatchOrdered, TargetKept
<1>2. ASSUME UNCHANGED <<cacheVars, disk>>
      PROVE  NodeAvailable' /\ Available' = Available
  BY <1>2 DEF CommitInv, NodeAvailable, Available, Live, cacheVars
<1>3. ASSUME NEW storage, NEW account, NEW b, UpdateStart(storage, account, b)
      PROVE  CommitInv'
  <2>1. ~InCommit' /\ NodeAvailable' /\ Available' = Available
    BY <1>2, <1>3 DEF UpdateStart, InCommit
  <2>2. UpdateOrdered'
    BY <1>3, <2>1 DEF UpdateStart, UpdateOrdered, ChildrenFirst
  <2> QED
    BY <1>1, <1>3, <2>1, <2>2 DEF UpdateStart
<1>4. ASSUME NextOwner PROVE CommitInv'
  <2>1. ~InCommit' /\ NodeAvailable' /\ Available' = Available
    BY <1>2, <1>4 DEF NextOwner, InCommit
  <2>2. ChildrenFirst(<<>>, Available)
    BY DEF ChildrenFirst
  <2>3. UpdateOrdered'
    BY <1>4, <2>1, <2>2 DEF NextOwner, UpdateOrdered, CommitInv
  <2> QED
    BY <1>1, <1>4, <2>1, <2>3 DEF NextOwner
<1>5. ASSUME Insert PROVE CommitInv'
  <2> DEFINE h == Head(queue)
  <2>1. pc = "insert" /\ queue # <<>> /\ queue \in Seq(Hash) /\ h \in Hash /\ insert(h)
    BY <1>5 DEF Insert, TypeOK
  <2>2. pc' = pc /\ Live' = Live \cup {h}
    BY <2>1, InsertStep DEF ListInv
  <2>3. disk' = disk /\ Available' = Available \cup {h} /\ children' = children
    BY <1>5, <2>2 DEF Insert, insert, cacheVars, Available
  <2>4. Elems(Kids[h]) \subseteq Available /\ ChildrenFirst(Tail(queue), Available')
    BY <2>1, <2>3, ChildrenFirstTail DEF CommitInv, UpdateOrdered
  <2>5. NodeAvailable'
    <3>1. h \in Live \/ children[h] = {}
      BY <2>1 DEF ListInv, FreshEntries, HashZ
    <3> QED
      BY <2>2, <2>3, <2>4, <3>1 DEF NodeAvailable, CommitInv
  <2>6. UpdateOrdered'
    BY <1>5, <2>1, <2>3, <2>4, ChildrenFirstMono DEF CommitInv, UpdateOrdered, Insert
  <2> QED
    BY <1>1, <1>5, <2>1, <2>2, <2>5, <2>6 DEF Insert, InCommit
<1>6. ASSUME InsertDone \/ UpdateDone PROVE CommitInv'
  <2>1. ~InCommit' /\ pc' # "insert" /\ NodeAvailable'
    BY <1>2, <1>6 DEF InsertDone, UpdateDone, InCommit
  <2> QED
    BY <1>1, <1>6, <2>1 DEF InsertDone, UpdateDone, UpdateOrdered
<1>7. ASSUME Link PROVE CommitInv'
  <2>1. ~InCommit' /\ pc' # "insert" /\ Live' = Live /\ disk' = disk /\ Available' = Available
    BY <1>7 DEF Link, reference, InCommit, Live, Available
  <2>2. Head(links) \in HashZ
    BY <1>7 DEF Link, TypeOK, HashZ
  <2>3. \A p \in HashZ : children'[p] \subseteq children[p] \cup dirties
    <3>1. CASE children' = children
      BY <3>1
    <3>2. CASE reference(Account[Head(links)], Head(links))
      BY <2>2, <3>2, SMTT(40) DEF reference, TypeOK
    <3> QED
      BY <1>7, <3>1, <3>2 DEF Link
  <2>4. dirties \subseteq Available \cup {Zero} /\ Live \subseteq HashZ
    BY DEF Available, Live, TypeOK
  <2>5. NodeAvailable'
    BY <2>1, <2>3, <2>4 DEF NodeAvailable, CommitInv
  <2> QED
    BY <1>1, <1>7, <2>1, <2>5 DEF Link, UpdateOrdered
<1> QED
  BY <1>3, <1>4, <1>5, <1>6, <1>7 DEF UpdateStep

-----------------------------------------------------------------------------
(* Commit: the walk.                                                       *)

(* Nothing but the stack changes.                                          *)
LEMMA StackOnly ==
  ASSUME CommitInv, InCommit, UNCHANGED <<cacheVars, disk, pc, batch, cont, target, committed>>,
         WalkAvailable', WalkVisited', TargetKept'
  PROVE  CommitInv'
<1>1. Live' = Live /\ Available' = Available /\ \A h : forChilds(h)' = forChilds(h)
  BY DEF cacheVars, Live, Available, forChilds, forGatherChildren
<1>2. NodeAvailable' /\ DiskClosed' /\ CommittedDurable' /\ UpdateOrdered'
  BY <1>1 DEF CommitInv, NodeAvailable, DiskClosed, CommittedDurable, UpdateOrdered, InCommit, cacheVars
<1>3. BatchOrdered'
  BY <1>1 DEF CommitInv, BatchOrdered, InCommit
<1> QED
  BY <1>2, <1>3 DEF CommitInv

(* commit goes on to the child c of its innermost activation.              *)
LEMMA VisitKeeps ==
  ASSUME TypeOK, ListInv, CommitInv, pc = "walk", stack # <<>>,
         NEW f \in Frames, f.hash = Top.hash,
         NEW c \in HashZ, {c} \cup f.ext \cup Elems(f.kids) = Top.ext \cup Elems(Top.kids),
         stack' = Enter(Append(Pop, f), c),
         UNCHANGED <<cacheVars, disk, pc, batch, cont, target, committed>>
  PROVE  CommitInv'
<1> DEFINE n == Len(stack)
<1>1. /\ n \in Nat \ {0} /\ stack[n] = Top /\ InCommit /\ InCommit'
  BY TopType DEF Top, InCommit
<1> HIDE DEF n
<1>2. /\ Len(stack') = IF c \in dirties THEN n + 1 ELSE n
      /\ \A i \in 1..(n - 1) : stack'[i] = stack[i]
      /\ stack'[n] = f
      /\ c \in dirties => stack'[n + 1] = Frame(c)
  BY <1>1, EnterStack DEF n
<1>3. Live' = Live /\ Available' = Available /\ \A h : forChilds(h)' = forChilds(h)
  BY DEF cacheVars, Live, Available, forChilds, forGatherChildren
<1>4. Reached(Top) \subseteq Available \cup {Zero}
  BY <1>1 DEF n, CommitInv, WalkAvailable
<1>5. c \in Available \cup {Zero} /\ Reached(f) \subseteq Available \cup {Zero}
  BY <1>4 DEF Reached
<1>6. c \in dirties => Reached(Frame(c)) \subseteq Available \cup {Zero}
  <2>1. children[Zero] = {} /\ forGatherChildren(Zero) = <<>>
    BY DEF ListInv, FreshEntries, HashZ, Live, forGatherChildren
  <2>2. CASE c = Zero
    BY <2>1, <2>2, ElemsEmpty DEF Reached, Frame
  <2>3. CASE c \in dirties /\ c # Zero
    <3>1. c \in Live /\ c \in Available
      BY <2>3 DEF Live, Available
    <3>2. children[c] \subseteq Available \cup {Zero} /\ Elems(Kids[c]) \subseteq Available
      BY <3>1 DEF CommitInv, NodeAvailable
    <3> QED
      BY <2>3, <3>1, <3>2 DEF Reached, Frame, forGatherChildren
  <2> QED
    BY <2>2, <2>3
<1>7. c \notin dirties => c \in disk
  BY <1>5 DEF Available, Live, TypeOK
<1>8. WalkAvailable'
  <2>1. \A i \in 1..(n - 1) : Reached(stack[i]) \subseteq Available \cup {Zero}
    BY <1>1 DEF n, CommitInv, WalkAvailable
  <2>2. ASSUME NEW i \in 1..Len(stack') PROVE Reached(stack'[i]) \subseteq Available \cup {Zero}
    <3>1. i \in 1..(n - 1) \/ i = n \/ (i = n + 1 /\ c \in dirties)
      BY <1>1, <1>2
    <3> QED
      BY <1>2, <1>5, <1>6, <2>1, <3>1
  <2>3. Elems(batch) \subseteq Available
    BY <1>1 DEF CommitInv, WalkAvailable
  <2> QED
    BY <1>3, <2>2, <2>3 DEF WalkAvailable
<1>9. WalkVisited'
  <2> DEFINE out(i) == stack[i].ext \cup Elems(stack[i].kids) \cup Above(i) \cup disk \cup Elems(batch)
  <2>1. \A i \in 1..n : forChilds(stack[i].hash) \subseteq out(i)
    BY <1>1 DEF n, CommitInv, WalkVisited
  <2>2. ASSUME NEW i \in 1..Len(stack')
        PROVE  forChilds(stack'[i].hash) \subseteq
                 stack'[i].ext \cup Elems(stack'[i].kids) \cup Above(i)' \cup disk \cup Elems(batch)
    <3>1. CASE i < n - 1
      <4>1. i \in 1..(n - 1) /\ i + 1 \in 1..(n - 1) /\ i < Len(stack) /\ i < Len(stack')
        BY <1>1, <1>2, <3>1 DEF n
      <4>2. Above(i)' = Above(i) /\ stack'[i] = stack[i]
        BY <1>2, <4>1 DEF Above
      <4> QED
        BY <1>1, <2>1, <4>1, <4>2
    <3>2. CASE i = n - 1
      <4>1. i \in 1..(n - 1) /\ i \in 1..n /\ i + 1 = n /\ i < Len(stack) /\ i < Len(stack')
        BY <1>1, <1>2, <3>2 DEF n
      <4>2. Above(i)' = Above(i) /\ stack'[i] = stack[i]
        BY <1>1, <1>2, <4>1 DEF Above
      <4> QED
        BY <1>1, <2>1, <4>1, <4>2
    <3>3. CASE i = n
      <4>1. forChilds(Top.hash) \subseteq Top.ext \cup Elems(Top.kids) \cup disk \cup Elems(batch)
        BY <1>1, <2>1 DEF n, Above
      <4>2. c \in Above(i)' \cup disk
        BY <1>2, <1>1, <1>7, <3>3 DEF Above, Frame
      <4> QED
        BY <1>2, <3>3, <4>1, <4>2
    <3>4. CASE i = n + 1 /\ c \in dirties
      BY <1>2, <3>4 DEF Frame, forChilds
    <3>5. i < n - 1 \/ i = n - 1 \/ i = n \/ (i = n + 1 /\ c \in dirties)
      BY <1>1, <1>2
    <3> QED
      BY <3>1, <3>2, <3>3, <3>4, <3>5
  <2> QED
    BY <1>3, <2>2 DEF WalkVisited
<1>10. TargetKept'
  <2>1. stack' # <<>>
    BY <1>1, <1>2
  <2>2. stack'[1].hash = stack[1].hash
    <3>1. n = 1 \/ 1 \in 1..(n - 1)
      BY <1>1
    <3> QED
      BY <1>1, <1>2, <3>1
  <2> QED
    BY <1>1, <2>1, <2>2 DEF CommitInv, TargetKept
<1> QED
  BY <1>1, <1>8, <1>9, <1>10, StackOnly

LEMMA StartKeeps ==
  ASSUME TypeOK, ListInv, CommitInv, NEW h \in CommitArgs, CommitStart(h)
  PROVE  CommitInv'
<1>1. Live' = Live /\ Available' = Available /\ UNCHANGED <<cacheVars, disk, committed>>
  BY DEF CommitStart, cacheVars, Live, Available
<1>2. NodeAvailable' /\ DiskClosed' /\ CommittedDurable' /\ UpdateOrdered' /\ BatchOrdered'
  BY <1>1 DEF CommitInv, NodeAvailable, DiskClosed, CommittedDurable, UpdateOrdered, BatchOrdered,
              CommitStart, cacheVars
<1>3. /\ h \in Hash /\ h \in HashZ /\ h # Zero
      /\ pc' = "walk" /\ batch' = <<>>
      /\ target' = IF h \in Available THEN h ELSE Zero
      /\ stack' = Enter(<<>>, h)
  BY HashAssumption DEF CommitStart, HashZ
<1>4. CASE h \notin dirties
  <2>1. stack' = <<>> /\ h \notin Live
    BY <1>3, <1>4 DEF Enter, Live
  <2>2. WalkAvailable' /\ WalkVisited' /\ TargetKept'
    BY <1>1, <1>3, <2>1, ElemsEmpty DEF WalkAvailable, WalkVisited, TargetKept, Available
  <2> QED
    BY <1>2, <2>2 DEF CommitInv
<1>5. CASE h \in dirties
  <2>1. stack' = <<Frame(h)>> /\ h \in Live /\ h \in Available
    BY <1>3, <1>5 DEF Enter, Live, Available
  <2>2. Len(stack') = 1 /\ stack'[1] = Frame(h)
    BY <2>1
  <2>3. Reached(Frame(h)) \subseteq Available \cup {Zero}
    BY <1>3, <2>1 DEF Reached, Frame, forGatherChildren, CommitInv, NodeAvailable
  <2>4. forChilds(h)' = Frame(h).ext \cup Elems(Frame(h).kids) /\ Frame(h).hash = h
    BY <1>1 DEF forChilds, forGatherChildren, Frame, cacheVars
  <2>5. WalkAvailable' /\ WalkVisited'
    BY <1>1, <1>3, <2>2, <2>3, <2>4, ElemsEmpty DEF WalkAvailable, WalkVisited
  <2>6. TargetKept'
    BY <1>3, <2>1, <2>2, <2>4 DEF TargetKept
  <2> QED
    BY <1>2, <2>5, <2>6 DEF CommitInv
<1> QED
  BY <1>4, <1>5

LEMMA WalkKeeps ==
  ASSUME TypeOK, ListInv, CommitInv, WalkExternal \/ WalkKid
  PROVE  CommitInv'
<1>1. /\ pc = "walk" /\ stack # <<>>
      /\ UNCHANGED <<cacheVars, disk, pc, batch, cont, target, committed>>
  BY DEF WalkExternal, WalkKid
<1>2. Top \in Frames
  BY <1>1, TopType
<1>3. CASE WalkExternal
  <2>1. PICK c \in Top.ext : stack' = Enter(Append(Pop, [Top EXCEPT !.ext = @ \ {c}]), c)
    BY <1>3 DEF WalkExternal
  <2> DEFINE f == [Top EXCEPT !.ext = @ \ {c}]
  <2>2. /\ f \in Frames /\ c \in HashZ
        /\ f.hash = Top.hash /\ f.kids = Top.kids /\ f.ext = Top.ext \ {c}
    BY <1>2, <2>1 DEF Frames
  <2> HIDE DEF f
  <2>3. {c} \cup f.ext \cup Elems(f.kids) = Top.ext \cup Elems(Top.kids)
    BY <2>1, <2>2
  <2>4. stack' = Enter(Append(Pop, f), c)
    BY <2>1 DEF f
  <2> QED
    BY <1>1, <2>2, <2>3, <2>4, VisitKeeps
<1>4. CASE WalkKid
  <2> DEFINE f == [Top EXCEPT !.kids = Tail(@)]
             c == Head(Top.kids)
  <2>1. Top.kids # <<>> /\ Top.kids \in Seq(Hash) /\ stack' = Enter(Append(Pop, f), c)
    BY <1>2, <1>4 DEF WalkKid, Frames
  <2>2. c \in Hash /\ c \in HashZ /\ Tail(Top.kids) \in Seq(Hash)
    BY <2>1 DEF HashZ
  <2>3. /\ f \in Frames
        /\ f.hash = Top.hash /\ f.kids = Tail(Top.kids) /\ f.ext = Top.ext
    BY <1>2, <2>2 DEF Frames
  <2>4. Elems(Top.kids) = {c} \cup Elems(Tail(Top.kids))
    BY <2>1, ElemsHeadTail
  <2> HIDE DEF f, c
  <2>5. {c} \cup f.ext \cup Elems(f.kids) = Top.ext \cup Elems(Top.kids)
    BY <2>3, <2>4
  <2> QED
    BY <1>1, <2>1, <2>2, <2>3, <2>5, VisitKeeps
<1> QED
  BY <1>3, <1>4

(* The node whose children have all been visited goes into the batch, and  *)
(* is not lost on the way.                                                 *)
LEMMA PutKeeps ==
  ASSUME ~PutMayFail, TypeOK, CommitInv, WalkPut
  PROVE  CommitInv'
<1> DEFINE n == Len(stack)
           b == Len(batch)
<1>1. /\ pc = "walk" /\ InCommit /\ stack # <<>> /\ Top.ext = {} /\ Top.kids = <<>>
      /\ UNCHANGED <<cacheVars, disk, target, committed>>
  BY DEF WalkPut, InCommit
<1>2. /\ n \in Nat \ {0} /\ stack[n] = Top /\ Top \in Frames
      /\ Pop \in Seq(Frames) /\ Len(Pop) = n - 1
      /\ \A i \in 1..(n - 1) : Pop[i] = stack[i]
  BY <1>1, TopType DEF Top
<1>3. Live' = Live /\ Available' = Available /\ \A h : forChilds(h)' = forChilds(h)
  BY <1>1 DEF cacheVars, Live, Available, forChilds, forGatherChildren
<1>4. pc' # "insert" /\ NodeAvailable' /\ DiskClosed' /\ CommittedDurable' /\ UpdateOrdered'
  BY <1>1, <1>3 DEF CommitInv, NodeAvailable, DiskClosed, CommittedDurable, UpdateOrdered, cacheVars, WalkPut
<1>5. CASE Top.hash = Zero
  <2>1. ~InCommit'
    BY <1>5 DEF WalkPut, InCommit
  <2> QED
    BY <1>4, <2>1 DEF CommitInv, WalkAvailable, WalkVisited, BatchOrdered, TargetKept, InCommit
<1>6. CASE Top.hash # Zero
  <2> DEFINE h == Top.hash
  <2>1. h \in Hash /\ batch \in Seq(Hash) /\ b \in Nat
    BY <1>2, <1>6 DEF Frames, HashZ, TypeOK
  <2>2. batch' = Append(batch, h) /\ stack' = Pop
    BY <1>6 DEF WalkPut
  <2>3. /\ Elems(batch') = Elems(batch) \cup {h}
        /\ Len(batch') = b + 1 /\ batch'[b + 1] = h
        /\ \A i \in 1..b : batch'[i] = batch[i]
    BY <2>1, <2>2, ElemsAppend, AppendProperties
  <2>4. Elems(batch) = {batch[i] : i \in 1..b}
    BY <2>1 DEF Elems
  <2> HIDE DEF n, b
  <2>5. h \in Available /\ Elems(batch) \subseteq Available
    BY <1>1, <1>2, <1>6 DEF n, CommitInv, WalkAvailable, Reached
  <2>6. forChilds(h) \subseteq disk \cup Elems(batch)
    <3>1. ~(n < n)
      BY <1>2
    <3> QED
      BY <1>1, <1>2, <3>1, ElemsEmpty DEF n, CommitInv, WalkVisited, Above
  <2>7. WalkAvailable'
    <3>1. \A i \in 1..(n - 1) : i \in 1..n
      BY <1>2
    <3>2. \A i \in 1..(n - 1) : Reached(stack[i]) \subseteq Available \cup {Zero}
      BY <1>1, <3>1 DEF n, CommitInv, WalkAvailable
    <3> QED
      BY <1>2, <1>3, <2>2, <2>3, <2>5, <3>2 DEF WalkAvailable
  <2>8. WalkVisited'
    <3>1. ASSUME NEW i \in 1..(n - 1) PROVE Above(i) \subseteq Above(i)' \cup {h}
      <4>1. i < n - 1 \/ i + 1 = n
        BY <1>2
      <4>2. i < n - 1 => i + 1 \in 1..(n - 1)
        BY <1>2
      <4> QED
        BY <1>2, <2>2, <4>1, <4>2 DEF Above, n
    <3>2. \A i \in 1..(n - 1) : i \in 1..n
      BY <1>2
    <3>3. \A i \in 1..(n - 1) :
            forChilds(stack[i].hash) \subseteq
              stack[i].ext \cup Elems(stack[i].kids) \cup Above(i) \cup disk \cup Elems(batch)
      BY <1>1, <3>2 DEF n, CommitInv, WalkVisited
    <3> QED
      BY <1>1, <1>2, <1>3, <2>2, <2>3, <3>1, <3>3 DEF WalkVisited
  <2>9. BatchOrdered'
    <3>1. ASSUME NEW i \in 1..(b + 1)
          PROVE  forChilds(batch'[i]) \subseteq disk \cup {batch'[j] : j \in 1..(i - 1)}
      <4>1. CASE i = b + 1
        <5>1. {batch'[j] : j \in 1..(i - 1)} = Elems(batch)
          BY <2>1, <2>3, <2>4, <4>1
        <5> QED
          BY <2>3, <2>6, <4>1, <5>1
      <4>2. CASE i # b + 1
        <5>1. i \in 1..b /\ \A j \in 1..(i - 1) : j \in 1..b
          BY <2>1, <4>2
        <5>2. {batch'[j] : j \in 1..(i - 1)} = {batch[j] : j \in 1..(i - 1)}
          BY <2>3, <5>1
        <5>3. forChilds(batch[i]) \subseteq disk \cup {batch[j] : j \in 1..(i - 1)}
          BY <1>1, <5>1 DEF b, CommitInv, BatchOrdered
        <5> QED
          BY <2>3, <5>1, <5>2, <5>3
      <4> QED
        BY <4>1, <4>2
    <3> QED
      BY <1>1, <1>3, <2>3, <3>1 DEF BatchOrdered
  <2>10. TargetKept'
    <3>1. target # Zero => \/ target \in disk \cup Elems(batch) \cup {h}
                           \/ Pop # <<>> /\ Pop[1].hash = target
      <4>1. target # Zero => target \in disk \cup Elems(batch) \/ stack[1].hash = target
        BY <1>1 DEF CommitInv, TargetKept
      <4>2. n = 1 \/ (1 \in 1..(n - 1) /\ Len(Pop) # 0)
        BY <1>2
      <4> QED
        BY <1>2, <4>1, <4>2
    <3>2. pc' # "replay" /\ (pc' = "submit" => cont' = "walk")
      BY <1>1, <1>6 DEF WalkPut
    <3> QED
      BY <1>1, <2>2, <2>3, <3>1, <3>2 DEF TargetKept
  <2> QED
    BY <1>4, <2>7, <2>8, <2>9, <2>10 DEF CommitInv
<1> QED
  BY <1>5, <1>6

-----------------------------------------------------------------------------
(* Commit: the batch.                                                      *)

LEMMA DoneKeeps ==
  ASSUME CommitInv, WalkDone
  PROVE  CommitInv'
BY DEF WalkDone, CommitInv, cacheVars, NodeAvailable, DiskClosed, CommittedDurable,
       UpdateOrdered, WalkAvailable, WalkVisited, BatchOrdered, TargetKept, InCommit, Reached,
       Above, forChilds, forGatherChildren, Live, Available

(* The first n nodes of the batch reach the disk.                          *)
LEMMA PrefixClosed ==
  ASSUME TypeOK, CommitInv, InCommit, NEW n \in 0..Len(batch),
         disk' = disk \cup {batch[i] : i \in 1..n}
  PROVE  /\ {batch[i] : i \in 1..n} \subseteq Available
         /\ DiskClosed'
<1>1. batch \in Seq(Hash) /\ Len(batch) \in Nat /\ \A i \in 1..n : i \in 1..Len(batch)
  BY DEF TypeOK
<1>2. \A i \in 1..n : batch[i] \in Elems(batch) /\ batch[i] \in Hash /\ batch[i] # Zero
  BY <1>1, HashAssumption DEF Elems
<1>3. ASSUME NEW i \in 1..n PROVE Elems(Kids[batch[i]]) \subseteq disk'
  <2>1. forChilds(batch[i]) \subseteq disk \cup {batch[j] : j \in 1..(i - 1)}
    BY <1>1 DEF CommitInv, BatchOrdered
  <2>2. Elems(Kids[batch[i]]) \subseteq forChilds(batch[i])
    BY <1>2 DEF forChilds, forGatherChildren
  <2>3. \A j \in 1..(i - 1) : j \in 1..n
    OBVIOUS
  <2> QED
    BY <2>1, <2>2, <2>3
<1>4. \A h \in disk : Elems(Kids[h]) \subseteq disk'
  BY DEF CommitInv, DiskClosed
<1> QED
  BY <1>2, <1>3, <1>4 DEF CommitInv, WalkAvailable, DiskClosed

LEMMA SubmitKeeps ==
  ASSUME TypeOK, CommitInv, Submit \/ SubmitFails
  PROVE  CommitInv'
<1>1. PICK n \in 0..Len(batch) : disk' = disk \cup {batch[i] : i \in 1..n} /\ (Submit => n = Len(batch))
  <2>1. Len(batch) \in 0..Len(batch) /\ Elems(batch) = {batch[i] : i \in 1..Len(batch)}
    BY DEF TypeOK, Elems
  <2> QED
    BY <2>1 DEF Submit, SubmitFails
<1>2. InCommit /\ UNCHANGED <<cacheVars, committed>> /\ pc' # "insert"
  BY DEF Submit, SubmitFails, InCommit
<1>3. {batch[i] : i \in 1..n} \subseteq Available /\ DiskClosed'
  BY <1>1, <1>2, PrefixClosed
<1>4. Live' = Live /\ Available' = Available /\ \A h : forChilds(h)' = forChilds(h)
  BY <1>1, <1>2, <1>3 DEF cacheVars, Live, Available, forChilds, forGatherChildren
<1>5. NodeAvailable' /\ CommittedDurable' /\ UpdateOrdered'
  BY <1>1, <1>2, <1>4 DEF CommitInv, NodeAvailable, CommittedDurable, UpdateOrdered, cacheVars
<1>6. CASE Submit
  <2>1. UNCHANGED <<stack, batch, cont, target>> /\ disk \subseteq disk' /\ pc = "submit" /\ pc' = "replay"
    BY <1>6 DEF Submit, commitVars
  <2>2. WalkAvailable' /\ WalkVisited' /\ BatchOrdered' /\ TargetKept'
    BY <1>2, <1>4, <2>1 DEF CommitInv, WalkAvailable, WalkVisited, BatchOrdered, TargetKept, Above,
                            Reached, InCommit
  <2> QED
    BY <1>3, <1>5, <2>2 DEF CommitInv
<1>7. CASE SubmitFails
  <2>1. ~InCommit'
    BY <1>7 DEF SubmitFails, InCommit
  <2>2. WalkAvailable' /\ WalkVisited' /\ BatchOrdered' /\ TargetKept'
    BY <2>1 DEF WalkAvailable, WalkVisited, BatchOrdered, TargetKept, InCommit
  <2> QED
    BY <1>3, <1>5, <2>2 DEF CommitInv
<1> QED
  BY <1>6, <1>7

(* cleaner.Put takes a node out of the cache that is on disk.              *)
LEMMA ReplayKeeps ==
  ASSUME TypeOK, ListInv, CommitInv, ReplayOnDisk, Replay
  PROVE  CommitInv'
<1> DEFINE h == Head(batch)
           b == Len(batch)
<1>1. /\ pc = "replay" /\ InCommit /\ batch # <<>> /\ batch \in Seq(Hash) /\ h \in Hash
      /\ cleanerPut(h) /\ batch' = Tail(batch)
      /\ UNCHANGED <<disk, stack, cont, target, committed>>
  BY DEF Replay, InCommit, TypeOK
<1>2. pc' = "replay" /\ InCommit'
  BY <1>1, CleanerStep DEF ListInv, InCommit
<1>3. /\ b \in Nat \ {0} /\ h = batch[1] /\ Len(batch') = b - 1
      /\ \A i \in 1..(b - 1) : batch'[i] = batch[i + 1]
      /\ Elems(batch) = {h} \cup Elems(batch')
  BY <1>1, HeadTailProperties, ElemsHeadTail
<1>4. h \in disk /\ h \in HashZ
  BY <1>1, <1>3 DEF ReplayOnDisk, HashZ
<1> HIDE DEF h, b
<1>5. /\ Live' \subseteq Live /\ Available' = Available
      /\ \A x \in HashZ : children'[x] \subseteq children[x]
  <2>1. CASE h \notin dirties
    BY <1>1, <2>1 DEF cleanerPut, cacheVars, Live, Available
  <2>2. CASE h \in dirties
    <3>1. dirties' = dirties \ {h} /\ children' = [children EXCEPT ![h] = {}]
      BY <1>1, <2>2 DEF cleanerPut
    <3> QED
      BY <1>1, <1>4, <3>1 DEF Live, Available, TypeOK
  <2> QED
    BY <2>1, <2>2
<1>6. \A x \in HashZ : forChilds(x)' \subseteq forChilds(x)
  BY <1>5 DEF forChilds, forGatherChildren
<1>7. Live \subseteq HashZ /\ \A i \in 1..Len(stack) : stack[i].hash \in HashZ
  <2>1. \A i \in 1..Len(stack) : stack[i] \in Frames
    BY DEF TypeOK
  <2> QED
    BY <2>1 DEF Live, TypeOK, Frames
<1>8. NodeAvailable' /\ DiskClosed' /\ CommittedDurable' /\ UpdateOrdered'
  BY <1>1, <1>2, <1>5, <1>7 DEF CommitInv, NodeAvailable, DiskClosed, CommittedDurable, UpdateOrdered
<1>9. WalkAvailable'
  BY <1>1, <1>3, <1>5 DEF CommitInv, WalkAvailable
<1>10. WalkVisited'
  BY <1>1, <1>3, <1>4, <1>6, <1>7 DEF CommitInv, WalkVisited, Above
<1>11. BatchOrdered'
  <2>1. ASSUME NEW i \in 1..(b - 1)
        PROVE  forChilds(batch[i])' \subseteq disk \cup {batch'[j] : j \in 1..(i - 1)}
    <3>1. i + 1 \in 1..b /\ batch[i + 1] \in HashZ
      BY <1>1, <1>3 DEF b, HashZ
    <3>2. forChilds(batch[i + 1]) \subseteq disk \cup {batch[j] : j \in 1..(i + 1 - 1)}
      BY <1>1, <3>1 DEF b, CommitInv, BatchOrdered
    <3>3. ASSUME NEW j \in 1..(i + 1 - 1)
          PROVE  batch[j] \in disk \cup {batch'[k] : k \in 1..(i - 1)}
      <4>1. CASE j = 1
        BY <1>3, <1>4, <4>1
      <4>2. CASE j # 1
        <5>1. j - 1 \in 1..(i - 1) /\ j - 1 \in 1..(b - 1) /\ (j - 1) + 1 = j
          BY <1>3, <4>2
        <5> QED
          BY <1>3, <5>1
      <4> QED
        BY <4>1, <4>2
    <3>4. forChilds(batch[i])' \subseteq forChilds(batch[i + 1])
      BY <1>3, <1>5, <3>1 DEF forChilds, forGatherChildren
    <3> QED
      BY <3>2, <3>3, <3>4
  <2> QED
    BY <1>1, <1>3, <2>1 DEF BatchOrdered
<1>12. TargetKept'
  BY <1>1, <1>2, <1>3, <1>4 DEF CommitInv, TargetKept
<1> QED
  BY <1>8, <1>9, <1>10, <1>11, <1>12 DEF CommitInv

(* Commit returns nil: no activation and no batch is left, so the node it  *)
(* was called for is on disk.                                              *)
LEMMA ReplayDoneKeeps ==
  ASSUME TypeOK, CommitInv, ReplayDone
  PROVE  CommitInv'
<1>1. /\ pc = "replay" /\ batch = <<>> /\ InCommit /\ pc' = cont /\ cont \in {"idle", "walk"}
      /\ UNCHANGED <<cacheVars, disk, stack, batch>>
      /\ IF cont = "walk" THEN UNCHANGED <<target, committed>>
                          ELSE committed' = committed \cup ({target} \ {Zero})
  BY DEF ReplayDone, InCommit, TypeOK
<1>2. Live' = Live /\ Available' = Available /\ \A h : forChilds(h)' = forChilds(h)
  BY <1>1 DEF cacheVars, Live, Available, forChilds, forGatherChildren
<1>3. NodeAvailable' /\ DiskClosed' /\ UpdateOrdered'
  BY <1>1, <1>2 DEF CommitInv, NodeAvailable, DiskClosed, UpdateOrdered, cacheVars
<1>4. WalkAvailable' /\ WalkVisited' /\ BatchOrdered'
  BY <1>1, <1>2 DEF CommitInv, WalkAvailable, WalkVisited, BatchOrdered, Reached, Above
<1>5. CASE cont = "walk"
  BY <1>1, <1>3, <1>4, <1>5 DEF CommitInv, CommittedDurable, TargetKept, InCommit
<1>6. CASE cont = "idle"
  <2>1. target # Zero => target \in disk
    BY <1>1, <1>6, ElemsEmpty DEF CommitInv, TargetKept
  <2> QED
    BY <1>1, <1>3, <1>4, <1>6, <2>1 DEF CommitInv, CommittedDurable, TargetKept, InCommit
<1> QED
  BY <1>1, <1>5, <1>6

-----------------------------------------------------------------------------
(* The invariant is inductive.                                             *)

LEMMA InitCommit == Init => CommitInv
<1> SUFFICES ASSUME Init PROVE CommitInv
  OBVIOUS
<1>1. Live = {} /\ Available = {}
  BY DEF Init, Live, Available
<1> QED
  BY <1>1 DEF Init, CommitInv, NodeAvailable, DiskClosed, CommittedDurable, UpdateOrdered,
              WalkAvailable, WalkVisited, BatchOrdered, TargetKept, InCommit

(* After a crash what is available is what is on disk.                     *)
LEMMA CrashKeeps == ASSUME CommitInv, Crash PROVE CommitInv'
<1>1. Live' = {} /\ Available' = disk' /\ disk' = disk
  BY DEF Crash, Live, Available
<1> QED
  BY <1>1 DEF Crash, CommitInv, NodeAvailable, DiskClosed, CommittedDurable, UpdateOrdered,
              WalkAvailable, WalkVisited, BatchOrdered, TargetKept, InCommit

(* A step that changes nothing but the readers.                            *)
LEMMA OthersKeep ==
  ASSUME CommitInv, UNCHANGED <<cacheVars, disk, pc, updateVars, commitVars, committed>>
  PROVE  CommitInv'
<1>1. Live' = Live /\ Available' = Available /\ \A h : forChilds(h)' = forChilds(h)
  BY DEF cacheVars, Live, Available, forChilds, forGatherChildren
<1>2. NodeAvailable' /\ DiskClosed' /\ CommittedDurable' /\ UpdateOrdered'
  BY <1>1 DEF CommitInv, NodeAvailable, DiskClosed, CommittedDurable, UpdateOrdered,
              cacheVars, updateVars
<1>3. WalkAvailable' /\ WalkVisited' /\ BatchOrdered' /\ TargetKept'
  BY <1>1 DEF CommitInv, WalkAvailable, WalkVisited, BatchOrdered, TargetKept, InCommit, Above,
              Reached, commitVars
<1> QED
  BY <1>2, <1>3 DEF CommitInv

LEMMA CommitInvStep ==
  ASSUME ~PutMayFail, TypeOK, ListInv, ReplayOnDisk, CommitInv, [Next]_vars
  PROVE  CommitInv'
<1>1. ASSUME NEW g, NEW api, NEW h, ReadBegin(g, api, h) \/ ReadCache(g) \/ ReadDisk(g)
      PROVE  CommitInv'
  BY <1>1, OthersKeep DEF ReadBegin, ReadCache, ReadDisk
<1>2. ASSUME UNCHANGED vars PROVE CommitInv'
  BY <1>2, OthersKeep DEF vars
<1>3. ASSUME CommitStep PROVE CommitInv'
  BY <1>3, WalkKeeps, PutKeeps, DoneKeeps, SubmitKeeps, ReplayKeeps, ReplayDoneKeeps DEF CommitStep
<1> QED
  BY <1>1, <1>2, <1>3, UpdateKeeps, StartKeeps, CrashKeeps DEF Next

(* What is known in every reachable state, and in every step.              *)
LEMMA CommitInvariant ==
  ASSUME ~PutMayFail
  PROVE  Spec => [](TypeOK /\ ListInv /\ ReplayOnDisk /\ CommitInv)
<1>1. Init => ReplayOnDisk /\ CommitInv
  BY InitCommit DEF Init, ReplayOnDisk
<1>2. TypeOK /\ ListInv /\ ReplayOnDisk /\ CommitInv /\ [Next]_vars => (ReplayOnDisk /\ CommitInv)'
  BY ReplayOnDiskStep, CommitInvStep
<1> QED
  BY <1>1, <1>2, TypeCorrect, ListInvariant, PTL DEF Spec

-----------------------------------------------------------------------------
(* The theorems.                                                           *)

(* Every child of an available node is available, in the middle of Update, *)
(* of Commit, after a failed Submit and after a crash.                     *)
THEOREM TriesAreWhole == ASSUME ~PutMayFail PROVE Spec => []NodeAvailable
<1>1. CommitInv => NodeAvailable
  BY DEF CommitInv
<1> QED
  BY <1>1, CommitInvariant, PTL

(* The disk is closed under children after every batch, whole or not.      *)
THEOREM DiskHasNoDanglingHash == ASSUME ~PutMayFail PROVE Spec => []DiskClosed
<1>1. CommitInv => DiskClosed
  BY DEF CommitInv
<1> QED
  BY <1>1, CommitInvariant, PTL

(* A node for which Commit has returned nil is on disk for good.           *)
THEOREM CommitIsDurable == ASSUME ~PutMayFail PROVE Spec => []CommittedDurable
<1>1. CommitInv => CommittedDurable
  BY DEF CommitInv
<1> QED
  BY <1>1, CommitInvariant, PTL

(* Only cleaner.Put takes a node out of the cache.                         *)
LEMMA UncacheStep ==
  ASSUME TypeOK, ListInv, ReplayOnDisk, CommitInv, [Next]_vars, ~Crash, NEW h \in Live \ Live'
  PROVE  {h} \cup forChilds(h) \subseteq disk'
<1>1. ASSUME dirties \subseteq dirties' PROVE FALSE
  BY <1>1 DEF Live
<1>2. CASE Replay
  <2>1. /\ batch # <<>> /\ batch \in Seq(Hash) /\ disk' = disk /\ InCommit
        /\ dirties' = dirties \/ dirties' = dirties \ {Head(batch)}
        /\ Head(batch) \in disk
    BY <1>2 DEF Replay, InCommit, TypeOK, cleanerPut, cacheVars, ReplayOnDisk, Elems
  <2>2. h = batch[1] /\ 1 \in 1..Len(batch)
    BY <2>1 DEF Live
  <2>3. forChilds(batch[1]) \subseteq disk \cup {batch[j] : j \in 1..(1 - 1)}
    BY <2>1, <2>2 DEF CommitInv, BatchOrdered
  <2> QED
    BY <2>1, <2>2, <2>3
<1>3. ASSUME UpdateStep PROVE dirties \subseteq dirties'
  BY <1>3 DEF UpdateStep, NextOwner, Insert, insert, InsertDone, Link, UpdateDone, cacheVars
<1>4. ASSUME CommitStep, ~Replay PROVE dirties \subseteq dirties'
  BY <1>4 DEF CommitStep, WalkExternal, WalkKid, WalkPut, WalkDone, Submit, SubmitFails, ReplayDone,
              cacheVars
<1>5. ASSUME NEW c \in CommitArgs, CommitStart(c) PROVE dirties \subseteq dirties'
  BY <1>5 DEF CommitStart, cacheVars
<1>6. ASSUME NEW a, NEW b, NEW c, UpdateStart(a, b, c) PROVE dirties \subseteq dirties'
  BY <1>6 DEF UpdateStart, cacheVars
<1>7. ASSUME NEW g, NEW api, NEW c, ReadBegin(g, api, c) \/ ReadCache(g) \/ ReadDisk(g)
      PROVE  dirties \subseteq dirties'
  BY <1>7 DEF ReadBegin, ReadCache, ReadDisk, cacheVars
<1>8. ASSUME UNCHANGED vars PROVE dirties \subseteq dirties'
  BY <1>8 DEF vars, cacheVars
<1> QED
  BY <1>1, <1>2, <1>3, <1>4, <1>5, <1>6, <1>7, <1>8 DEF Next

(* A node leaves the cache only when it and all its children are on disk.  *)
THEOREM UncachedIsDurable == ASSUME ~PutMayFail PROVE Spec => UncacheDurable
<1>1. /\ TypeOK /\ ListInv /\ ReplayOnDisk /\ CommitInv /\ [Next]_vars
      => [~Crash => \A h \in Live \ Live' : {h} \cup forChilds(h) \subseteq disk']_vars
  BY UncacheStep
<1> QED
  BY <1>1, CommitInvariant, PTL DEF Spec, UncacheDurable

-----------------------------------------------------------------------------
(* Refinement of the abstract node store.                                  *)

(* Inserting a node puts it into the store, unless it is there already.    *)
LEMMA InsertPuts ==
  ASSUME TypeOK, ListInv, CommitInv, Insert
  PROVE  \E h \in Hash : Store!Put(h)
<1> DEFINE h == Head(queue)
<1>1. pc = "insert" /\ queue # <<>> /\ queue \in Seq(Hash) /\ h \in Hash /\ insert(h) /\ disk' = disk
  BY DEF Insert, TypeOK
<1>2. Live' = Live \cup {h}
  BY <1>1, InsertStep DEF ListInv
<1>3. Available' = Available \cup {h}
  BY <1>1, <1>2 DEF Available
<1>4. Elems(Kids[h]) \subseteq Available
  BY <1>1, ChildrenFirstTail DEF CommitInv, UpdateOrdered
<1>5. Store!Put(h)
  BY <1>1, <1>3, <1>4 DEF Store!Put, Store!KidSet, Elems
<1> QED
  BY <1>1, <1>5

(* Submitting makes the batch durable, or the part of it that was written. *)
LEMMA SubmitPersists ==
  ASSUME TypeOK, CommitInv, Submit \/ SubmitFails
  PROVE  \E S \in SUBSET Hash : Store!Persist(S)
<1>1. PICK n \in 0..Len(batch) : disk' = disk \cup {batch[i] : i \in 1..n}
  <2>1. Len(batch) \in 0..Len(batch) /\ Elems(batch) = {batch[i] : i \in 1..Len(batch)}
    BY DEF TypeOK, Elems
  <2> QED
    BY <2>1 DEF Submit, SubmitFails
<1> DEFINE S == {batch[i] : i \in 1..n}
<1>2. InCommit /\ UNCHANGED cacheVars
  BY DEF Submit, SubmitFails, InCommit
<1>3. /\ batch \in Seq(Hash) /\ Len(batch) \in Nat
      /\ \A i \in 1..n : i \in 1..Len(batch) /\ batch[i] \in Hash /\ batch[i] # Zero
  BY HashAssumption DEF TypeOK
<1>4. S \subseteq Available
  BY <1>1, <1>2, PrefixClosed
<1>5. \A h \in S : Elems(Kids[h]) \subseteq disk \cup S
  <2>1. ASSUME NEW i \in 1..n PROVE Elems(Kids[batch[i]]) \subseteq disk \cup S
    <3>1. forChilds(batch[i]) \subseteq disk \cup {batch[j] : j \in 1..(i - 1)}
      BY <1>2, <1>3 DEF CommitInv, BatchOrdered
    <3>2. Elems(Kids[batch[i]]) \subseteq forChilds(batch[i])
      BY <1>3 DEF forChilds, forGatherChildren
    <3>3. \A j \in 1..(i - 1) : j \in 1..n
      OBVIOUS
    <3> QED
      BY <3>1, <3>2, <3>3
  <2> QED
    BY <2>1
<1>6. Available' = Available
  BY <1>1, <1>2, <1>4 DEF cacheVars, Available, Live
<1>7. S \subseteq Hash
  BY <1>3
<1> HIDE DEF S
<1>8. Store!Persist(S)
  BY <1>1, <1>4, <1>5, <1>6 DEF Store!Persist, Store!KidSet, Elems, S
<1> QED
  BY <1>7, <1>8

LEMMA StoreStep ==
  ASSUME ~PutMayFail, TypeOK, ListInv, ReplayOnDisk, CommitInv, [Next]_vars
  PROVE  [Store!StoreNext]_<<Available, disk>>
<1>1. ASSUME dirties' = dirties, disk' = disk PROVE UNCHANGED <<Available, disk>>
  BY <1>1 DEF Available, Live
<1>2. CASE Insert
  BY <1>2, InsertPuts DEF Store!StoreNext
<1>3. CASE Submit \/ SubmitFails
  BY <1>3, SubmitPersists DEF Store!StoreNext
<1>4. CASE Crash
  <2>1. Available' = disk /\ disk' = disk
    BY <1>4 DEF Crash, Available, Live
  <2> QED
    BY <2>1 DEF Store!StoreNext, Store!Lose
<1>5. CASE Replay
  <2>1. /\ disk' = disk /\ Head(batch) \in disk
        /\ dirties' = dirties \/ dirties' = dirties \ {Head(batch)}
    BY <1>5 DEF Replay, TypeOK, cleanerPut, cacheVars, ReplayOnDisk, Elems
  <2> QED
    BY <2>1 DEF Available, Live
<1>6. ASSUME UpdateStep, ~Insert PROVE dirties' = dirties /\ disk' = disk
  BY <1>6 DEF UpdateStep, NextOwner, InsertDone, Link, UpdateDone, cacheVars
<1>7. ASSUME CommitStep, ~Submit, ~SubmitFails, ~Replay PROVE dirties' = dirties /\ disk' = disk
  BY <1>7 DEF CommitStep, WalkExternal, WalkKid, WalkPut, WalkDone, ReplayDone, cacheVars
<1>8. ASSUME NEW c \in CommitArgs, CommitStart(c) PROVE dirties' = dirties /\ disk' = disk
  BY <1>8 DEF CommitStart, cacheVars
<1>9. ASSUME NEW a, NEW b, NEW c, UpdateStart(a, b, c) PROVE dirties' = dirties /\ disk' = disk
  BY <1>9 DEF UpdateStart, cacheVars
<1>10. ASSUME NEW g, NEW api, NEW c, ReadBegin(g, api, c) \/ ReadCache(g) \/ ReadDisk(g)
       PROVE  dirties' = dirties /\ disk' = disk
  BY <1>10 DEF ReadBegin, ReadCache, ReadDisk, cacheVars
<1>11. ASSUME UNCHANGED vars PROVE dirties' = dirties /\ disk' = disk
  BY <1>11 DEF vars, cacheVars
<1> QED
  BY <1>1, <1>2, <1>3, <1>4, <1>5, <1>6, <1>7, <1>8, <1>9, <1>10, <1>11 DEF Next

(* The database is a store of trie nodes in which a node appears after its *)
(* children, becomes durable with or after them, and is lost in a crash    *)
(* only if it was not durable: every step is one of that store, or none.   *)
THEOREM ImplementsNodeStore == ASSUME ~PutMayFail PROVE Spec => StoreSpec
<1>1. Init => Store!StoreInit
  BY DEF Init, Store!StoreInit, Available, Live
<1>2. /\ TypeOK /\ ListInv /\ ReplayOnDisk /\ CommitInv /\ [Next]_vars
      => [Store!StoreNext]_<<Available, disk>>
  BY StoreStep
<1>3. [Store!StoreNext]_<<Available, disk>> => [Store!StoreNext]_Store!storeVars
  BY DEF Store!storeVars
<1> QED
  BY <1>1, <1>2, <1>3, CommitInvariant, PTL DEF Spec, StoreSpec, Store!StoreSpec

-----------------------------------------------------------------------------
(* No panic.  A storage root that is the zero hash would link the metaroot *)
(* to an account leaf, and Commit would panic there.  No node hashes to    *)
(* zero, so only an account written without a root has one.                *)

NoZeroRoot == \A h \in Hash : Account[h] # Zero

(* Neither a node nor an activation of commit leads to the metaroot.       *)
PanicInv ==
  /\ pc # "panic"
  /\ \A h \in HashZ : Zero \notin children[h]
  /\ \A i \in 1..Len(stack) : stack[i].hash # Zero /\ Zero \notin stack[i].ext

(* The walk goes to a child that is not the metaroot.                      *)
LEMMA VisitNoPanic ==
  ASSUME TypeOK, PanicInv, stack # <<>>,
         NEW f \in Frames, f.hash = Top.hash, f.ext \subseteq Top.ext, NEW c \in HashZ, c # Zero,
         stack' = Enter(Append(Pop, f), c), UNCHANGED <<cacheVars, pc>>
  PROVE  PanicInv'
<1> DEFINE n == Len(stack)
<1>1. n \in Nat \ {0} /\ stack[n] = Top
  BY TopType DEF Top
<1> HIDE DEF n
<1>2. /\ Len(stack') = IF c \in dirties THEN n + 1 ELSE n
      /\ \A i \in 1..(n - 1) : stack'[i] = stack[i]
      /\ stack'[n] = f
      /\ c \in dirties => stack'[n + 1] = Frame(c)
  BY <1>1, EnterStack DEF n
<1>3. ASSUME NEW i \in 1..Len(stack') PROVE stack'[i].hash # Zero /\ Zero \notin stack'[i].ext
  <2>1. i \in 1..(n - 1) \/ i = n \/ (i = n + 1 /\ c \in dirties)
    BY <1>1, <1>2
  <2>2. CASE i \in 1..(n - 1)
    <3>1. i \in 1..Len(stack)
      BY <1>1, <2>2 DEF n
    <3> QED
      BY <1>2, <2>2, <3>1 DEF PanicInv
  <2>3. CASE i = n
    BY <1>1, <1>2, <2>3 DEF PanicInv, n
  <2>4. CASE i = n + 1 /\ c \in dirties
    BY <1>2, <2>4 DEF PanicInv, Frame
  <2> QED
    BY <2>1, <2>2, <2>3, <2>4
<1> QED
  BY <1>3 DEF PanicInv, cacheVars

LEMMA WalkNoPanic ==
  ASSUME TypeOK, PanicInv, WalkExternal \/ WalkKid \/ WalkPut \/ WalkDone
  PROVE  PanicInv'
<1>1. CASE WalkExternal
  <2>1. stack # <<>> /\ UNCHANGED <<cacheVars, pc>>
    BY <1>1 DEF WalkExternal
  <2>2. Len(stack) \in 1..Len(stack) /\ Top \in Frames
    BY <2>1, TopType
  <2>3. Zero \notin Top.ext
    BY <2>2 DEF PanicInv, Top
  <2>4. PICK c \in Top.ext : stack' = Enter(Append(Pop, [Top EXCEPT !.ext = @ \ {c}]), c)
    BY <1>1 DEF WalkExternal
  <2> DEFINE f == [Top EXCEPT !.ext = @ \ {c}]
  <2>5. f \in Frames /\ f.hash = Top.hash /\ f.ext \subseteq Top.ext /\ c \in HashZ /\ c # Zero
    BY <2>2, <2>3, <2>4 DEF Frames
  <2> QED
    BY <2>1, <2>4, <2>5, VisitNoPanic
<1>2. CASE WalkKid
  <2>1. stack # <<>> /\ UNCHANGED <<cacheVars, pc>>
    BY <1>2 DEF WalkKid
  <2>2. Top \in Frames
    BY <2>1, TopType
  <2> DEFINE f == [Top EXCEPT !.kids = Tail(@)]
             c == Head(Top.kids)
  <2>3. Top.kids # <<>> /\ Top.kids \in Seq(Hash) /\ stack' = Enter(Append(Pop, f), c)
    BY <1>2, <2>2 DEF WalkKid, Frames
  <2>4. c \in Hash /\ Tail(Top.kids) \in Seq(Hash)
    BY <2>3
  <2>5. f \in Frames /\ f.hash = Top.hash /\ f.ext \subseteq Top.ext /\ c \in HashZ /\ c # Zero
    BY <2>2, <2>4, HashAssumption DEF Frames, HashZ
  <2> HIDE DEF f, c
  <2> QED
    BY <2>1, <2>3, <2>5, VisitNoPanic
<1>3. CASE WalkPut
  <2>1. stack # <<>>
    BY <1>3 DEF WalkPut
  <2>2. /\ Len(stack) \in Nat \ {0} /\ Len(Pop) = Len(stack) - 1
        /\ \A i \in 1..(Len(stack) - 1) : Pop[i] = stack[i]
    BY <2>1, TopType
  <2>3. Top.hash # Zero
    BY <2>2 DEF PanicInv, Top
  <2>4. stack' = Pop /\ pc' # "panic" /\ children' = children
    BY <1>3, <2>3 DEF WalkPut, cacheVars
  <2>5. \A i \in 1..Len(Pop) : i \in 1..Len(stack) /\ Pop[i] = stack[i]
    BY <2>2
  <2> QED
    BY <2>4, <2>5 DEF PanicInv
<1>4. CASE WalkDone
  BY <1>4 DEF WalkDone, PanicInv, cacheVars
<1> QED
  BY <1>1, <1>2, <1>3, <1>4

LEMMA NoPanicStep ==
  ASSUME NoZeroRoot, TypeOK, ListInv, PanicInv, [Next]_vars
  PROVE  PanicInv'
<1>1. ASSUME UNCHANGED <<children, stack>>, pc' # "panic" PROVE PanicInv'
  BY <1>1 DEF PanicInv
<1>2. ASSUME Insert PROVE PanicInv'
  <2>1. insert(Head(queue)) /\ Head(queue) \in Hash
    BY <1>2 DEF Insert, TypeOK
  <2>2. pc' = pc /\ UNCHANGED <<children, stack>>
    BY <1>2, <2>1, InsertStep DEF ListInv, Insert, insert, cacheVars, commitVars
  <2> QED
    BY <1>1, <2>2 DEF PanicInv
<1>3. ASSUME Link PROVE PanicInv'
  <2>1. Head(links) \in Hash /\ Head(links) \in HashZ /\ Head(links) \in Live
    BY <1>3, ElemsHeadTail DEF Link, TypeOK, ListInv, LinksLive, HashZ
  <2>2. UNCHANGED stack
    BY <1>3 DEF Link, commitVars
  <2>3. CASE UNCHANGED children /\ pc' # "panic"
    BY <1>1, <2>2, <2>3
  <2>4. CASE reference(Account[Head(links)], Head(links))
    <3>1. pc' = pc
      BY <2>1, <2>4 DEF reference, Live
    <3>2. Account[Head(links)] # Zero
      BY <2>1 DEF NoZeroRoot
    <3>3. \/ children' = children
          \/ children' = [children EXCEPT ![Head(links)] = @ \cup {Account[Head(links)]}]
      BY <2>4 DEF reference
    <3>4. ASSUME NEW x \in HashZ PROVE Zero \notin children'[x]
      <4>1. Zero \notin children[x] /\ children \in [HashZ -> SUBSET HashZ]
        BY DEF PanicInv, TypeOK
      <4>2. children'[x] = children[x] \/ children'[x] = children[x] \cup {Account[Head(links)]}
        BY <2>1, <3>3, <4>1
      <4> QED
        BY <3>2, <4>1, <4>2
    <3> QED
      BY <2>2, <3>1, <3>4 DEF PanicInv
  <2> QED
    BY <1>3, <2>3, <2>4 DEF Link, PanicInv
<1>4. ASSUME NextOwner \/ InsertDone \/ UpdateDone PROVE PanicInv'
  BY <1>1, <1>4 DEF NextOwner, InsertDone, UpdateDone, PanicInv, cacheVars, commitVars
<1>5. ASSUME NEW a, NEW b, NEW c, UpdateStart(a, b, c) PROVE PanicInv'
  BY <1>1, <1>5 DEF UpdateStart, cacheVars, commitVars
<1>6. ASSUME NEW h \in CommitArgs, CommitStart(h) PROVE PanicInv'
  <2>1. h \in HashZ /\ h # Zero /\ pc' # "panic" /\ children' = children
    BY <1>6, HashAssumption DEF CommitStart, HashZ, cacheVars
  <2>2. stack' = <<>> \/ stack' = <<Frame(h)>>
    BY <1>6 DEF CommitStart, Enter
  <2>3. Frame(h).hash # Zero /\ Zero \notin Frame(h).ext
    BY <2>1 DEF Frame, PanicInv
  <2> QED
    BY <2>1, <2>2, <2>3 DEF PanicInv
<1>7. ASSUME Submit PROVE PanicInv'
  BY <1>1, <1>7 DEF Submit, PanicInv, cacheVars, commitVars
<1>8. ASSUME SubmitFails \/ Crash PROVE PanicInv'
  BY <1>8 DEF SubmitFails, Crash, PanicInv, cacheVars
<1>9. ASSUME Replay PROVE PanicInv'
  <2>1. cleanerPut(Head(batch)) /\ Head(batch) \in Hash /\ Head(batch) \in HashZ /\ stack' = stack
    BY <1>9 DEF Replay, TypeOK, HashZ
  <2>2. pc' = pc
    BY <2>1, CleanerStep DEF ListInv
  <2>3. children' = children \/ children' = [children EXCEPT ![Head(batch)] = {}]
    BY <2>1 DEF cleanerPut, cacheVars
  <2> QED
    BY <2>1, <2>2, <2>3, ZenonT(80) DEF PanicInv, TypeOK
<1>10. ASSUME ReplayDone PROVE PanicInv'
  BY <1>1, <1>10 DEF ReplayDone, TypeOK, cacheVars
<1>11. ASSUME NEW g, NEW api, NEW h, ReadBegin(g, api, h) \/ ReadCache(g) \/ ReadDisk(g)
       PROVE  PanicInv'
  BY <1>1, <1>11 DEF ReadBegin, ReadCache, ReadDisk, PanicInv, cacheVars, commitVars
<1>12. ASSUME UNCHANGED vars PROVE PanicInv'
  BY <1>1, <1>12 DEF vars, PanicInv, cacheVars, commitVars
<1> QED
  BY <1>2, <1>3, <1>4, <1>5, <1>6, <1>7, <1>8, <1>9, <1>10, <1>11, <1>12, WalkNoPanic
     DEF Next, UpdateStep, CommitStep

(* Update and Commit never dereference a cache entry that is not there and *)
(* never encode the metaroot, even if Put and Submit fail.                 *)
THEOREM NeverPanics == ASSUME NoZeroRoot PROVE Spec => []NoPanic
<1>1. Init => PanicInv
  BY DEF Init, PanicInv
<1>2. TypeOK /\ ListInv /\ PanicInv /\ [Next]_vars => PanicInv'
  BY NoPanicStep
<1>3. PanicInv => NoPanic
  BY DEF PanicInv, NoPanic
<1> QED
  BY <1>1, <1>2, <1>3, TypeCorrect, ListInvariant, PTL DEF Spec
=============================================================================
