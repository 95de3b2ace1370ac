-------------------------------- MODULE Trie --------------------------------
(***************************************************************************)
(* The Merkle Patricia trie (src/trie/trie.go) over the node store that    *)
(* TrieDB implements: lookups that load nodes lazily, inserts and deletes  *)
(* that keep the trie in its minimal form, hashing with cached hashes, and *)
(* the commit that hands the dirty nodes to the database.                  *)
(*                                                                         *)
(* A Trie "is not safe for concurrent use", so an action is a whole call.  *)
(* The capture of a Trie is nil (New does not set it) and all its methods  *)
(* do nothing on nil, so captures do not appear here.                      *)
(*                                                                         *)
(* Reading the store may fail: nodeBlob turns an error of the disk into    *)
(* "not found" and the trie into a MissingNodeError.  A call therefore     *)
(* runs against the nodes that are readable during it.                     *)
(***************************************************************************)
EXTENDS TrieNode

CONSTANTS
  Keys,         (* Keys, as byte sequences.                                *)
  Values,       (* Non-empty values.                                       *)
  ReadMayFail,  (* May the store fail to read a node it has?               *)
  MaxRoots      (* Bound on the number of different committed tries.       *)

ASSUME TrieAssumption == ReadMayFail \in BOOLEAN /\ MaxRoots \in Nat

VARIABLES
  root,     (* Trie.root.                                                  *)
  db,       (* The nodes in the TrieDB: hash |-> raw node.                 *)
  nodeset,  (* The node set Commit returned and Update did not get yet.    *)
  content,  (* History: what the updates that took effect add up to.       *)
  roots     (* History: [hash, content] of every committed trie.           *)

vars == <<root, db, nodeset, content, roots>>

NoNodeSet == <<>>

(* Every key without a value.                                              *)
Empty == [k \in Keys |-> Nil]

Drop(s, n) == SubSeq(s, n + 1, Len(s))
Take(s, n) == SubSeq(s, 1, n)

-----------------------------------------------------------------------------
(* resolveAndTrack: load the node with hash h from the readable nodes r.   *)
resolveAndTrack(r, h) == decodeNode(h, r[h])

(* Lookup: the value, the node with what was loaded on the way, whether    *)
(* anything was loaded, and whether a node was missing.                    *)
RECURSIVE tryGet(_, _, _)
tryGet(r, n, key) ==
  CASE n.t = "nil" -> [value |-> Nil, node |-> Nil, didResolve |-> FALSE, err |-> FALSE]
    [] n.t = "value" -> [value |-> n, node |-> n, didResolve |-> FALSE, err |-> FALSE]
    [] n.t = "short" ->
         IF Len(key) < Len(n.key) \/ Take(key, Len(n.key)) # n.key
         THEN [value |-> Nil, node |-> n, didResolve |-> FALSE, err |-> FALSE]
         ELSE LET g == tryGet(r, n.val, Drop(key, Len(n.key)))
              IN  [g EXCEPT !.node = IF ~g.err /\ g.didResolve THEN [n EXCEPT !.val = g.node] ELSE n]
    [] n.t = "full" ->
         LET g == tryGet(r, Child(n, key[1]), Tail(key))
         IN  [g EXCEPT !.node = IF ~g.err /\ g.didResolve
                                THEN [n EXCEPT !.ch = SetChild(n, key[1], g.node)] ELSE n]
    [] n.t = "hash" ->
         IF n \notin DOMAIN r
         THEN [value |-> Nil, node |-> n, didResolve |-> TRUE, err |-> TRUE]
         ELSE [tryGet(r, resolveAndTrack(r, n), key) EXCEPT !.didResolve = TRUE]

(* Results of insert and delete.  The node of a failed call is not used.   *)
Dirty(n) == [dirty |-> TRUE, node |-> n, err |-> FALSE]
Same(n) == [dirty |-> FALSE, node |-> n, err |-> FALSE]
Failed == [dirty |-> FALSE, node |-> Nil, err |-> TRUE]

(* The result d of a recursive call, passed on by the node n above it.     *)
Wrap(d, n, new) == IF d.err THEN Failed ELSE IF ~d.dirty THEN Same(n) ELSE Dirty(new)

RECURSIVE insert(_, _, _, _)

(* Mutant: a full node keeps its flags when a child changes.               *)
insert_KeepsFlags(r, n, key, value) ==
  CASE key = <<>> -> [dirty |-> n # value, node |-> value, err |-> FALSE]
    [] key # <<>> /\ n.t = "short" ->
         LET m == prefixLen(key, n.key)
             d == insert(r, n.val, Drop(key, m), value)
             branch == newFull(
               (n.key[m + 1] :> insert(r, Nil, Drop(n.key, m + 1), n.val).node) @@
               (key[m + 1] :> insert(r, Nil, Drop(key, m + 1), value).node))
         IN  IF m = Len(n.key) THEN Wrap(d, n, newShort(n.key, d.node))
             ELSE IF m = 0 THEN Dirty(branch)
             ELSE Dirty(newShort(Take(key, m), branch))
    [] key # <<>> /\ n.t = "full" ->
         LET d == insert(r, Child(n, key[1]), Tail(key), value)
         IN  Wrap(d, n, [n EXCEPT !.ch = SetChild(n, key[1], d.node)])
    [] key # <<>> /\ n.t = "nil" -> Dirty(newShort(key, value))
    [] key # <<>> /\ n.t = "hash" ->
         IF n \notin DOMAIN r THEN Failed ELSE insert(r, resolveAndTrack(r, n), key, value)

(* A key either ends here, or goes on below n.  The dirty bit says whether *)
(* the node returned differs from n.                                       *)
insert(r, n, key, value) ==
  CASE key = <<>> -> [dirty |-> n # value, node |-> value, err |-> FALSE]
    [] key # <<>> /\ n.t = "short" ->
         LET m == prefixLen(key, n.key)
             d == insert(r, n.val, Drop(key, m), value)
             branch == newFull(
               (n.key[m + 1] :> insert(r, Nil, Drop(n.key, m + 1), n.val).node) @@
               (key[m + 1] :> insert(r, Nil, Drop(key, m + 1), value).node))
         IN  IF m = Len(n.key) THEN Wrap(d, n, newShort(n.key, d.node))
             ELSE IF m = 0 THEN Dirty(branch)
             ELSE Dirty(newShort(Take(key, m), branch))
    [] key # <<>> /\ n.t = "full" ->
         LET d == insert(r, Child(n, key[1]), Tail(key), value)
         IN  Wrap(d, n, newFull(SetChild(n, key[1], d.node)))
    [] key # <<>> /\ n.t = "nil" -> Dirty(newShort(key, value))
    [] key # <<>> /\ n.t = "hash" ->
         IF n \notin DOMAIN r
         THEN Failed
         ELSE LET rn == resolveAndTrack(r, n)
                  d == insert(r, rn, key, value)
              IN  Wrap(d, rn, d.node)

(* A full node with one child left becomes a short node, merged with the   *)
(* child if that is a short node, for which the child may have to load.    *)
reduce(r, n) ==
  LET pos == CHOOSE i \in DOMAIN n.ch : TRUE
      child == n.ch[pos]
      cnode == IF child.t = "hash" THEN resolveAndTrack(r, child) ELSE child
  IN  CASE Cardinality(DOMAIN n.ch) # 1 -> Dirty(n)
        [] Cardinality(DOMAIN n.ch) = 1 /\ pos # 16 /\ child.t = "hash" /\ child \notin DOMAIN r -> Failed
        [] OTHER -> IF pos # 16 /\ cnode.t = "short"
                    THEN Dirty(newShort(<<pos>> \o cnode.key, cnode.val))
                    ELSE Dirty(newShort(<<pos>>, child))

RECURSIVE delete(_, _, _)

(* Mutant: a short node is not merged with the short node below it.        *)
delete_NoMerge(r, n, key) ==
  CASE n.t = "short" ->
         LET m == prefixLen(key, n.key)
             d == delete(r, n.val, Drop(key, Len(n.key)))
         IN  IF m < Len(n.key) THEN Same(n)
             ELSE IF m = Len(key) THEN Dirty(Nil)
             ELSE Wrap(d, n, newShort(n.key, d.node))
    [] n.t = "full" ->
         LET d == delete(r, Child(n, key[1]), Tail(key))
             nn == newFull(SetChild(n, key[1], d.node))
         IN  IF d.err \/ ~d.dirty \/ d.node # Nil THEN Wrap(d, n, nn) ELSE reduce(r, nn)
    [] n.t = "value" -> Dirty(Nil)
    [] n.t = "nil" -> Same(Nil)
    [] n.t = "hash" ->
         IF n \notin DOMAIN r THEN Failed ELSE delete(r, resolveAndTrack(r, n), key)

(* Deleting a key that is not there returns the node unchanged.            *)
delete(r, n, key) ==
  CASE n.t = "short" ->
         LET m == prefixLen(key, n.key)
             d == delete(r, n.val, Drop(key, Len(n.key)))
         IN  IF m < Len(n.key) THEN Same(n)
             ELSE IF m = Len(key) THEN Dirty(Nil)
             ELSE Wrap(d, n, IF d.node.t = "short"
                             THEN newShort(prefixConcat(n.key, d.node.key), d.node.val)
                             ELSE newShort(n.key, d.node))
    [] n.t = "full" ->
         LET d == delete(r, Child(n, key[1]), Tail(key))
             nn == newFull(SetChild(n, key[1], d.node))
         IN  IF d.err \/ ~d.dirty \/ d.node # Nil THEN Wrap(d, n, nn) ELSE reduce(r, nn)
    [] n.t = "value" -> Dirty(Nil)
    [] n.t = "nil" -> Same(Nil)
    [] n.t = "hash" ->
         IF n \notin DOMAIN r
         THEN Failed
         ELSE LET rn == resolveAndTrack(r, n)
                  d == delete(r, rn, key)
              IN  Wrap(d, rn, d.node)

(* tryUpdate: an empty value deletes.                                      *)
tryUpdate(r, n, key, value) ==
  IF value = Nil THEN delete(r, n, keybytesToHex(key)) ELSE insert(r, n, keybytesToHex(key), value)

(* hashRoot: the root hash, and the root with all hashes cached.           *)
hashRoot(n) == IF n = Nil THEN [hashed |-> emptyRoot, cached |-> Nil] ELSE hash(n, TRUE)

-----------------------------------------------------------------------------
(* The calls.                                                              *)

(* The nodes a call can read: all, or all but one.                         *)
Readable ==
  {db} \cup IF ReadMayFail
            THEN {[h \in DOMAIN db \ {lost} |-> db[h]] : lost \in DOMAIN db}
            ELSE {}

(* NewEmpty on a new database.                                             *)
Init ==
  /\ root = Nil
  /\ db = [h \in {} |-> Nil]
  /\ nodeset = NoNodeSet
  /\ content = Empty
  /\ roots = {}

TryGet(key, r) ==
  /\ nodeset = NoNodeSet
  /\ LET g == tryGet(r, root, keybytesToHex(key))
     IN  root' = IF ~g.err /\ g.didResolve THEN g.node ELSE root
  /\ UNCHANGED <<db, nodeset, content, roots>>

(* Mutant: the root of a failed update is stored.                          *)
Update_IgnoresError(key, value, r) ==
  /\ nodeset = NoNodeSet
  /\ LET u == tryUpdate(r, root, key, value)
     IN  /\ root' = u.node
         /\ content' = IF u.err THEN content ELSE [content EXCEPT ![key] = value]
  /\ UNCHANGED <<db, nodeset, roots>>

(* Update drops the error of tryUpdate: its caller never learns of it.     *)
Update(key, value, r) ==
  /\ nodeset = NoNodeSet
  /\ LET u == tryUpdate(r, root, key, value)
     IN  /\ root' = IF u.err THEN root ELSE u.node
         /\ content' = IF u.err THEN content ELSE [content EXCEPT ![key] = value]
  /\ UNCHANGED <<db, nodeset, roots>>

Hash ==
  /\ nodeset = NoNodeSet
  /\ root' = hashRoot(root).cached
  /\ UNCHANGED <<db, nodeset, content, roots>>

(* Commit hashes the trie.  A clean one (or an empty one) has nothing to   *)
(* commit; otherwise the dirty nodes are collected.  What is left of the   *)
(* trie is its hash.                                                       *)
Commit ==
  /\ nodeset = NoNodeSet
  /\ LET h == hashRoot(root)
         c == commit(h.cached)
     IN  /\ \/ [hash |-> h.hashed, content |-> content] \in roots
            \/ Cardinality(roots) < MaxRoots
         /\ roots' = roots \cup {[hash |-> h.hashed, content |-> content]}
         /\ IF root = Nil
            THEN UNCHANGED <<root, nodeset>>
            ELSE IF isInner(h.cached) /\ ~h.cached.dirty
            THEN root' = h.cached.hash /\ UNCHANGED nodeset
            ELSE root' = c.node /\ nodeset' = c.nodes
  /\ UNCHANGED <<db, content>>

(* TrieDB.Update with the node set: a node that is there already stays.    *)
UpdateDB ==
  /\ nodeset # NoNodeSet
  /\ db' = db @@ [h \in {nodeset[i].hash : i \in DOMAIN nodeset} |->
                    nodeset[CHOOSE i \in DOMAIN nodeset : nodeset[i].hash = h].node]
  /\ nodeset' = NoNodeSet
  /\ UNCHANGED <<root, content, roots>>

(* New on the root of any committed trie, so a caller may go back to an    *)
(* older version.  If the root cannot be read there is no new trie.        *)
New(id, r) ==
  /\ nodeset = NoNodeSet
  /\ \/ id.hash = emptyRoot /\ root' = Nil
     \/ id.hash # emptyRoot /\ id.hash \in DOMAIN r /\ root' = resolveAndTrack(r, id.hash)
  /\ content' = id.content
  /\ UNCHANGED <<db, nodeset, roots>>

ValueNodes == {valueNode(v) : v \in Values}

Next ==
  \/ \E r \in Readable, key \in Keys : TryGet(key, r)
  \/ \E r \in Readable, key \in Keys, value \in ValueNodes \cup {Nil} : Update(key, value, r)
  \/ Hash
  \/ Commit
  \/ UpdateDB
  \/ \E r \in Readable, id \in roots : New(id, r)

Spec == Init /\ [][Next]_vars

-----------------------------------------------------------------------------
(* A reference for the trie: built from the content alone, with no cache,  *)
(* no history and no store.                                                *)

(* The first n digits that all keys of the set S have in common.           *)
CommonPrefix(S) ==
  LET k == (CHOOSE e \in S : TRUE).key
  IN  Take(k, Min({prefixLen(k, e.key) : e \in S}))

RECURSIVE Build(_)
Build(S) ==
  LET p == CommonPrefix(S)
      Below(P, n) == {[e EXCEPT !.key = Drop(@, n)] : e \in P}
      firsts == {e.key[1] : e \in S}
  IN  CASE S = {} -> Nil
        [] \E e \in S : e.key = <<>> -> (CHOOSE e \in S : e.key = <<>>).val
        [] Cardinality(S) = 1 -> LET e == CHOOSE e \in S : TRUE IN rawShortNode(e.key, e.val)
        [] OTHER -> IF p # <<>>
                    THEN rawShortNode(p, Build(Below(S, Len(p))))
                    ELSE rawFullNode([i \in firsts |->
                           Build(Below({e \in S : e.key[1] = i}, 1))])

(* The collapsed form of a node of Build, whose keys are hex keys.         *)
RECURSIVE Collapse(_, _)
Collapse(n, force) ==
  CASE n.t = "rawShort" ->
         toHash(rawShortNode(hexToCompact(n.key), Collapse(n.val, FALSE)), force)
    [] n.t = "rawFull" ->
         toHash(rawFullNode([i \in DOMAIN n.ch |-> Collapse(n.ch[i], FALSE)]), force)
    [] OTHER -> n

Entries(c) == {[key |-> keybytesToHex(k), val |-> c[k]] : k \in {k \in Keys : c[k] # Nil}}

(* The root hash of the trie with content c.                               *)
RootHash(c) == IF c = Empty THEN emptyRoot ELSE Collapse(Build(Entries(c)), TRUE)

-----------------------------------------------------------------------------
(* Properties.                                                             *)

RECURSIVE Minimal(_)
Minimal(n) ==
  CASE n.t = "short" ->
         /\ n.key # <<>>
         /\ IF hasTerm(n.key) THEN n.val.t = "value" ELSE n.val.t \in {"full", "hash"}
         /\ Minimal(n.val)
    [] n.t = "full" ->
         /\ DOMAIN n.ch \subseteq 0..16
         /\ Cardinality(DOMAIN n.ch) >= 2
         /\ \A i \in DOMAIN n.ch :
              Minimal(n.ch[i]) /\ IF i = 16 THEN n.ch[i].t = "value" ELSE n.ch[i].t \in {"short", "full", "hash"}
    [] n.t = "hash" -> Minimal(decodeNode(n, n.of)) /\ n.of.t # "nil"
    [] n.t = "value" -> n.v \in Values
    [] n.t = "nil" -> TRUE
    [] OTHER -> FALSE

(* The type of the trie.  It is in the minimal form that delete has to     *)
(* restore ("It reduces the trie to minimal form", trie.go:304): no short  *)
(* node below a short node, at least two children in a full node, values   *)
(* only in slot 16 and at the end of a key with terminator; through loaded *)
(* and unloaded nodes alike, none of which is invalid.                     *)
MinimalForm == root.t # "value" /\ Minimal(root)

(* The trie maps each key to its value, whatever part of it is loaded,     *)
(* cached or on disk, and a failed update has changed nothing.             *)
GetCorrect ==
  nodeset = NoNodeSet =>
    \A k \in Keys :
      LET g == tryGet(db, root, keybytesToHex(k)) IN ~g.err /\ g.value = content[k]

(* The root hash depends on the content alone, not on the order of the     *)
(* updates and deletes that led to it, nor on which hashes were cached or  *)
(* which nodes had been loaded or committed in between.                    *)
HashCanonical == nodeset = NoNodeSet => hashRoot(root).hashed = RootHash(content)

(* A node set can be given to TrieDB.Update: it stores each node under its *)
(* own hash and lists it after its children, unless they are stored        *)
(* already (the comment in trie_db.go:161 asks for it).                    *)
NodeSetChildrenFirst ==
  \A i \in DOMAIN nodeset :
    /\ nodeset[i].hash = hashNode(nodeset[i].node)
    /\ forGatherChildren(nodeset[i].node)
         \subseteq DOMAIN db \cup {nodeset[j].hash : j \in 1..(i - 1)}

(* Every trie that was ever committed can still be opened and read: later  *)
(* tries share nodes with it but never overwrite or drop one.              *)
OldRootsReadable ==
  nodeset = NoNodeSet =>
    \A id \in roots : \A k \in Keys :
      id.hash # emptyRoot =>
        LET g == tryGet(db, id.hash, keybytesToHex(k)) IN ~g.err /\ g.value = id.content[k]

(* A node read through Node, from the dirty cache, is the node read        *)
(* through NodeBlob and decoded.                                           *)
NodeAgreesWithBlob == \A h \in DOMAIN db : expandNode(h, db[h]) = decodeNode(h, db[h])
=============================================================================
