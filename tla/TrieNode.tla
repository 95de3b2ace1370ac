------------------------------ MODULE TrieNode ------------------------------
(***************************************************************************)
(* Trie nodes and what is computed from them alone: their collapsed form,  *)
(* its size, hashing (trie_node_hasher.go), decoding (trie_node_dec.go),   *)
(* expansion (trie_types.go) and the committer (trie_committer.go).        *)
(*                                                                         *)
(* A node is a record whose field t is its Go type; a Go nil is Nil.  The  *)
(* Children of a full node are a function whose domain is the set of slots *)
(* that are not nil.  Raw nodes are collapsed: their keys are compact and  *)
(* their children are hashes or embedded raw nodes.                        *)
(*                                                                         *)
(* Keccak is a constructor: hashNode(c) is the hash of the encoding of the *)
(* raw node c, so equal hashes mean equal content.  RLP keeps the shape of *)
(* a raw node, so a blob is the raw node itself; only its size matters.    *)
(***************************************************************************)
EXTENDS TrieEncoding, FiniteSetsExt, TLC

CONSTANT ValueSize(_)  (* The length of the RLP string of a value.         *)

Nil == [t |-> "nil"]
valueNode(v) == [t |-> "value", v |-> v]
hashNode(c) == [t |-> "hash", of |-> c]
rawShortNode(k, n) == [t |-> "rawShort", key |-> k, val |-> n]
rawFullNode(ch) == [t |-> "rawFull", ch |-> ch]

(* The flags of a node are its cached hash (or Nil) and its dirty bit.     *)
shortNode(k, n, h, d) == [t |-> "short", key |-> k, val |-> n, hash |-> h, dirty |-> d]
fullNode(ch, h, d) == [t |-> "full", ch |-> ch, hash |-> h, dirty |-> d]

(* newFlag: a new node has no hash and is dirty.                           *)
newShort(k, n) == shortNode(k, n, Nil, TRUE)
newFull(ch) == fullNode(ch, Nil, TRUE)

isInner(n) == n.t \in {"short", "full"}

Child(n, i) == IF i \in DOMAIN n.ch THEN n.ch[i] ELSE Nil

(* The Children of n with slot i set to c, which may be nil.               *)
SetChild(n, i, c) ==
  IF c = Nil THEN [j \in DOMAIN n.ch \ {i} |-> n.ch[j]] ELSE (i :> c) @@ n.ch

(* emptyRoot, the hash of the empty trie.                                  *)
emptyRoot == hashNode(Nil)

-----------------------------------------------------------------------------
(* The length of the RLP encoding.                                         *)

HashLen == 32

BytesSize(b) == IF Len(b) = 1 /\ b[1] < 128 THEN 1 ELSE Len(b) + 1

ListSize(payload) == payload + (IF payload < 56 THEN 1 ELSE IF payload < 256 THEN 2 ELSE 3)

RECURSIVE EncodedSize(_)
EncodedSize(n) ==
  CASE n.t = "nil" -> 1
    [] n.t = "value" -> ValueSize(n.v)
    [] n.t = "hash" -> HashLen + 1
    [] n.t = "rawShort" -> ListSize(BytesSize(n.key) + EncodedSize(n.val))
    [] n.t = "rawFull" ->
         ListSize(17 - Cardinality(DOMAIN n.ch)
                    + MapThenSumSet(LAMBDA i : EncodedSize(n.ch[i]), DOMAIN n.ch))

-----------------------------------------------------------------------------
(* Hashing.                                                                *)

(* shortnodeToHash and fullnodeToHash: small nodes stay in their parent.   *)
toHash(raw, force) ==
  IF EncodedSize(raw) < HashLen /\ ~force THEN raw ELSE hashNode(raw)

(* hash returns the collapsed node (a hash, or the node if it is small)    *)
(* and the node with all hashes cached.                                    *)
RECURSIVE hash(_, _)
hash(n, force) ==
  LET Both(raw, cached) ==
        LET hashed == toHash(raw, force)
        IN  [hashed |-> hashed,
             cached |-> [cached EXCEPT !.hash = IF hashed.t = "hash" THEN hashed ELSE Nil]]
  IN  CASE isInner(n) /\ n.hash # Nil -> [hashed |-> n.hash, cached |-> n]
        [] n.t = "short" /\ n.hash = Nil ->
             LET c == hash(n.val, FALSE)
             IN  Both(rawShortNode(hexToCompact(n.key), c.hashed), [n EXCEPT !.val = c.cached])
        [] n.t = "full" /\ n.hash = Nil ->
             LET c == [i \in DOMAIN n.ch |-> hash(n.ch[i], FALSE)]
             IN  Both(rawFullNode([i \in DOMAIN n.ch |-> c[i].hashed]),
                      [n EXCEPT !.ch = [i \in DOMAIN n.ch |-> c[i].cached]])
        [] ~isInner(n) -> [hashed |-> n, cached |-> n]

-----------------------------------------------------------------------------
(* Decoding a blob, and expanding a cached raw node.                       *)

(* What mustDecodeNode makes of an oversized embedded node: a panic.       *)
Invalid == [t |-> "invalid"]

RECURSIVE decodeNode(_, _)
decodeRef(n) ==
  CASE n.t \in {"rawShort", "rawFull"} ->
         IF EncodedSize(n) > HashLen THEN Invalid ELSE decodeNode(Nil, n)
    [] OTHER -> n

decodeNode(h, raw) ==
  CASE raw.t = "rawShort" ->
         LET key == compactToHex(raw.key)
         IN  shortNode(key, IF hasTerm(key) THEN raw.val ELSE decodeRef(raw.val), h, FALSE)
    [] raw.t = "rawFull" ->
         fullNode([i \in DOMAIN raw.ch |-> IF i = 16 THEN raw.ch[i] ELSE decodeRef(raw.ch[i])],
                  h, FALSE)

(* Mutant: embedded nodes get the hash of the node around them.            *)
RECURSIVE expandNode_KeepsHash(_, _)
expandNode_KeepsHash(h, raw) ==
  CASE raw.t = "rawShort" ->
         shortNode(compactToHex(raw.key), expandNode_KeepsHash(h, raw.val), h, FALSE)
    [] raw.t = "rawFull" ->
         fullNode([i \in DOMAIN raw.ch |-> expandNode_KeepsHash(h, raw.ch[i])], h, FALSE)
    [] OTHER -> raw

RECURSIVE expandNode(_, _)
expandNode(h, raw) ==
  CASE raw.t = "rawShort" ->
         shortNode(compactToHex(raw.key), expandNode(Nil, raw.val), h, FALSE)
    [] raw.t = "rawFull" ->
         fullNode([i \in DOMAIN raw.ch |-> expandNode(Nil, raw.ch[i])], h, FALSE)
    [] OTHER -> raw

(* forGatherChildren: the hashes inside a raw node.                        *)
RECURSIVE forGatherChildren(_)
forGatherChildren(raw) ==
  CASE raw.t = "rawShort" -> forGatherChildren(raw.val)
    [] raw.t = "rawFull" -> UNION {forGatherChildren(raw.ch[i]) : i \in DOMAIN raw.ch \ {16}}
    [] raw.t = "hash" -> {raw}
    [] OTHER -> {}

-----------------------------------------------------------------------------
(* The committer.                                                          *)

(* Mutant: a node is collected before its children.                        *)
nodeCommit_ParentFirst(h, raw, nodes) ==
  IF h # Nil
  THEN [node |-> h, nodes |-> <<[hash |-> h, node |-> raw]>> \o nodes]
  ELSE [node |-> raw, nodes |-> nodes]

(* nodeCommit: a node with a hash joins the node set, after its children;  *)
(* a small one is returned to be embedded in its parent.                   *)
nodeCommit(h, raw, nodes) ==
  IF h # Nil
  THEN [node |-> h, nodes |-> Append(nodes, [hash |-> h, node |-> raw])]
  ELSE [node |-> raw, nodes |-> nodes]

(* commitChildren of the slots i..15: the collapsed Children, and the      *)
(* nodes collected below them, in slot order.                              *)
RECURSIVE commit(_)
RECURSIVE commitChildren(_, _)
commitChildren(n, i) ==
  IF i = 16
  THEN [ch |-> [j \in DOMAIN n.ch \cap {16} |-> n.ch[j]], nodes |-> <<>>]
  ELSE LET rest == commitChildren(n, i + 1)
           c == commit(n.ch[i])
       IN  IF i \notin DOMAIN n.ch
           THEN rest
           ELSE [ch |-> (i :> c.node) @@ rest.ch, nodes |-> c.nodes \o rest.nodes]

(* Mutant: the full node below a short node is not committed.              *)
commit_SkipsBelowShort(n) ==
  CASE isInner(n) /\ n.hash # Nil /\ ~n.dirty -> [node |-> n.hash, nodes |-> <<>>]
    [] n.t = "short" /\ ~(n.hash # Nil /\ ~n.dirty) ->
         LET val == hash(n.val, FALSE).hashed
         IN  nodeCommit(n.hash, rawShortNode(hexToCompact(n.key), val), <<>>)
    [] n.t = "full" /\ ~(n.hash # Nil /\ ~n.dirty) ->
         LET c == commitChildren(n, 0)
         IN  nodeCommit(n.hash, rawFullNode(c.ch), c.nodes)
    [] n.t = "hash" -> [node |-> n, nodes |-> <<>>]

(* A clean node is in the database already and stands for itself by its    *)
(* hash; a dirty one is collapsed after its children were committed.       *)
commit(n) ==
  CASE isInner(n) /\ n.hash # Nil /\ ~n.dirty -> [node |-> n.hash, nodes |-> <<>>]
    [] n.t = "short" /\ ~(n.hash # Nil /\ ~n.dirty) ->
         LET c == IF n.val.t = "full" THEN commit(n.val) ELSE [node |-> n.val, nodes |-> <<>>]
         IN  nodeCommit(n.hash, rawShortNode(hexToCompact(n.key), c.node), c.nodes)
    [] n.t = "full" /\ ~(n.hash # Nil /\ ~n.dirty) ->
         LET c == commitChildren(n, 0)
         IN  nodeCommit(n.hash, rawFullNode(c.ch), c.nodes)
    [] n.t = "hash" -> [node |-> n, nodes |-> <<>>]
=============================================================================
