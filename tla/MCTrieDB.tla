------------------------------ MODULE MCTrieDB ------------------------------
(***************************************************************************)
(* A small instance of TrieDB with every shape the database tells apart:   *)
(*                                                                         *)
(*   s  a storage trie of one leaf; as an account its value is BadBlob     *)
(*   l  an account leaf whose storage root is s                            *)
(*   x  an account leaf whose storage trie is empty                        *)
(*   p  a full node that holds l twice, and x                              *)
(*   q  a full node that holds p and s                                     *)
(*                                                                         *)
(* One walk from q meets l twice and s three times (inside q and as the    *)
(* external child of l), so nodes are put in a batch more than once.       *)
(***************************************************************************)
EXTENDS TrieDB, TLC

CONSTANTS s, l, x, p, q

MCHash == {s, l, x, p, q}

MCKids == (s :> <<>>) @@ (l :> <<>>) @@ (x :> <<>>) @@ (p :> <<l, l, x>>) @@ (q :> <<p, s>>)

MCAccount == (s :> BadBlob) @@ (l :> s) @@ (x :> EmptyRoot) @@ (p :> NotLeaf) @@ (q :> NotLeaf)

MCWeight == (s :> 1) @@ (l :> 1) @@ (x :> 1) @@ (p :> 2) @@ (q :> 2)

MCStorageLists == {<<s>>, <<x>>}

(* Whole tries, tries whose lower part is known already, and single nodes. *)
MCAccountLists == {<<s>>, <<l>>, <<l, x, p>>, <<l, x, p, s, q>>, <<p, q>>}

MCCommitArgs == {p, q}

(* The instance for the readers: fewer ways to call Update and Commit, and *)
(* no Update while a node has two references (MaxParents), which would be   *)
(* counted again and again for a node that batch.Put failed to write.      *)
(* Readers do not touch any state that another reader sees, so one is      *)
(* enough.                                                                 *)
MCReadStorageLists == {<<s>>}
MCReadAccountLists == {<<l, x, p>>}
MCReadCommitArgs == {p}
MCNodeArgs == {l}
MCBlobArgs == {s}
=============================================================================
