----------------------------- MODULE NodeStore -----------------------------
(***************************************************************************)
(* What a trie database promises to the tries that sit on top of it, with  *)
(* no cache, no batch, no lock and no reader: a content-addressed store of *)
(* trie nodes of which a part is durable.                                  *)
(*                                                                         *)
(*   - a node becomes available only when all its children are;            *)
(*   - a node becomes durable only together with, or after, its children;  *)
(*   - an available node stays available; only a crash of the process may  *)
(*     take it away, and then only if it was not durable.                  *)
(*                                                                         *)
(* TrieDB implements this specification (TrieDB!StoreSpec).                *)
(***************************************************************************)
EXTENDS Naturals, Sequences

CONSTANTS
  Hash,  (* The hashes of all trie nodes.                                  *)
  Kids   (* Kids[h] is the sequence of hashes stored in the node h.        *)

VARIABLES
  avail,   (* Nodes a reader finds.                                        *)
  durable  (* Nodes that survive a crash.                                  *)

storeVars == <<avail, durable>>

(* The set of hashes that occur in a collapsed node.                       *)
KidSet(h) == {Kids[h][i] : i \in DOMAIN Kids[h]}

StoreInit ==
  /\ avail = {}
  /\ durable = {}

(* A node whose children are available becomes available.                  *)
Put(h) ==
  /\ KidSet(h) \subseteq avail
  /\ avail' = avail \cup {h}
  /\ UNCHANGED durable

(* A set of available nodes that is closed under children, up to what is   *)
(* durable already, becomes durable in one step.                           *)
Persist(S) ==
  /\ S \subseteq avail
  /\ \A h \in S : KidSet(h) \subseteq durable \cup S
  /\ durable' = durable \cup S
  /\ UNCHANGED avail

(* The process dies and starts again on the same disk.                     *)
Lose ==
  /\ avail' = durable
  /\ UNCHANGED durable

StoreNext ==
  \/ \E h \in Hash : Put(h)
  \/ \E S \in SUBSET Hash : Persist(S)
  \/ Lose

StoreSpec == StoreInit /\ [][StoreNext]_storeVars

=============================================================================
