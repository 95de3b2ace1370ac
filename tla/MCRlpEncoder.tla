---------------------------- MODULE MCRlpEncoder ----------------------------
(***************************************************************************)
(* Two clients and two buffers.  One client writes up to three strings and *)
(* lists, the other one at most one.  Inside two lists the string makes    *)
(* the inner list short (55 bytes) and the outer one long.                 *)
(***************************************************************************)
EXTENDS RlpEncoder, TLC

CONSTANTS c1, c2

MCStrings == {[i \in 1..54 |-> 200]}
MCMaxWrites == (c1 :> 3) @@ (c2 :> 1)
=============================================================================
