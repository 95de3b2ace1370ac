---------------------------- MODULE MCRlpStream ----------------------------
(***************************************************************************)
(* Small inputs: single bytes (5), strings (128, 129), empty               *)
(* lists (192) and lists (193, 194), well formed or not, and headers with  *)
(* a size behind them (184, 248, 249), cut short.                          *)
(***************************************************************************)
EXTENDS RlpStreamClient

MCBytes == {5, 129, 193, 194}

MCInputs ==
  [1..3 -> MCBytes] \cup
  {<<>>, <<0>>, <<1, 2>>, <<130, 0, 5>>, <<130, 5, 0>>, <<129, 200>>, <<193, 128>>, <<128>>,
   <<184, 5>>, <<184, 56, 1>>, <<248, 60>>, <<249, 0, 60>>, <<194, 193, 5, 5>>, <<195, 193, 192, 5>>}
=============================================================================
