------------------------- MODULE MCCicapContainer -------------------------
(***************************************************************************)
(* The instance of CicapContainer for TLC, over the configurations of      *)
(* MCCicapInit.                                                            *)
(***************************************************************************)
EXTENDS MCCicapInit, CicapContainer
=============================================================================
