------------------------- MODULE MCSquidContainer -------------------------
(***************************************************************************)
(* The instance of SquidContainer for TLC, over the configurations of      *)
(* MCSquidInit.                                                            *)
(***************************************************************************)
EXTENDS MCSquidInit, SquidContainer

OnlyExplicit == {Explicit}
=============================================================================
