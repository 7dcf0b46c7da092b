---------------------------- MODULE MCCicapImage ----------------------------
(***************************************************************************)
(* The instance of CicapImage for TLC, over the configurations of          *)
(* MCCicapInit and the tables of the three images.                         *)
(***************************************************************************)
EXTENDS MCCicapInit, CicapImage
=============================================================================
