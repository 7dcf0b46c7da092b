---------------------------- MODULE MCEicarTest ----------------------------
(***************************************************************************)
(* Instances of EicarTest for TLC.                                         *)
(***************************************************************************)
EXTENDS EicarTest, TLC

Symmetry == Permutations(Runs)
=============================================================================
