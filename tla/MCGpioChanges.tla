---------------------------- MODULE MCGpioChanges ----------------------------
(* An instance of GpioChanges for TLC.                                      *)
EXTENDS GpioChanges, TLC

Symmetry == Permutations(Threads)
=============================================================================
