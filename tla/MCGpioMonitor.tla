---------------------------- MODULE MCGpioMonitor ----------------------------
(* Small instances of GpioMonitor for TLC. *)
EXTENDS GpioMonitor, TLC

\* Nothing selected, or only the rising edges of one pin.
RisingOnOne == {[rise |-> S, fall |-> {}] : S \in {T \in SUBSET Pin : Cardinality(T) <= 1}}
NoFilter    == {[rise |-> {}, fall |-> {}]}

Binary  == {0, 1}
Ternary == {-1, 0, 1}

Symmetry == Permutations(Pin)
=============================================================================
