--------------------------- MODULE MCFlashStaging ---------------------------
(* An instance of FlashStaging for TLC.                                     *)
EXTENDS FlashStaging, TLC

MCFactory == [f \in Fields |-> IF f = "current" THEN 100 ELSE 0]

Call(op, field, value) == [op |-> op, field |-> field, value |-> value]
MCCalls ==
  {Call("stage", "wake", 1)} \cup {Call("stage", "current", n) : n \in {101, 500, 502}}
  \cup {Call("get", "wake", 0)} \cup {Call(op, "wake", 0) : op \in {"configure", "writeFlash", "save"}}

Symmetry == Permutations(Threads)
=============================================================================
