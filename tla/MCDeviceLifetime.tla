-------------------------- MODULE MCDeviceLifetime --------------------------
(* Small instances of DeviceLifetime for TLC. *)
EXTENDS DeviceLifetime, TLC

\* The members of each sort are interchangeable.
Symmetry == Permutations(Thread) \cup Permutations(Root) \cup Permutations(Adapter)
              \cup Permutations(State) \cup Permutations(Child)
=============================================================================
