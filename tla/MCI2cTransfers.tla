--------------------------- MODULE MCI2cTransfers ---------------------------
(* An instance of I2cTransfers for TLC: one call of each kind.              *)
EXTENDS I2cTransfers, TLC

Call(op, reg, value, transfer) == [op |-> op, reg |-> reg, value |-> value, transfer |-> transfer]

MCCalls ==
  {Call("readRegister", r, None, "Normal") : r \in Registers}
  \cup {Call("writeRegister", r, 1, "Normal") : r \in Registers \ {Status}}
  \cup {Call("i2cWrite", r, None, "NoStop") : r \in Registers}
  \cup {Call("i2cWrite", Status, 0, "Normal"), Call("isPresent", Status, None, "Normal")}
  \cup {Call("i2cRead", Status, None, k) : k \in {"Normal", "RepeatedStart", "NoStop", "Bogus"}}

Symmetry == Permutations(Threads)
=============================================================================
