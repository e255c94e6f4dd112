----------------------------- MODULE MCRequests -----------------------------
(* An instance of Requests for TLC: every method at its boundaries.         *)
EXTENDS Requests

Plain(op) == [op |-> op, qt |-> FALSE, address |-> 80, size |-> 4, null |-> FALSE, speed |-> 100000,
              width |-> "Bits8", order |-> "BigEndian", section |-> "GpSettings"]

Boundaries == {-1, 0, 1, 62, 63, 64, 65, 255, 256, 257, 65535, 65536, 70000}
QtOps == {"read", "write", "readRegister", "writeRegister", "writeBlockData", "blockProcessCall",
          "readI2cBlockData", "writeI2cBlockData", "setInterval"}

MCRequests ==
  {[Plain(op) EXCEPT !.size = n] : op \in Sized, n \in Boundaries \ {-1}}
  \cup {[Plain(op) EXCEPT !.size = n, !.qt = TRUE] : op \in QtOps, n \in Boundaries}
  \cup {[Plain(op) EXCEPT !.size = n, !.null = TRUE] : op \in Pointed \cup {"writeRegister"}, n \in {0, 4}}
  \cup {[Plain(op) EXCEPT !.address = n] : op \in Addressed, n \in {0, 127, 128, 255}}
  \cup {[Plain(op) EXCEPT !.speed = n] : op \in Clocked, n \in {0, 1, 400000, 400001}}
  \cup {[Plain(op) EXCEPT !.width = w, !.order = o] :
          op \in Layouts, w \in {"Bits32", "Bogus"}, o \in {"LittleEndian", "Bogus"}}
  \cup {[Plain(op) EXCEPT !.section = s] : op \in Sections, s \in {"UsbProduct", "Bogus"}}
  \cup {Plain(op) : op \in {"readBlockData", "readGpio", "smbusDevice"}}
=============================================================================
