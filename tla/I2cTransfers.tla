---------------------------- MODULE I2cTransfers ----------------------------
(***************************************************************************)
(* One I2C target, reached from several threads through adapters and raw   *)
(* transfers.  The target has registers and a register pointer: a write    *)
(* sets the pointer (and the register, when it carries a value), a read    *)
(* returns the register the pointer names.  I2cDevice and SmbusDevice      *)
(* methods do their write and their read in one native call under the      *)
(* mutex; a program that writes with NoStop and reads with RepeatedStart   *)
(* through Device does the same in two calls, each with a lock of its own. *)
(*                                                                         *)
(* The target and the bus are external.  What a target makes of its        *)
(* pointer at a STOP is its own affair: any register may be the next one.  *)
(***************************************************************************)
EXTENDS Naturals

CONSTANTS
  Threads,
  Registers, Values,
  Status,    \* a register the target sets to 1 by itself
  Calls,     \* records of op, reg, value and transfer
  None

ASSUME StatusIsARegister == Status \in Registers /\ {0, 1} \subseteq Values

VARIABLES
  regs,      \* the target's registers
  pointer,   \* its register pointer
  holder,    \* the thread that holds the device's mutex
  pc, call,  \* where each thread is, and in which call
  reply,     \* what a read returned: the register it came from and its value
  selected,  \* the register a thread's own NoStop write named last
  crossed    \* whether another thread locked the device since

vars == <<regs, pointer, holder, pc, call, reply, selected, crossed>>

\* Methods that write and then read in one native call: I2cDevice's register
\* reads, SmbusDevice's data and block reads and its process calls.
Exchanges == {"readRegister", "readByteData", "readWordData", "readBlockData",
              "readI2cBlockData", "processCall", "blockProcessCall"}
Writes == {"writeRegister", "write", "writeByte", "writeByteData", "writeWordData",
           "writeBlockData", "writeI2cBlockData", "i2cWrite"}
Reads  == {"read", "readByte", "i2cRead"}
Stops  == {"isPresent", "releaseI2c"}

\* "Bogus" stands for any other value of the enumeration's type.
ASSUME CallTypes ==
  \A c \in Calls : /\ c.op \in Exchanges \cup Writes \cup Reads \cup Stops
                   /\ c.reg \in Registers /\ c.value \in Values \cup {None}
                   /\ c.transfer \in {"Normal", "RepeatedStart", "NoStop", "Bogus"}

ASSUME NoneApart == /\ None \notin Threads /\ None \notin Calls
                    /\ None \notin Registers /\ \A v \in Values : v # None

\* Mutant: NoStop falls through to a normal transfer.
toNativeTransferFallsThrough(writing) ==
  [k \in {"Normal", "RepeatedStart"} \cup IF writing THEN {"NoStop"} ELSE {} |->
     IF k = "RepeatedStart" THEN "REPEATED_START" ELSE "NORMAL"]

\* NoStop is valid for writes only; any other value is unknown.
toNativeTransfer(writing) ==
  [k \in {"Normal", "RepeatedStart"} \cup IF writing THEN {"NoStop"} ELSE {} |->
     CASE k = "Normal" -> "NORMAL" [] k = "RepeatedStart" -> "REPEATED_START"
       [] k = "NoStop" -> "NO_STOP"]

\* Only the raw transfers of Device take a kind.
Raw(c)     == c.op \in {"i2cWrite", "i2cRead"}
Accepts(c) == Raw(c) => c.transfer \in DOMAIN toNativeTransfer(c.op = "i2cWrite")
Kind(c)    == IF Raw(c) THEN toNativeTransfer(c.op = "i2cWrite")[c.transfer] ELSE "NORMAL"

-----------------------------------------------------------------------------

To(t, label) == pc' = [pc EXCEPT ![t] = label]

Invoke(t, c) ==
  /\ pc[t] = "idle"
  /\ call' = [call EXCEPT ![t] = c]
  /\ To(t, "begun")
  /\ UNCHANGED <<regs, pointer, holder, reply, selected, crossed>>

\* The transfer kind is translated before the lock.
Refuse(t) ==
  /\ pc[t] = "begun" /\ ~Accepts(call[t])
  /\ To(t, "refused")
  /\ UNCHANGED <<regs, pointer, holder, call, reply, selected, crossed>>

Enter(t) == /\ pc[t] = "begun" /\ Accepts(call[t])
            /\ To(t, CASE call[t].op \in Exchanges \cup Writes -> "writing"
                       [] call[t].op \in Reads -> "reading"
                       [] OTHER -> "stopping")
            /\ crossed' = [u \in Threads |-> crossed[u] \/ u # t]
            /\ UNCHANGED <<regs, pointer, call, reply, selected>>

\* Mutant: the lock_guard is missing.
LockMissing(t) == Enter(t) /\ UNCHANGED holder

Lock(t) == holder = None /\ holder' = t /\ Enter(t)

\* The write of a native call.  Without a read to follow or a NoStop, it
\* ends in a STOP and the call returns.
BusWrite(t) ==
  LET c == call[t]
      last == c.op \notin Exchanges IN
  /\ pc[t] = "writing"
  /\ regs' = IF c.op \in Exchanges \/ c.value = None THEN regs ELSE [regs EXCEPT ![c.reg] = c.value]
  /\ pointer' \in IF last /\ Kind(c) # "NO_STOP" THEN Registers ELSE {c.reg}
  /\ To(t, IF last THEN "done" ELSE "reading")
  /\ holder' = IF last THEN None ELSE holder
  /\ IF Raw(c) /\ c.transfer = "NoStop"
     THEN selected' = [selected EXCEPT ![t] = c.reg] /\ crossed' = [crossed EXCEPT ![t] = FALSE]
     ELSE UNCHANGED <<selected, crossed>>
  /\ UNCHANGED <<call, reply>>

\* The read of a native call: after a repeated start from where the pointer
\* is, after a fresh start from wherever the target has it then.
BusRead(t) ==
  LET c == call[t] IN
  /\ pc[t] = "reading"
  /\ \E r \in IF c.op \in Exchanges \/ Kind(c) = "REPEATED_START" THEN {pointer} ELSE Registers :
       reply' = [reply EXCEPT ![t] = [reg |-> r, value |-> regs[r]]]
  /\ pointer' \in Registers
  /\ To(t, "done")
  /\ holder' = None
  /\ UNCHANGED <<regs, call, selected, crossed>>

\* A probe of the address, or the release of the I2C engine.
BusStop(t) ==
  /\ pc[t] = "stopping"
  /\ pointer' \in Registers
  /\ To(t, "done")
  /\ holder' = None
  /\ UNCHANGED <<regs, call, reply, selected, crossed>>

\* Mutant: the exception leaves with the lock.
BusFailsLocked(t) ==
  /\ pc[t] \in {"writing", "reading", "stopping"}
  /\ pointer' \in Registers
  /\ To(t, "failed")
  /\ UNCHANGED <<regs, holder, call, reply, selected, crossed>>

\* The native call fails: a write may have reached the register; the bus is
\* in whatever state it is; checkError throws and the lock is given back.
BusFails(t) ==
  /\ pc[t] \in {"writing", "reading", "stopping"}
  /\ \/ UNCHANGED regs
     \/ /\ pc[t] = "writing" /\ call[t].op \notin Exchanges /\ call[t].value # None
        /\ regs' = [regs EXCEPT ![call[t].reg] = call[t].value]
  /\ pointer' \in Registers
  /\ To(t, "failed")
  /\ holder' = None
  /\ UNCHANGED <<call, reply, selected, crossed>>

\* The caller goes on; only a NoStop write that succeeded leaves it with a
\* register selected.
Return(t) ==
  /\ pc[t] \in {"done", "refused", "failed"}
  /\ To(t, "idle")
  /\ call' = [call EXCEPT ![t] = None]
  /\ reply' = [reply EXCEPT ![t] = None]
  /\ selected' = IF pc[t] = "done" /\ Raw(call[t]) /\ call[t].transfer = "NoStop"
                 THEN selected ELSE [selected EXCEPT ![t] = None]
  /\ UNCHANGED <<regs, pointer, holder, crossed>>

\* The target reports something of its own.
Event == /\ regs' = [regs EXCEPT ![Status] = 1]
         /\ UNCHANGED <<pointer, holder, pc, call, reply, selected, crossed>>

Init == /\ regs = [r \in Registers |-> 0]
        /\ pointer \in Registers
        /\ holder = None
        /\ pc = [t \in Threads |-> "idle"]
        /\ call = [t \in Threads |-> None]
        /\ reply = [t \in Threads |-> None]
        /\ selected = [t \in Threads |-> None]
        /\ crossed = [t \in Threads |-> FALSE]

Next == \/ \E t \in Threads :
             \/ \E c \in Calls : Invoke(t, c)
             \/ Refuse(t) \/ Lock(t) \/ BusWrite(t) \/ BusRead(t) \/ BusStop(t)
             \/ BusFails(t) \/ Return(t)
        \/ Event

Spec == Init /\ [][Next]_vars

-----------------------------------------------------------------------------
(* Properties *)

Running == {"writing", "reading", "stopping"}

\* Type correctness; the mutex is held exactly by a thread inside a native
\* call, whichever way it leaves it (lock_guard in every method).
TypeOK ==
  /\ regs \in [Registers -> Values] /\ pointer \in Registers
  /\ \A t \in Threads :
       /\ pc[t] \in Running \cup {"idle", "begun", "done", "refused", "failed"}
       /\ call[t] \in Calls \cup {None} /\ (call[t] = None <=> pc[t] = "idle")
       /\ holder = t <=> pc[t] \in Running
       /\ reply[t] # None => pc[t] = "done" /\ reply[t] \in [reg : Registers, value : Values]
       /\ selected[t] \in Registers \cup {None} /\ crossed[t] \in BOOLEAN

\* What the transfer kinds are for, a register read made of a NoStop write
\* and then a RepeatedStart read (Device.cpp:447-479), returns the register
\* it named unless another thread entered the device between the two calls:
\* each call has a lock of its own, so that is the one reason there is.
PairReadsOwn ==
  \A t \in Threads :
    /\ pc[t] = "done" /\ call[t].op = "i2cRead" /\ call[t].transfer = "RepeatedStart"
    /\ selected[t] # None /\ ~crossed[t]
    => reply[t].reg = selected[t]

\* What a call asks of the registers: raw reads name none.
Update(c) ==
  [legal |-> ~(c.op = "i2cRead" /\ c.transfer = "NoStop") /\ (Raw(c) => c.transfer # "Bogus"),
   sets  |-> IF c.op \in Writes /\ c.value # None THEN [r \in {c.reg} |-> c.value] ELSE [r \in {} |-> 0],
   reads |-> IF c.op \in Exchanges THEN {c.reg} ELSE {}]

Abstract ==
  INSTANCE PartialUpdates WITH
    Updates <- {Update(c) : c \in Calls},
    Flag    <- Status,
    setting <- regs,
    asked   <- [t \in Threads |-> IF call[t] = None THEN None ELSE Update(call[t])],
    answer  <- [t \in Threads |-> IF pc[t] \in Running \cup {"begun"} THEN "pending" ELSE pc[t]],
    reply   <- [t \in Threads |-> IF pc[t] # "done" THEN None
                                  ELSE [r \in Update(call[t]).reads |-> reply[t].value]]

\* However adapters and raw transfers of several threads interleave, and
\* though each exchange is two transfers on the bus, a register read returns
\* the register it names and a register write changes that one: every call
\* takes effect at one moment, and a failed one at most writes what it named.
RegistersAtomic == Abstract!Spec
=============================================================================
