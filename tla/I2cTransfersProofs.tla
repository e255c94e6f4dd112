------------------------- MODULE I2cTransfersProofs -------------------------
(***************************************************************************)
(* Proofs about I2cTransfers, for any number of threads, registers and     *)
(* calls: IInv is inductive and implies the invariants the run checks, and *)
(* in a state that satisfies it every step is one of PartialUpdates.       *)
(***************************************************************************)
EXTENDS I2cTransfers, TLAPS

Labels == Running \cup {"idle", "begun", "done", "refused", "failed"}

TypeInv ==
  /\ regs \in [Registers -> Values] /\ pointer \in Registers
  /\ pc \in [Threads -> Labels]
  /\ call \in [Threads -> Calls \cup {None}]
  /\ reply \in [Threads -> [reg : Registers, value : Values] \cup {None}]
  /\ selected \in [Threads -> Registers \cup {None}]
  /\ crossed \in [Threads -> BOOLEAN]

\* The mutex is held exactly by the thread inside a native call.
LockInv == \A t \in Threads : holder = t <=> pc[t] \in Running

\* A call is where its kind takes it, and only after its check.
CallInv ==
  \A t \in Threads :
    /\ call[t] = None <=> pc[t] = "idle"
    /\ pc[t] = "writing"  => call[t].op \in Exchanges \cup Writes
    /\ pc[t] = "reading"  => call[t].op \in Exchanges \cup Reads
    /\ pc[t] = "stopping" => call[t].op \in Stops
    /\ pc[t] \in Running \cup {"done"} => Accepts(call[t])

\* Only a call that has returned has a reply.
ReplyInv == \A t \in Threads : reply[t] # None => pc[t] = "done"

\* A register read is inside its own exchange when it reads.
ExchangeInv ==
  \A t \in Threads : pc[t] = "reading" /\ call[t].op \in Exchanges => pointer = call[t].reg

\* Whoever is inside has crossed everybody else.
CrossedInv == \A t, u \in Threads : t # u /\ pc[u] \in Running => crossed[t]

NoStopWrite(c) == Raw(c) /\ c.transfer = "NoStop"

\* From a NoStop write that nobody crossed to the raw read that follows it,
\* the pointer stays.
PointerInv ==
  \A t \in Threads :
    /\ selected[t] # None /\ ~crossed[t]
    /\ \/ pc[t] \in {"idle", "begun"}
       \/ pc[t] = "reading" /\ call[t].op = "i2cRead"
       \/ pc[t] = "done" /\ NoStopWrite(call[t])
    => pointer = selected[t]

IInv == TypeInv /\ LockInv /\ CallInv /\ ReplyInv /\ ExchangeInv /\ CrossedInv /\ PointerInv
          /\ PairReadsOwn

-----------------------------------------------------------------------------
(* The transfer kinds *)

\* Which raw transfers are accepted, and what becomes of them.
LEMMA Kinds ==
  ASSUME NEW c \in Calls
  PROVE  /\ Accepts(c) <=> Update(c).legal
         /\ Accepts(c) /\ NoStopWrite(c) => c.op = "i2cWrite" /\ Kind(c) = "NO_STOP"
         /\ Accepts(c) /\ Kind(c) = "NO_STOP" => NoStopWrite(c)
         /\ c.op = "i2cRead" /\ c.transfer = "RepeatedStart" => Kind(c) = "REPEATED_START"
<1>1. CASE c.op = "i2cWrite"
  <2>1. \A k \in {"Normal", "RepeatedStart", "NoStop"} :
          toNativeTransfer(TRUE)[k] = "NO_STOP" <=> k = "NoStop"
    BY DEF toNativeTransfer
  <2>2. DOMAIN toNativeTransfer(TRUE) = {"Normal", "RepeatedStart", "NoStop"}
    BY DEF toNativeTransfer
  <2> QED  BY <1>1, <2>1, <2>2, CallTypes DEF Accepts, Kind, Raw, Update, NoStopWrite
<1>2. CASE c.op = "i2cRead"
  <2>1. DOMAIN toNativeTransfer(FALSE) = {"Normal", "RepeatedStart"}
    BY DEF toNativeTransfer
  <2>2. /\ toNativeTransfer(FALSE)["RepeatedStart"] = "REPEATED_START"
        /\ toNativeTransfer(FALSE)["Normal"] = "NORMAL"
    BY DEF toNativeTransfer
  <2> QED  BY <1>2, <2>1, <2>2, CallTypes DEF Accepts, Kind, Raw, Update, NoStopWrite
<1>3. CASE c.op \notin {"i2cWrite", "i2cRead"}
  BY <1>3 DEF Accepts, Kind, Raw, Update, NoStopWrite
<1> QED  BY <1>1, <1>2, <1>3

LEMMA OpsApart ==
  /\ Exchanges \cap (Writes \cup Reads \cup Stops) = {}
  /\ Stops \cap (Writes \cup Reads) = {} /\ Writes \cap Reads = {}
  /\ "i2cRead" \in Reads /\ "i2cWrite" \in Writes
  BY DEF Exchanges, Writes, Reads, Stops

-----------------------------------------------------------------------------

LEMMA Initially == Init => IInv
<1> SUFFICES ASSUME Init PROVE IInv
  OBVIOUS
<1>1. TypeInv
  BY StatusIsARegister DEF Init, TypeInv, Labels
<1>2. LockInv /\ CallInv /\ ReplyInv /\ ExchangeInv /\ CrossedInv
  BY NoneApart DEF Init, LockInv, CallInv, ReplyInv, ExchangeInv, CrossedInv, Running
<1>3. PointerInv /\ PairReadsOwn
  BY DEF Init, PointerInv, PairReadsOwn
<1> QED  BY <1>1, <1>2, <1>3 DEF IInv

\* Asking, being refused and going on touch neither bus nor mutex.
LEMMA InvokeKeeps == ASSUME IInv, NEW t \in Threads, NEW c \in Calls, Invoke(t, c) PROVE IInv'
<1>1. /\ UNCHANGED <<regs, pointer, holder, reply, selected, crossed>> /\ pc[t] = "idle"
      /\ pc' = [pc EXCEPT ![t] = "begun"] /\ call' = [call EXCEPT ![t] = c]
  BY DEF Invoke, To
<1>2. TypeInv'
  BY <1>1 DEF IInv, TypeInv, Labels
<1>3. LockInv' /\ CallInv' /\ ReplyInv' /\ ExchangeInv' /\ CrossedInv'
  BY <1>1, NoneApart DEF IInv, TypeInv, LockInv, CallInv, ReplyInv, ExchangeInv, CrossedInv, Running
<1>4. PointerInv' /\ PairReadsOwn'
  BY <1>1 DEF IInv, TypeInv, PointerInv, PairReadsOwn
<1> QED  BY <1>2, <1>3, <1>4 DEF IInv

LEMMA RefuseKeeps == ASSUME IInv, NEW t \in Threads, Refuse(t) PROVE IInv'
<1>1. /\ UNCHANGED <<regs, pointer, holder, call, reply, selected, crossed>> /\ pc[t] = "begun"
      /\ pc' = [pc EXCEPT ![t] = "refused"]
  BY DEF Refuse, To
<1>2. TypeInv'
  BY <1>1 DEF IInv, TypeInv, Labels
<1>3. LockInv' /\ CallInv' /\ ReplyInv' /\ ExchangeInv' /\ CrossedInv'
  BY <1>1 DEF IInv, TypeInv, LockInv, CallInv, ReplyInv, ExchangeInv, CrossedInv, Running
<1>4. PointerInv' /\ PairReadsOwn'
  BY <1>1 DEF IInv, TypeInv, PointerInv, PairReadsOwn
<1> QED  BY <1>2, <1>3, <1>4 DEF IInv

LEMMA ReturnKeeps == ASSUME IInv, NEW t \in Threads, Return(t) PROVE IInv'
<1>1. /\ UNCHANGED <<regs, pointer, holder, crossed>> /\ pc[t] \in {"done", "refused", "failed"}
      /\ pc' = [pc EXCEPT ![t] = "idle"]
      /\ call' = [call EXCEPT ![t] = None] /\ reply' = [reply EXCEPT ![t] = None]
      /\ selected' = IF pc[t] = "done" /\ NoStopWrite(call[t])
                     THEN selected ELSE [selected EXCEPT ![t] = None]
  BY DEF Return, To, NoStopWrite
<1>2. TypeInv'
  BY <1>1 DEF IInv, TypeInv, Labels
<1>3. LockInv' /\ CallInv' /\ ReplyInv' /\ ExchangeInv' /\ CrossedInv'
  BY <1>1, NoneApart DEF IInv, TypeInv, LockInv, CallInv, ReplyInv, ExchangeInv, CrossedInv, Running
<1>4. PointerInv'
  BY <1>1 DEF IInv, TypeInv, PointerInv
<1>5. PairReadsOwn'
  BY <1>1 DEF IInv, TypeInv, PairReadsOwn
<1> QED  BY <1>2, <1>3, <1>4, <1>5 DEF IInv

LEMMA LockKeeps == ASSUME IInv, NEW t \in Threads, Lock(t) PROVE IInv'
<1>1. /\ UNCHANGED <<regs, pointer, call, reply, selected>> /\ pc[t] = "begun"
      /\ holder = None /\ holder' = t /\ Accepts(call[t])
      /\ crossed' = [u \in Threads |-> crossed[u] \/ u # t]
  BY DEF Lock, Enter
<1>2. PICK l \in Running :
        /\ pc' = [pc EXCEPT ![t] = l]
        /\ l = "writing"  => call[t].op \in Exchanges \cup Writes
        /\ l = "reading"  => call[t].op \in Reads
        /\ l = "stopping" => call[t].op \in Stops
  <2>1. call[t] \in Calls
    BY <1>1 DEF IInv, TypeInv, CallInv
  <2>2. CASE call[t].op \in Exchanges \cup Writes
    <3>1. pc' = [pc EXCEPT ![t] = "writing"]
      BY <2>2, OpsApart DEF Lock, Enter, To
    <3> QED  BY <2>2, <3>1 DEF Running
  <2>3. CASE call[t].op \in Reads
    <3>1. pc' = [pc EXCEPT ![t] = "reading"]
      BY <2>3, OpsApart DEF Lock, Enter, To
    <3> QED  BY <2>3, <3>1 DEF Running
  <2>4. CASE call[t].op \in Stops
    <3>1. pc' = [pc EXCEPT ![t] = "stopping"]
      BY <2>4, OpsApart DEF Lock, Enter, To
    <3> QED  BY <2>4, <3>1 DEF Running
  <2> QED  BY <2>1, <2>2, <2>3, <2>4, CallTypes
<1>3. TypeInv'
  BY <1>1, <1>2 DEF IInv, TypeInv, Labels
<1>4. \A u \in Threads : pc[u] \notin Running
  BY <1>1, NoneApart DEF IInv, LockInv
<1>5. LockInv' /\ CallInv' /\ ReplyInv'
  BY <1>1, <1>2, <1>4 DEF IInv, TypeInv, LockInv, CallInv, ReplyInv, Running
<1>6. ExchangeInv' /\ CrossedInv'
  BY <1>1, <1>2, <1>4, OpsApart DEF IInv, TypeInv, ExchangeInv, CrossedInv, Running
<1>7. PointerInv' /\ PairReadsOwn'
  BY <1>1, <1>2 DEF IInv, TypeInv, PointerInv, PairReadsOwn, Running
<1> QED  BY <1>3, <1>5, <1>6, <1>7 DEF IInv

-----------------------------------------------------------------------------
(* The steps on the bus *)

\* The thread on the bus is alone there, and everybody else is crossed.
LEMMA AloneOnBus ==
  ASSUME IInv, NEW t \in Threads, pc[t] \in Running
  PROVE  /\ \A u \in Threads \ {t} : pc[u] \notin Running /\ crossed[u]
         /\ holder = t /\ call[t] \in Calls /\ Accepts(call[t]) /\ reply[t] = None
  BY DEF IInv, TypeInv, LockInv, CallInv, CrossedInv, ReplyInv, Running

\* Leaving the bus: what is left to show is about the leaving thread.
LEMMA LeaveKeeps ==
  ASSUME IInv, NEW t \in Threads, pc[t] \in Running, NEW l \in {"done", "failed"},
         pc' = [pc EXCEPT ![t] = l], holder' = None, UNCHANGED call
  PROVE  pc' \in [Threads -> Labels] /\ LockInv' /\ CallInv' /\ ExchangeInv' /\ CrossedInv'
<1>1. pc' \in [Threads -> Labels] /\ \A u \in Threads : pc'[u] \notin Running
  BY AloneOnBus DEF IInv, TypeInv, Labels, Running
<1>2. LockInv' /\ ExchangeInv' /\ CrossedInv'
  BY <1>1, NoneApart DEF LockInv, ExchangeInv, CrossedInv, Running
<1>3. CallInv'
  BY <1>1, AloneOnBus DEF CallInv, IInv, TypeInv, Running
<1> QED  BY <1>1, <1>2, <1>3

\* A write that ends the call.
LEMMA LastWriteKeeps ==
  ASSUME IInv, NEW t \in Threads, BusWrite(t), call[t].op \notin Exchanges
  PROVE  IInv'
<1> DEFINE c == call[t]
<1>1. /\ pc[t] = "writing" /\ UNCHANGED <<call, reply>> /\ holder' = None
      /\ pc' = [pc EXCEPT ![t] = "done"]
      /\ regs' = IF c.value = None THEN regs ELSE [regs EXCEPT ![c.reg] = c.value]
      /\ pointer' \in IF Kind(c) # "NO_STOP" THEN Registers ELSE {c.reg}
      /\ IF NoStopWrite(c)
         THEN selected' = [selected EXCEPT ![t] = c.reg] /\ crossed' = [crossed EXCEPT ![t] = FALSE]
         ELSE UNCHANGED <<selected, crossed>>
  BY DEF BusWrite, To, NoStopWrite
<1>2. /\ c \in Calls /\ Accepts(c) /\ c.reg \in Registers /\ c.value \in Values \cup {None}
      /\ \A u \in Threads \ {t} : crossed[u]
      /\ reply[t] = None /\ c.op \in Writes
  BY <1>1, AloneOnBus, CallTypes DEF Running, IInv, CallInv
<1>3. pc' \in [Threads -> Labels] /\ LockInv' /\ CallInv' /\ ExchangeInv' /\ CrossedInv'
  BY <1>1, LeaveKeeps DEF Running
<1> HIDE DEF c
<1>4. TypeInv'
  BY <1>1, <1>2, <1>3 DEF IInv, TypeInv
<1>5. ReplyInv'
  BY <1>1 DEF IInv, TypeInv, ReplyInv
<1>6. NoStopWrite(c) => pointer' = c.reg
  BY <1>1, <1>2, Kinds
<1>7. PointerInv'
  BY <1>1, <1>2, <1>6 DEF IInv, TypeInv, PointerInv, c
<1>8. PairReadsOwn'
  BY <1>1, <1>2, OpsApart DEF IInv, TypeInv, PairReadsOwn, c
<1> QED  BY <1>3, <1>4, <1>5, <1>7, <1>8 DEF IInv

\* The first half of an exchange: the thread stays on the bus.
LEMMA FirstWriteKeeps ==
  ASSUME IInv, NEW t \in Threads, BusWrite(t), call[t].op \in Exchanges
  PROVE  IInv'
<1>1. call[t] \in Calls /\ ~Raw(call[t]) /\ call[t].reg \in Registers
  BY AloneOnBus, CallTypes DEF BusWrite, Running, Raw, Exchanges
<1>2. /\ pc[t] = "writing" /\ UNCHANGED <<regs, call, reply, holder, selected, crossed>>
      /\ pc' = [pc EXCEPT ![t] = "reading"] /\ pointer' = call[t].reg
  BY <1>1 DEF BusWrite, To
<1>3. \A u \in Threads \ {t} : pc[u] \notin Running /\ crossed[u]
  BY <1>2, AloneOnBus DEF Running
<1>4. TypeInv'
  BY <1>1, <1>2 DEF IInv, TypeInv, Labels, Running
<1>5. LockInv' /\ CallInv' /\ ReplyInv'
  BY <1>2 DEF IInv, TypeInv, LockInv, CallInv, ReplyInv, Running
<1>6. ExchangeInv' /\ CrossedInv'
  BY <1>2, <1>3 DEF IInv, TypeInv, ExchangeInv, CrossedInv, Running
<1>7. PointerInv' /\ PairReadsOwn'
  BY <1>2, <1>3, OpsApart DEF IInv, TypeInv, PointerInv, PairReadsOwn
<1> QED  BY <1>4, <1>5, <1>6, <1>7 DEF IInv

LEMMA BusReadKeeps == ASSUME IInv, NEW t \in Threads, BusRead(t) PROVE IInv'
<1> DEFINE c == call[t]
<1>1. /\ pc[t] = "reading" /\ UNCHANGED <<regs, call, selected, crossed>> /\ holder' = None
      /\ pc' = [pc EXCEPT ![t] = "done"] /\ pointer' \in Registers
  BY DEF BusRead, To
<1>2. PICK r \in IF c.op \in Exchanges \/ Kind(c) = "REPEATED_START" THEN {pointer} ELSE Registers :
        reply' = [reply EXCEPT ![t] = [reg |-> r, value |-> regs[r]]]
  BY DEF BusRead
<1>3. /\ c \in Calls /\ Accepts(c) /\ c.op \in Exchanges \cup Reads
      /\ \A u \in Threads \ {t} : crossed[u]
  BY <1>1, AloneOnBus DEF Running, IInv, CallInv
<1>4. pc' \in [Threads -> Labels] /\ LockInv' /\ CallInv' /\ ExchangeInv' /\ CrossedInv'
  BY <1>1, LeaveKeeps DEF Running
<1> HIDE DEF c
<1>5. TypeInv'
  <2>1. r \in Registers /\ [reg |-> r, value |-> regs[r]] \in [reg : Registers, value : Values]
    BY <1>2 DEF IInv, TypeInv
  <2> QED  BY <1>1, <1>2, <1>4, <2>1 DEF IInv, TypeInv
<1>6. ReplyInv'
  BY <1>1, <1>2 DEF IInv, TypeInv, ReplyInv
<1>7. PointerInv'
  <2>1. ~NoStopWrite(c)
    BY <1>3, Kinds, OpsApart
  <2> QED  BY <1>1, <1>3, <2>1 DEF IInv, TypeInv, PointerInv, c
<1>8. PairReadsOwn'
  <2>1. ASSUME selected[t] # None, ~crossed[t], c.op = "i2cRead", c.transfer = "RepeatedStart"
        PROVE  r = selected[t]
    <3>1. Kind(c) = "REPEATED_START"
      BY <2>1, <1>3, Kinds
    <3>2. pointer = selected[t]
      BY <2>1, <1>1 DEF IInv, PointerInv, c
    <3> QED  BY <1>2, <3>1, <3>2
  <2>2. reply'[t].reg = r
    BY <1>2 DEF IInv, TypeInv
  <2> QED  BY <1>1, <1>3, <2>1, <2>2 DEF IInv, TypeInv, PairReadsOwn, c
<1> QED  BY <1>4, <1>5, <1>6, <1>7, <1>8 DEF IInv

\* A probe or release ends with success or, like any transfer, in failure.
LEMMA StopOrFailureKeeps ==
  ASSUME IInv, NEW t \in Threads, BusStop(t) \/ BusFails(t)
  PROVE  IInv'
<1>1. /\ pc[t] \in Running /\ UNCHANGED <<call, reply, selected, crossed>> /\ holder' = None
      /\ pointer' \in Registers
  BY DEF BusStop, BusFails, Running
<1>2. PICK l \in {"done", "failed"} :
        pc' = [pc EXCEPT ![t] = l] /\ (l = "done" => call[t].op \in Stops)
  BY DEF BusStop, BusFails, To, IInv, CallInv
<1>3. regs' \in [Registers -> Values]
  <2>1. call[t].reg \in Registers /\ call[t].value \in Values \cup {None}
    BY <1>1, AloneOnBus, CallTypes
  <2> QED  BY <2>1 DEF BusStop, BusFails, IInv, TypeInv
<1>4. pc' \in [Threads -> Labels] /\ LockInv' /\ CallInv' /\ ExchangeInv' /\ CrossedInv'
  BY <1>1, <1>2, LeaveKeeps
<1>5. TypeInv'
  BY <1>1, <1>3, <1>4 DEF IInv, TypeInv
<1>6. ReplyInv'
  BY <1>1, <1>2, AloneOnBus DEF IInv, TypeInv, ReplyInv
<1>7. PointerInv' /\ PairReadsOwn'
  <2>1. \A u \in Threads \ {t} : crossed[u]
    BY <1>1, AloneOnBus
  <2>2. call[t].op \in Stops => ~Raw(call[t]) /\ call[t].op # "i2cRead"
    BY DEF Raw, Stops
  <2> QED  BY <1>1, <1>2, <2>1, <2>2 DEF IInv, TypeInv, PointerInv, PairReadsOwn, NoStopWrite
<1> QED  BY <1>4, <1>5, <1>6, <1>7 DEF IInv

LEMMA EventKeeps == ASSUME IInv, Event \/ UNCHANGED vars PROVE IInv'
<1>1. UNCHANGED <<pointer, holder, pc, call, reply, selected, crossed>>
  BY DEF Event, vars
<1>2. TypeInv'
  BY <1>1, StatusIsARegister DEF Event, vars, IInv, TypeInv
<1>3. LockInv' /\ CallInv' /\ ReplyInv' /\ ExchangeInv' /\ CrossedInv'
  BY <1>1 DEF IInv, LockInv, CallInv, ReplyInv, ExchangeInv, CrossedInv, Accepts, Raw
<1>4. PointerInv' /\ PairReadsOwn'
  BY <1>1 DEF IInv, PointerInv, PairReadsOwn, NoStopWrite, Raw
<1> QED  BY <1>2, <1>3, <1>4 DEF IInv

LEMMA NextKeeps == IInv /\ [Next]_vars => IInv'
  BY InvokeKeeps, RefuseKeeps, ReturnKeeps, LockKeeps, LastWriteKeeps, FirstWriteKeeps, BusReadKeeps,
     StopOrFailureKeeps, EventKeeps DEF Next

\* The inductive invariant holds in every reachable state.
THEOREM TransfersInvariant == Spec => []IInv
  BY Initially, NextKeeps, PTL DEF Spec

\* Every variable keeps its type, and the mutex is held exactly by a thread
\* inside a native call.
THEOREM TransfersTypes == Spec => []TypeOK
<1>1. IInv => TypeOK
  BY DEF IInv, TypeInv, LockInv, CallInv, ReplyInv, TypeOK, Labels
<1> QED  BY <1>1, TransfersInvariant, PTL

\* A raw NoStop write and RepeatedStart read return the register they name
\* unless another thread came between the two calls.
THEOREM UncrossedPairs == Spec => []PairReadsOwn
  BY TransfersInvariant, PTL DEF IInv

-----------------------------------------------------------------------------
(* I2cTransfers implements PartialUpdates: of the steps of a call, the one *)
(* that gives the mutex back is the update (or its failure), and the steps *)
(* before it are invisible.  Each action is examined in a state that       *)
(* satisfies the inductive invariant.                                      *)

\* The abstract variables, as RegistersAtomic maps them.
AskedBy  == [t \in Threads |-> IF call[t] = None THEN None ELSE Update(call[t])]
AnswerTo == [t \in Threads |-> IF pc[t] \in Running \cup {"begun"} THEN "pending" ELSE pc[t]]
ReplyTo  == [t \in Threads |-> IF pc[t] # "done" THEN None
                               ELSE [r \in Update(call[t]).reads |-> reply[t].value]]

\* What a thread's call looks like from outside.
LEMMA Seen ==
  ASSUME IInv, NEW t \in Threads, pc[t] # "idle"
  PROVE  AskedBy[t] = Update(call[t]) /\ call[t] \in Calls
  BY DEF AskedBy, IInv, TypeInv, CallInv

\* A step inside a call changes the answer and the reply of its thread only.
LEMMA Moves ==
  ASSUME IInv, NEW t \in Threads, NEW l, pc' = [pc EXCEPT ![t] = l], UNCHANGED call,
         \A u \in Threads \ {t} : reply'[u] = reply[u]
  PROVE  /\ AskedBy' = AskedBy
         /\ AnswerTo' = [AnswerTo EXCEPT ![t] = IF l \in Running \cup {"begun"} THEN "pending" ELSE l]
         /\ ReplyTo' = [ReplyTo EXCEPT ![t] = IF l # "done" THEN None
                                              ELSE [r \in Update(call[t]).reads |-> reply'[t].value]]
<1>1. /\ pc'[t] = l /\ call' = call
      /\ \A u \in Threads \ {t} : pc'[u] = pc[u] /\ reply'[u] = reply[u]
  BY DEF IInv, TypeInv
<1>2. AskedBy' = AskedBy
  BY <1>1 DEF AskedBy
<1>3. AnswerTo' = [AnswerTo EXCEPT ![t] = IF l \in Running \cup {"begun"} THEN "pending" ELSE l]
  BY <1>1 DEF AnswerTo
<1>4. \A u \in Threads : Update(call[u])' = Update(call[u])
  BY <1>1 DEF Update, Raw
<1>5. ReplyTo' = [ReplyTo EXCEPT ![t] = IF l # "done" THEN None
                                        ELSE [r \in Update(call[t]).reads |-> reply'[t].value]]
  BY <1>1, <1>4 DEF ReplyTo
<1> QED  BY <1>2, <1>3, <1>5

-----------------------------------------------------------------------------
(* One lemma per action *)

LEMMA InitMaps == Init => Abstract!Init
  BY DEF Init, Abstract!Init, Running

LEMMA InvokeMaps ==
  ASSUME IInv, NEW t \in Threads, NEW c \in Calls, Invoke(t, c)
  PROVE  Abstract!Ask(t, Update(c))
<1>1. /\ UNCHANGED <<regs, reply>> /\ pc[t] = "idle" /\ pc' = [pc EXCEPT ![t] = "begun"]
      /\ call' = [call EXCEPT ![t] = c] /\ c # None
  BY NoneApart DEF Invoke, To
<1>2. AnswerTo[t] = "idle"
  BY <1>1 DEF AnswerTo, Running
<1>3. AnswerTo' = [AnswerTo EXCEPT ![t] = "pending"]
  BY <1>1 DEF AnswerTo, Running, IInv, TypeInv
<1>4. AskedBy' = [AskedBy EXCEPT ![t] = Update(c)]
  BY <1>1 DEF AskedBy, IInv, TypeInv
<1>5. \A u \in Threads : pc'[u] = "done" <=> pc[u] = "done"
  BY <1>1 DEF IInv, TypeInv
<1>6. \A u \in Threads : pc[u] = "done" => call'[u] = call[u]
  BY <1>1 DEF IInv, TypeInv
<1>7. ReplyTo' = ReplyTo
  BY <1>1, <1>5, <1>6 DEF ReplyTo
<1> QED  BY <1>1, <1>2, <1>3, <1>4, <1>7 DEF Abstract!Ask, AskedBy, AnswerTo, ReplyTo

LEMMA RefuseMaps ==
  ASSUME IInv, NEW t \in Threads, Refuse(t)
  PROVE  Abstract!Refuse(t)
<1>1. /\ UNCHANGED <<regs, call, reply>> /\ pc[t] = "begun" /\ ~Accepts(call[t])
      /\ pc' = [pc EXCEPT ![t] = "refused"]
  BY DEF Refuse, To
<1>2. ~AskedBy[t].legal /\ AnswerTo[t] = "pending"
  BY <1>1, Seen, Kinds DEF AnswerTo
<1>3. /\ AskedBy' = AskedBy
      /\ AnswerTo' = [AnswerTo EXCEPT ![t] = "refused"] /\ ReplyTo' = [ReplyTo EXCEPT ![t] = None]
  BY <1>1, Moves DEF Running
<1>4. ReplyTo[t] = None
  BY <1>1 DEF ReplyTo
<1>5. ReplyTo' = ReplyTo
  BY <1>3, <1>4 DEF ReplyTo
<1> QED  BY <1>1, <1>2, <1>3, <1>5 DEF Abstract!Refuse, AskedBy, AnswerTo, ReplyTo

\* Entering the mutex, and the first half of an exchange, show nothing.
LEMMA InsideMaps ==
  ASSUME IInv, NEW t \in Threads, Lock(t) \/ (BusWrite(t) /\ call[t].op \in Exchanges)
  PROVE  UNCHANGED Abstract!vars
<1>1. /\ UNCHANGED <<regs, call, reply>> /\ pc[t] \in Running \cup {"begun"}
      /\ \E l \in Running : pc' = [pc EXCEPT ![t] = l]
  <2>1. CASE Lock(t)
    <3>1. call[t].op \in Exchanges \cup Writes \/ call[t].op \notin Exchanges \cup Writes
      OBVIOUS
    <3>2. CASE call[t].op \in Exchanges \cup Writes
      BY <2>1, <3>2, OpsApart DEF Lock, Enter, To, Running
    <3>3. CASE call[t].op \in Reads
      BY <2>1, <3>3, OpsApart DEF Lock, Enter, To, Running
    <3>4. CASE call[t].op \in Stops
      BY <2>1, <3>4, OpsApart DEF Lock, Enter, To, Running
    <3> QED  BY <2>1, <3>2, <3>3, <3>4, CallTypes, Seen DEF Lock, Enter
  <2>2. CASE BusWrite(t) /\ call[t].op \in Exchanges
    BY <2>2 DEF BusWrite, To, Running, Raw, Exchanges
  <2> QED  BY <2>1, <2>2
<1>2. PICK l \in Running : pc' = [pc EXCEPT ![t] = l]
  BY <1>1
<1>3. /\ AskedBy' = AskedBy
      /\ AnswerTo' = [AnswerTo EXCEPT ![t] = "pending"] /\ ReplyTo' = [ReplyTo EXCEPT ![t] = None]
  BY <1>1, <1>2, Moves DEF Running
<1>4. AnswerTo[t] = "pending" /\ ReplyTo[t] = None
  BY <1>1 DEF AnswerTo, ReplyTo, Running
<1>5. AnswerTo' = AnswerTo /\ ReplyTo' = ReplyTo
  BY <1>3, <1>4 DEF AnswerTo, ReplyTo
<1> QED  BY <1>1, <1>3, <1>5 DEF Abstract!vars, AskedBy, AnswerTo, ReplyTo

\* A call on the bus is pending and legal.
LEMMA OnBus ==
  ASSUME IInv, NEW t \in Threads, pc[t] \in Running
  PROVE  /\ AskedBy[t] = Update(call[t]) /\ AskedBy[t].legal /\ AnswerTo[t] = "pending"
         /\ DOMAIN regs = Registers /\ call[t].reg \in Registers
         /\ ReplyTo[t] = None
<1>1. call[t] \in Calls /\ Accepts(call[t])
  BY AloneOnBus
<1>2. AskedBy[t] = Update(call[t]) /\ AskedBy[t].legal
  BY <1>1, Seen, Kinds DEF Running
<1> QED  BY <1>1, <1>2, CallTypes DEF AnswerTo, ReplyTo, Running, IInv, TypeInv

\* The settings a call changes once all of it, or none of it, is done.
LEMMA WholeUpdate ==
  ASSUME NEW c \in Calls, DOMAIN regs = Registers, regs \in [Registers -> Values]
  PROVE  /\ (c.op \in Writes /\ c.value # None)
              => Abstract!Override(regs, Update(c).sets, DOMAIN Update(c).sets)
                   = [regs EXCEPT ![c.reg] = c.value]
         /\ ~(c.op \in Writes /\ c.value # None)
              => Abstract!Override(regs, Update(c).sets, DOMAIN Update(c).sets) = regs
         /\ Abstract!Override(regs, Update(c).sets, {}) = regs
<1>1. CASE c.op \in Writes /\ c.value # None
  <2>1. Update(c).sets = [r \in {c.reg} |-> c.value]
    BY <1>1 DEF Update
  <2> QED  BY <1>1, <2>1 DEF Abstract!Override
<1>2. CASE ~(c.op \in Writes /\ c.value # None)
  <2>1. Update(c).sets = [r \in {} |-> 0]
    BY <1>2 DEF Update
  <2> QED  BY <1>2, <2>1 DEF Abstract!Override
<1> QED  BY <1>1, <1>2

\* The step that ends a call on the bus and succeeds.
LEMMA LastMaps ==
  ASSUME IInv, NEW t \in Threads, pc[t] \in Running,
         pc' = [pc EXCEPT ![t] = "done"], UNCHANGED call,
         \A u \in Threads \ {t} : reply'[u] = reply[u],
         regs' = Abstract!Override(regs, Update(call[t]).sets, DOMAIN Update(call[t]).sets),
         \A r \in Update(call[t]).reads : reply'[t].value = regs'[r]
  PROVE  Abstract!Apply(t)
<1>1. /\ AskedBy' = AskedBy /\ AnswerTo' = [AnswerTo EXCEPT ![t] = "done"]
      /\ ReplyTo' = [ReplyTo EXCEPT ![t] = [r \in Update(call[t]).reads |-> reply'[t].value]]
  BY Moves DEF Running
<1>2. [r \in Update(call[t]).reads |-> reply'[t].value] = [r \in AskedBy[t].reads |-> regs'[r]]
  BY OnBus
<1>3. ReplyTo' = [ReplyTo EXCEPT ![t] = [r \in AskedBy[t].reads |-> regs'[r]]]
  BY <1>1, <1>2
<1>4. /\ AnswerTo[t] = "pending" /\ AskedBy[t].legal
      /\ regs' = Abstract!Override(regs, AskedBy[t].sets, DOMAIN AskedBy[t].sets)
  BY OnBus
<1> QED  BY <1>1, <1>3, <1>4 DEF Abstract!Apply, AskedBy, AnswerTo, ReplyTo

LEMMA LastWriteMaps ==
  ASSUME IInv, NEW t \in Threads, BusWrite(t), call[t].op \notin Exchanges
  PROVE  Abstract!Apply(t)
<1> DEFINE c == call[t]
<1>1. /\ pc[t] = "writing" /\ UNCHANGED <<call, reply>> /\ pc' = [pc EXCEPT ![t] = "done"]
      /\ regs' = IF c.value = None THEN regs ELSE [regs EXCEPT ![c.reg] = c.value]
  BY DEF BusWrite, To
<1>2. pc[t] \in Running /\ c \in Calls /\ c.op \in Writes
  BY <1>1, AloneOnBus DEF Running, IInv, CallInv
<1>3. regs' = Abstract!Override(regs, Update(c).sets, DOMAIN Update(c).sets)
  BY <1>1, <1>2, WholeUpdate DEF IInv, TypeInv
<1>4. Update(c).reads = {}
  BY <1>2, OpsApart DEF Update
<1> QED  BY <1>1, <1>2, <1>3, <1>4, LastMaps

LEMMA BusReadMaps ==
  ASSUME IInv, NEW t \in Threads, BusRead(t)
  PROVE  Abstract!Apply(t)
<1> DEFINE c == call[t]
<1>1. /\ pc[t] = "reading" /\ UNCHANGED <<regs, call>> /\ pc' = [pc EXCEPT ![t] = "done"]
  BY DEF BusRead, To
<1>2. PICK r \in IF c.op \in Exchanges \/ Kind(c) = "REPEATED_START" THEN {pointer} ELSE Registers :
        reply' = [reply EXCEPT ![t] = [reg |-> r, value |-> regs[r]]]
  BY DEF BusRead
<1>3. pc[t] \in Running /\ c \in Calls /\ c.op \in Exchanges \cup Reads
  BY <1>1, AloneOnBus DEF Running, IInv, CallInv
<1>4. regs' = Abstract!Override(regs, Update(c).sets, DOMAIN Update(c).sets)
  BY <1>1, <1>3, WholeUpdate, OpsApart DEF IInv, TypeInv
<1>5. /\ \A u \in Threads \ {t} : reply'[u] = reply[u]
      /\ reply'[t].value = regs[r]
  BY <1>2 DEF IInv, TypeInv
<1>6. ASSUME NEW n \in Update(c).reads PROVE reply'[t].value = regs'[n]
  <2>1. c.op \in Exchanges /\ n = c.reg
    BY DEF Update
  <2>2. r = c.reg
    BY <1>1, <1>2, <2>1 DEF IInv, ExchangeInv
  <2> QED  BY <1>1, <1>5, <2>1, <2>2
<1> QED  BY <1>1, <1>3, <1>4, <1>5, <1>6, LastMaps

LEMMA BusStopMaps ==
  ASSUME IInv, NEW t \in Threads, BusStop(t)
  PROVE  Abstract!Apply(t)
<1> DEFINE c == call[t]
<1>1. /\ pc[t] = "stopping" /\ UNCHANGED <<regs, call, reply>> /\ pc' = [pc EXCEPT ![t] = "done"]
  BY DEF BusStop, To
<1>2. pc[t] \in Running /\ c \in Calls /\ c.op \in Stops
  BY <1>1, AloneOnBus DEF Running, IInv, CallInv
<1>3. regs' = Abstract!Override(regs, Update(c).sets, DOMAIN Update(c).sets)
  BY <1>1, <1>2, WholeUpdate, OpsApart DEF IInv, TypeInv
<1>4. Update(c).reads = {}
  BY <1>2, OpsApart DEF Update
<1> QED  BY <1>1, <1>2, <1>3, <1>4, LastMaps

LEMMA BusFailsMaps ==
  ASSUME IInv, NEW t \in Threads, BusFails(t)
  PROVE  Abstract!Fail(t)
<1> DEFINE c == call[t]
<1>1. /\ pc[t] \in Running /\ UNCHANGED <<call, reply>> /\ pc' = [pc EXCEPT ![t] = "failed"]
      /\ \/ UNCHANGED regs
         \/ /\ pc[t] = "writing" /\ c.op \notin Exchanges /\ c.value # None
            /\ regs' = [regs EXCEPT ![c.reg] = c.value]
  BY DEF BusFails, To, Running
<1>2. c \in Calls /\ (pc[t] = "writing" => c.op \in Exchanges \cup Writes)
  BY <1>1, AloneOnBus DEF IInv, CallInv
<1>3. PICK S \in SUBSET DOMAIN Update(c).sets : regs' = Abstract!Override(regs, Update(c).sets, S)
  <2>1. CASE UNCHANGED regs
    <3>1. regs' = Abstract!Override(regs, Update(c).sets, {})
      BY <1>2, <2>1, WholeUpdate DEF IInv, TypeInv
    <3> QED  BY <3>1
  <2>2. CASE ~UNCHANGED regs
    <3>1. regs' = Abstract!Override(regs, Update(c).sets, DOMAIN Update(c).sets)
      BY <1>1, <1>2, <2>2, WholeUpdate DEF IInv, TypeInv
    <3> QED  BY <3>1
  <2> QED  BY <2>1, <2>2
<1>4. /\ AskedBy' = AskedBy
      /\ AnswerTo' = [AnswerTo EXCEPT ![t] = "failed"] /\ ReplyTo' = [ReplyTo EXCEPT ![t] = None]
  BY <1>1, Moves DEF Running
<1>5. /\ AskedBy[t] = Update(c) /\ AskedBy[t].legal /\ AnswerTo[t] = "pending" /\ ReplyTo[t] = None
  BY <1>1, OnBus
<1>6. ReplyTo' = ReplyTo
  BY <1>4, <1>5 DEF ReplyTo
<1>7. \E R \in SUBSET DOMAIN AskedBy[t].sets : regs' = Abstract!Override(regs, AskedBy[t].sets, R)
  BY <1>3, <1>5
<1> QED  BY <1>4, <1>5, <1>6, <1>7 DEF Abstract!Fail, AskedBy, AnswerTo, ReplyTo

LEMMA ReturnMaps ==
  ASSUME IInv, NEW t \in Threads, Return(t)
  PROVE  Abstract!Return(t)
<1>1. /\ UNCHANGED regs /\ pc[t] \in {"done", "refused", "failed"} /\ pc' = [pc EXCEPT ![t] = "idle"]
      /\ call' = [call EXCEPT ![t] = None] /\ reply' = [reply EXCEPT ![t] = None]
  BY DEF Return, To
<1>2. AnswerTo[t] \in {"done", "refused", "failed"}
  BY <1>1 DEF AnswerTo, Running
<1>3. AnswerTo' = [AnswerTo EXCEPT ![t] = "idle"]
  BY <1>1 DEF AnswerTo, Running, IInv, TypeInv
<1>4. AskedBy' = [AskedBy EXCEPT ![t] = None]
  BY <1>1 DEF AskedBy, IInv, TypeInv
<1>5. /\ pc'[t] = "idle"
      /\ \A u \in Threads \ {t} : pc'[u] = pc[u] /\ reply'[u] = reply[u] /\ call'[u] = call[u]
  BY <1>1 DEF IInv, TypeInv
<1>6. ReplyTo' = [ReplyTo EXCEPT ![t] = None]
  BY <1>5 DEF ReplyTo
<1> QED  BY <1>1, <1>2, <1>3, <1>4, <1>6 DEF Abstract!Return, AskedBy, AnswerTo, ReplyTo

LEMMA EventMaps == ASSUME Event PROVE Abstract!Latch
<1>1. UNCHANGED <<pc, call, reply>> /\ regs' = [regs EXCEPT ![Status] = 1]
  BY DEF Event
<1>2. AskedBy' = AskedBy /\ AnswerTo' = AnswerTo /\ ReplyTo' = ReplyTo
  BY <1>1 DEF AskedBy, AnswerTo, ReplyTo
<1> QED  BY <1>1, <1>2 DEF Abstract!Latch, AskedBy, AnswerTo, ReplyTo

LEMMA StutterMaps == ASSUME UNCHANGED vars PROVE UNCHANGED Abstract!vars
  BY DEF vars, Abstract!vars

-----------------------------------------------------------------------------

LEMMA StepMaps == IInv /\ [Next]_vars => [Abstract!Next]_(Abstract!vars)
<1> SUFFICES ASSUME IInv, [Next]_vars PROVE Abstract!Next \/ UNCHANGED Abstract!vars
  OBVIOUS
<1>1. ASSUME NEW t \in Threads, NEW c \in Calls, Invoke(t, c) PROVE Abstract!Next
  <2>1. Update(c) \in {Update(d) : d \in Calls}
    OBVIOUS
  <2> QED  BY <1>1, <2>1, InvokeMaps DEF Abstract!Next
<1>2. ASSUME NEW t \in Threads,
             Refuse(t) \/ BusRead(t) \/ BusStop(t) \/ BusFails(t) \/ Return(t)
      PROVE  Abstract!Next
  BY <1>2, RefuseMaps, BusReadMaps, BusStopMaps, BusFailsMaps, ReturnMaps DEF Abstract!Next
<1>3. ASSUME NEW t \in Threads, Lock(t) PROVE UNCHANGED Abstract!vars
  BY <1>3, InsideMaps
<1>4. ASSUME NEW t \in Threads, BusWrite(t) PROVE Abstract!Next \/ UNCHANGED Abstract!vars
  BY <1>4, InsideMaps, LastWriteMaps DEF Abstract!Next
<1>5. CASE Event
  BY <1>5, EventMaps DEF Abstract!Next
<1>6. CASE UNCHANGED vars
  BY <1>6, StutterMaps
<1> QED  BY <1>1, <1>2, <1>3, <1>4, <1>5, <1>6 DEF Next

\* Whatever adapters and raw transfers do on one target, for any number of
\* threads and registers, is a series of atomic register reads and writes.
THEOREM TransfersAtomic == Spec => RegistersAtomic
  BY InitMaps, StepMaps, TransfersInvariant, PTL DEF Spec, RegistersAtomic, Abstract!Spec
=============================================================================
