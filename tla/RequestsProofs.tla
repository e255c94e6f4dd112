--------------------------- MODULE RequestsProofs ---------------------------
(***************************************************************************)
(* Proofs about Requests, for every call the C++ API can be given, every   *)
(* answer of the C library and every width of size_t and int: IInv is      *)
(* inductive and implies the three properties the run checks.              *)
(***************************************************************************)
EXTENDS Requests, TLAPS

\* What holds of a request once its conversion kept it.
Kept(r, a) == a.size = r.size /\ a.size \in Nat

IInv ==
  /\ at \in {"idle", "asked", "checking", "native", "released", "over"}
  /\ at # "idle" => req \in Requests
  /\ at \in {"checking", "native", "released"} => Kept(req, arg)
  /\ at \in {"native", "released"} => Accepts(req, arg)
  /\ at # "over" => sent = None /\ cause = "OK" /\ outcome = Value
  /\ NothingTruncated /\ RefusedUntouched /\ FailuresTold

\* A number within the range of the type it is cast to stays what it is.
LEMMA CastKeeps ==
  ASSUME NEW n \in Nat, NEW m \in Nat, n <= m
  PROVE  n % (1 + m) = n
  OBVIOUS

\* A size or an address that passed the checks fits its protocol field.
LEMMA FitsWire ==
  ASSUME NEW r \in Requests, NEW a, Kept(r, a), Accepts(r, a)
  PROVE  /\ r.op \in Addressed => AddressByte(r.address) = 2 * r.address
         /\ r.op \in Sized \cup {"setInterval"} => OnWire(r.op, a.size) = r.size
<1>1. r.op \in Addressed => AddressByte(r.address) = 2 * r.address
  BY RequestTypes DEF Accepts, AddressByte, MaxI2cAddress
<1>2. r.op \in Sized => a.size <= MaxSize(r.op)
  BY DEF Accepts
<1>3. r.op \in Sized \cup {"setInterval"} => OnWire(r.op, a.size) = r.size
  BY <1>2 DEF OnWire, MaxSize, Sized, I2cOps, SmbusOps, MaxBlockSize, PacketSize, Kept
<1> QED BY <1>1, <1>3

\* The table of error codes names each C error by a code of its own.
LEMMA CodesApart ==
  ASSUME NEW m \in NativeErrors, NEW n \in NativeErrors, m # n,
         checkError(m).code = checkError(n).code
  PROVE  checkError(n).code = "Generic"
  BY DEF checkError, Thrown, NativeErrors, toErrorCode

LEMMA InitHolds == Init => IInv
  BY DEF Init, IInv, NothingTruncated, RefusedUntouched, FailuresTold, Value, throwInvalid, Thrown

\* The steps before the native call send nothing.
LEMMA ConvertKeeps == ASSUME IInv, Convert PROVE IInv'
<1>1. req \in Requests /\ arg' = Converted(req)
  BY DEF IInv, Convert
<1>2. Converted(req).size = req.size /\ req.size \in Nat
  <2>1. CASE req.op = "setInterval"
    BY <1>1, <2>1, RequestTypes, CastKeeps DEF Convert, Converted
  <2>2. CASE req.op # "setInterval"
    BY <1>1, <2>2, RequestTypes, CastKeeps DEF Convert, Converted
  <2> QED  BY <2>1, <2>2
<1>3. Kept(req, arg)'
  BY <1>1, <1>2 DEF Convert, Kept
<1> QED
  BY <1>1, <1>3 DEF Convert, IInv, NothingTruncated, RefusedUntouched, FailuresTold

LEMMA RefusalsKeep == ASSUME IInv, QtRefuses \/ Refuse PROVE IInv'
  BY DEF QtRefuses, Refuse, End, IInv, NothingTruncated, RefusedUntouched, FailuresTold,
         Value, throwInvalid, Thrown

\* What a native call sends is what was asked.
LEMMA SendFits ==
  ASSUME IInv, at \in {"native", "released"}, Send, UNCHANGED <<req, arg>>
  PROVE  NothingTruncated'
<1>1. req \in Requests /\ Kept(req, arg) /\ Accepts(req, arg)
  BY DEF IInv
<1> QED  BY <1>1, FitsWire DEF Send, NothingTruncated

LEMMA NativeOkKeeps == ASSUME IInv, NEW n \in Answers, NativeOk(n) PROVE IInv'
<1>1. NothingTruncated'
  BY SendFits DEF NativeOk
<1>2. RefusedUntouched'
  BY DEF NativeOk, End, Answer, RefusedUntouched, IInv, throwInvalid, checkError, Value, Thrown,
         toErrorCode
<1>3. FailuresTold'
  BY DEF NativeOk, FailuresTold, IInv
<1> QED  BY <1>1, <1>2, <1>3 DEF NativeOk, End, IInv

LEMMA NativeFailsKeeps == ASSUME IInv, NEW n \in NativeErrors, NativeFails(n) PROVE IInv'
<1>1. NothingTruncated'
  <2>1. CASE Send
    BY <2>1, SendFits DEF NativeFails
  <2>2. CASE UNCHANGED sent
    BY <2>2 DEF NativeFails, IInv, NothingTruncated
  <2> QED  BY <2>1, <2>2 DEF NativeFails
<1>2. cause' = n /\ outcome' = checkError(n)
  BY DEF NativeFails, End
<1>3. n # "OK" => RefusedUntouched'
  BY <1>2 DEF RefusedUntouched, checkError, Thrown, throwInvalid
<1>4. FailuresTold'
  <2>1. outcome'.class = "Error" /\ outcome'.native = cause'
    BY <1>2 DEF checkError, Thrown
  <2>2. \A m \in NativeErrors \ {n} : checkError(m).code = checkError(n).code
                                     => checkError(n).code = "Generic"
    BY CodesApart
  <2> QED  BY <1>2, <2>1, <2>2 DEF FailuresTold
<1> QED  BY <1>1, <1>2, <1>3, <1>4, RequestTypes DEF NativeFails, End, IInv, NativeErrors, toErrorCode

LEMMA NextKeeps == ASSUME IInv, [Next]_vars PROVE IInv'
<1>1. CASE \E r \in Requests : Ask(r)
  BY <1>1 DEF Ask, IInv, NothingTruncated, RefusedUntouched, FailuresTold
<1>2. CASE QtRefuses \/ Refuse
  BY <1>2, RefusalsKeep
<1>3. CASE Convert
  BY <1>3, ConvertKeeps
<1>4. CASE Pass \/ Released
  BY <1>4 DEF Pass, Released, IInv, NothingTruncated, RefusedUntouched, FailuresTold
<1>5. CASE Return
  BY <1>5 DEF Return, IInv, NothingTruncated, RefusedUntouched, FailuresTold, Value, throwInvalid, Thrown
<1>6. CASE \E n \in Answers : NativeOk(n)
  BY <1>6, NativeOkKeeps
<1>7. CASE \E n \in NativeErrors : NativeFails(n)
  BY <1>7, NativeFailsKeeps
<1>8. CASE UNCHANGED vars
  BY <1>8 DEF vars, IInv, NothingTruncated, RefusedUntouched, FailuresTold
<1> QED
  BY <1>1, <1>2, <1>3, <1>4, <1>5, <1>6, <1>7, <1>8 DEF Next

\* The inductive invariant holds in every state the API can be in.
THEOREM RequestsInvariant == Spec => []IInv
  BY InitHolds, NextKeeps, PTL DEF Spec

\* No size, address or period that passes the checks is cut on its way to
\* the chip, whatever the caller passes and however wide size_t and int are.
THEOREM NoTruncation == Spec => []NothingTruncated
  BY RequestsInvariant, PTL DEF IInv

\* A refusal for bad arguments means the chip was left alone, except after
\* an SMBus block of a bad length.
THEOREM RefusalsUntouched == Spec => []RefusedUntouched
  BY RequestsInvariant, PTL DEF IInv

\* Every failure in the C library that the code checks reaches the caller
\* with its own code.
THEOREM FailuresIdentified == Spec => []FailuresTold
  BY RequestsInvariant, PTL DEF IInv
=============================================================================
