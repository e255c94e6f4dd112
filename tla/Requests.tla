------------------------------ MODULE Requests ------------------------------
(***************************************************************************)
(* One call of the C++ API on its way to the chip and back: the checks of  *)
(* its arguments (and the Qt wrapper's conversions before them), the       *)
(* fields of the USB protocol its arguments must fit, the answer, and the  *)
(* exception that tells of a failure.  A request is a record of everything *)
(* any method takes; a method looks at the fields that are its own.        *)
(***************************************************************************)
EXTENDS Integers

CONSTANTS
  Requests,  \* the calls the program makes
  Answers,   \* lengths and values the C library may return
  Unknown,   \* a C error code the C++ code does not know
  SizeMax,   \* the largest size_t
  IntMax,    \* the largest int
  None

\* Addresses are bytes; a direct call passes a size_t, Qt a signed count.
ASSUME RequestTypes ==
  /\ SizeMax \in Nat /\ IntMax \in Nat /\ None \notin Requests /\ Unknown # "OK"
  /\ \A r \in Requests :
       /\ r.qt \in BOOLEAN /\ r.address \in 0..255 /\ r.size \in Int /\ r.size <= SizeMax
       /\ ~r.qt => r.size >= 0
       /\ r.op = "setInterval" => r.qt

VARIABLES
  at,        \* "idle", "asked", "checking", "native", "released" or "over"
  req,       \* the request
  arg,       \* its size and data pointer as the core method gets them
  sent,      \* what reached the chip
  cause,     \* the C error code, when a native call that is checked failed
  outcome    \* "value", or the exception: its class, code and native code

vars == <<at, req, arg, sent, cause, outcome>>

-----------------------------------------------------------------------------
(* The methods, by the arguments they take *)

I2cOps   == {"i2cWrite", "i2cRead", "read", "write", "readRegister", "writeRegister"}
SmbusOps == {"readBlockData", "writeBlockData", "blockProcessCall",
             "readI2cBlockData", "writeI2cBlockData"}
Addressed == {"i2cWrite", "i2cRead", "i2cDevice", "smbusDevice"}
Clocked   == {"Device", "i2cDevice"}
Layouts   == {"i2cDevice", "readRegister", "writeRegister"}
Sections  == {"readFlash", "writeFlash"}
Pointed   == {"i2cWrite", "write", "rawCommand"}
Answered  == {"readBlockData", "blockProcessCall"}
Sized     == I2cOps \cup {"writeBlockData", "blockProcessCall", "readI2cBlockData",
                          "writeI2cBlockData", "writeFlash", "rawCommand"}

MaxI2cAddress == 127
MaxI2cSpeedHz == 400000
MaxBlockSize  == 255
PacketSize    == 64

\* Mutant: the bound of the slave helpers is forgotten for raw transfers.
MaxSizeLoose(op) ==
  CASE op \in {"i2cWrite", "i2cRead"} -> 65536
    [] op \in I2cOps         -> 256
    [] op = "writeFlash"     -> 62
    [] op = "rawCommand"     -> PacketSize
    [] OTHER                 -> MaxBlockSize

MaxSize(op) ==
  CASE op \in {"i2cWrite", "i2cRead"} -> 65535
    [] op \in I2cOps         -> 256
    [] op = "writeFlash"     -> 62
    [] op = "rawCommand"     -> PacketSize
    [] OTHER                 -> MaxBlockSize
MayBeEmpty(op) == op \in {"writeRegister", "writeBlockData", "blockProcessCall", "writeI2cBlockData"}

toNativeRegisterWidth == [Bits8 |-> 1, Bits16 |-> 2, Bits24 |-> 3, Bits32 |-> 4]
toNativeByteOrder     == [BigEndian |-> "BIG", LittleEndian |-> "LITTLE"]
toNativeFlashSection  ==
  [ChipSettings |-> "CHIP_SETTINGS", GpSettings |-> "GP_SETTINGS",
   UsbManufacturer |-> "USB_MANUFACTURER", UsbProduct |-> "USB_PRODUCT",
   UsbSerial |-> "USB_SERIALNUM", ChipSerial |-> "CHIP_SERIALNUM"]

\* What a method refuses with throwInvalid, before its native call.  The
\* kinds of raw transfer are checked in I2cTransfers, DAC codes and the
\* enumerators of a configuration in SramSettings, the USB current in
\* FlashStaging.
Accepts(r, a) ==
  /\ r.op \in Addressed => r.address <= MaxI2cAddress
  /\ r.op \in Clocked   => r.speed \in 1..MaxI2cSpeedHz
  /\ r.op \in Layouts   => /\ r.width \in DOMAIN toNativeRegisterWidth
                           /\ r.order \in DOMAIN toNativeByteOrder
  /\ r.op \in Sections  => r.section \in DOMAIN toNativeFlashSection
  /\ r.op \in Pointed   => ~a.null
  /\ r.op = "writeRegister" /\ a.null => a.size = 0
  /\ r.op \in Sized     => a.size <= MaxSize(r.op) /\ (a.size = 0 => MayBeEmpty(r.op))

\* The field of the protocol an argument travels in: I2C lengths have two
\* bytes, SMBus block lengths one, other payloads the room in a packet.
OnWire(op, n) ==
  CASE op \in I2cOps       -> n % 65536
    [] op \in SmbusOps     -> n % 256
    [] op = "writeFlash"   -> IF n < 62 THEN n ELSE 62
    [] op = "rawCommand"   -> IF n < 64 THEN n ELSE 64
    [] OTHER               -> n

\* The address travels with a read/write bit.
AddressByte(address) == (2 * address) % 256

-----------------------------------------------------------------------------
(* Errors *)

toErrorCode ==
  [USB |-> "Usb", TIMEOUT |-> "Timeout", NOT_ACK |-> "NotAcknowledged", LOW_SCL |-> "LowScl",
   LOW_SDA |-> "LowSda", INVALID |-> "Invalid", I2C |-> "I2c", FLASH_WRITE |-> "FlashWrite",
   FLASH_PASSWD |-> "FlashPassword", GPIO_MODE |-> "GpioMode", I2C_SHORT_READ |-> "I2cShortRead",
   FLASH_READ |-> "FlashRead", NOT_FOUND |-> "NotFound", NO_MEMORY |-> "NoMemory",
   ACCESS |-> "Access", BUSY |-> "Busy", USB_INIT |-> "UsbInit", USB_ENUM |-> "UsbEnumeration",
   USB_OPEN |-> "UsbOpen", USB_CLAIM |-> "UsbClaim", COMMAND_FAILED |-> "CommandFailed",
   PROTOCOL |-> "Protocol"]
NativeErrors == DOMAIN toErrorCode \cup {"GENERIC", Unknown}

Value == [class |-> "value", code |-> "none", native |-> "OK"]
Thrown(class, code, native) == [class |-> class, code |-> code, native |-> native]

\* Mutant: every error of the C library is passed on as the one the wrapper
\* makes for bad arguments.
checkErrorFlat(n) == Thrown("Error", "Invalid", n)

\* checkError: the code by the table, GENERIC and unknown codes as Generic.
checkError(n) ==
  Thrown("Error", IF n \in DOMAIN toErrorCode THEN toErrorCode[n] ELSE "Generic", n)
throwInvalid == Thrown("Error", "Invalid", "INVALID")

-----------------------------------------------------------------------------

Ask(r) ==
  /\ at = "idle"
  /\ at' = "asked"
  /\ req' = r
  /\ UNCHANGED <<arg, sent, cause, outcome>>

End(o) == at' = "over" /\ outcome' = o

\* The Qt wrappers refuse a negative count and setInterval a period that is
\* no positive int, with an exception of their own.
QtRefuses ==
  /\ at = "asked" /\ req.qt
  /\ req.size < 0 \/ (req.op = "setInterval" /\ (req.size = 0 \/ req.size > IntMax))
  /\ End(Thrown("invalid_argument", "none", "OK"))
  /\ UNCHANGED <<req, arg, sent, cause>>

Converted(r) ==
  [size |-> r.size % (1 + IF r.op = "setInterval" THEN IntMax ELSE SizeMax),
   null |-> IF r.qt THEN r.size = 0 /\ r.op \in I2cOps ELSE r.null]

\* Otherwise a count becomes a size_t, and an empty QByteArray a null pointer
\* for I2cDevice but an empty vector for SmbusDevice, which has a dummy byte
\* for it; a direct call passes what it has.
Convert ==
  /\ at = "asked"
  /\ req.qt => req.size >= 0 /\ (req.op = "setInterval" => req.size \in 1..IntMax)
  /\ arg' = Converted(req)
  /\ at' = "checking"
  /\ UNCHANGED <<req, sent, cause, outcome>>

\* Mutant: the arguments are checked after the native call.
RefuseLate ==
  /\ at = "checking" /\ ~Accepts(req, arg)
  /\ sent' = [address |-> AddressByte(req.address), size |-> OnWire(req.op, arg.size)]
  /\ End(throwInvalid)
  /\ UNCHANGED <<req, arg, cause>>

Refuse ==
  /\ at = "checking" /\ ~Accepts(req, arg)
  /\ End(throwInvalid)
  /\ UNCHANGED <<req, arg, sent, cause>>

Pass ==
  /\ at = "checking" /\ Accepts(req, arg)
  /\ at' = "native"
  /\ UNCHANGED <<req, arg, sent, cause, outcome>>

Send == sent' = [address |-> AddressByte(req.address), size |-> OnWire(req.op, arg.size)]

\* An answer that makes no sense: a block longer than its buffer, a pin
\* level other than 0 and 1.
Answer(n) ==
  CASE req.op \in Answered /\ n > MaxBlockSize   -> throwInvalid
    [] req.op = "readGpio" /\ n \notin {0, 1}     -> checkError("PROTOCOL")
    [] OTHER                                      -> Value

\* Device::Device, after the open: whether the release of stale I2C state
\* succeeds or fails, its result is discarded and the speed is set.
Released ==
  /\ at = "native" /\ req.op = "Device"
  /\ at' = "released"
  /\ UNCHANGED <<req, arg, sent, cause, outcome>>

NativeOk(n) ==
  /\ at \in {"native", "released"} /\ (at = "released" <=> req.op = "Device")
  /\ Send
  /\ End(Answer(n))
  /\ UNCHANGED <<req, arg, cause>>

\* A checked call of the C library fails, before or after the chip heard of
\* the request; setInterval makes none.
NativeFails(n) ==
  /\ at \in {"native", "released"} /\ req.op # "setInterval"
  /\ Send \/ UNCHANGED sent
  /\ cause' = n
  /\ End(checkError(n))
  /\ UNCHANGED <<req, arg>>

Return ==
  /\ at = "over"
  /\ at' = "idle" /\ req' = None /\ arg' = None /\ sent' = None /\ cause' = "OK"
  /\ outcome' = Value

Init == at = "idle" /\ req = None /\ arg = None /\ sent = None /\ cause = "OK" /\ outcome = Value

Next == \/ \E r \in Requests : Ask(r)
        \/ QtRefuses \/ Convert \/ Refuse \/ Pass \/ Released \/ Return
        \/ \E n \in Answers : NativeOk(n)
        \/ \E n \in NativeErrors : NativeFails(n)

Spec == Init /\ [][Next]_vars

-----------------------------------------------------------------------------
(* Properties *)

\* What reaches the chip is what was asked for: no length, address or period
\* that passed the checks (Device.cpp:76-89, 808-814, 934-943 and the limits
\* of I2cDevice, SmbusDevice and the Qt wrappers) is cut by the conversions
\* and protocol fields behind them.
NothingTruncated ==
  sent # None =>
    /\ req.op \in Addressed => sent.address = 2 * req.address
    /\ req.op \in Sized \cup {"setInterval"} => sent.size = req.size

\* A call refused for its arguments left the chip alone, with one exception
\* the caller cannot tell apart: a block of a bad length is refused with the
\* same Invalid after the transfer took place (SmbusDevice.cpp:107-123).
RefusedUntouched ==
  /\ outcome.class = "invalid_argument" => sent = None
  /\ outcome = throwInvalid /\ cause = "OK" /\ sent # None => req.op \in Answered

\* The exception tells which failure it was: it carries the C code, and its
\* ErrorCode belongs to that code alone, Generic apart (Error.cpp:31-97); no
\* failure looks like a success.  This is about the failures that the code
\* checks: the constructor discards that of its i2c_release (Device.cpp:364).
FailuresTold ==
  cause # "OK" =>
    /\ outcome.class = "Error" /\ outcome.native = cause
    /\ \A n \in NativeErrors \ {cause} : checkError(n).code = outcome.code => outcome.code = "Generic"
=============================================================================
