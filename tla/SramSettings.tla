---------------------------- MODULE SramSettings ----------------------------
(***************************************************************************)
(* The runtime configuration in the chip's SRAM, and the Device methods    *)
(* that change part of it: configureSram, configurePins, setPinFunction,   *)
(* writeGpio, configureAdc, configureDac, writeDacRaw, configureClock,     *)
(* configureInterrupt and clearInterruptFlag, from several threads.  A     *)
(* method translates what it was given into a native request in which KEEP *)
(* stands for every field it leaves alone; the C library reads the chip,   *)
(* merges and writes back, all while the method holds the device's mutex.  *)
(*                                                                         *)
(* A field is a pair of a group (a pin, "int", "adc", ...) and a name.     *)
(* Native constants are named by what they mean to the chip.               *)
(***************************************************************************)
EXTENDS Integers

CONSTANTS
  Threads,
  Pins,      \* the GP pins
  Calls,     \* the calls the program makes: records of op and arguments
  PowerUp,   \* the settings the chip may start with
  KEEP,      \* MCP2221_CONFIG_KEEP, MCP2221_GPIO_KEEP and MCP2221_PIN_FUNC_KEEP
  None       \* no thread, no call, nothing read

ASSUME SentinelsApart ==
  /\ KEEP # None
  /\ None \notin Threads /\ None \notin Calls
  /\ Pins \cap {"int", "adc", "dac", "clk"} = {}

VARIABLES
  sram,      \* the chip's runtime settings, by field
  holder,    \* the thread that holds the device's mutex
  pc,        \* where each thread is
  call,      \* the call it makes
  base,      \* the settings the C library read for it
  reply      \* what interruptFlag() returned

vars == <<sram, holder, pc, call, base, reply>>

-----------------------------------------------------------------------------
(* The fields of mcp2221_sram_config_t, and those of the chip *)

Flag  == <<"int", "flag">>
Clear == <<"int", "clear_flag">>
Edges == {<<"int", "pos_edge">>, <<"int", "neg_edge">>}
ReferenceFields == {"adc", "dac"} \X {"vrm", "ref_src"}
References      == {"adc", "dac"} \X {"reference"}
CommonFields    == (Pins \X {"value", "direction", "function"}) \cup Edges
                     \cup {<<"dac", "value">>, <<"clk", "div">>, <<"clk", "duty">>}
NativeFields == CommonFields \cup ReferenceFields \cup {Clear}
ChipFields   == CommonFields \cup ReferenceFields \cup {Flag}

(* The translations: tables from enumerators to native values.  A switch   *)
(* that no case matches throws, so a value outside the domain is refused.  *)

toNativeSramDirection   == [Output |-> "OUT", Input |-> "IN"]
toNativeSramPinFunction == [Gpio |-> "GPIO", Dedicated |-> "DEDICATED",
                            Alt0 |-> "ALT0", Alt1 |-> "ALT1", Alt2 |-> "ALT2"]
toNativePinFunction     == [Dedicated |-> "DEDICATED", Alt0 |-> "ALT0", Alt1 |-> "ALT1",
                            Alt2 |-> "ALT2", GpioInput |-> "GPIO_IN", GpioOutput |-> "GPIO_OUT"]
toNativeClockFrequency  == [KHz375 |-> "375kHz", KHz750 |-> "750kHz", MHz1_5 |-> "1.5MHz",
                            MHz3 |-> "3MHz", MHz6 |-> "6MHz", MHz12 |-> "12MHz", MHz24 |-> "24MHz"]
toNativeClockDuty       == [Percent0 |-> 0, Percent25 |-> 25, Percent50 |-> 50, Percent75 |-> 75]

Pair(vrm, src) == [vrm |-> vrm, ref_src |-> src]

\* Mutant: an internal reference sets the voltage and forgets the source.
applyAdcReferenceHalf ==
  [Off |-> Pair("OFF", "VRM"), Vdd |-> Pair(KEEP, "VDD"), Internal1V024 |-> Pair("1.024V", KEEP),
   Internal2V048 |-> Pair("2.048V", "VRM"), Internal4V096 |-> Pair("4.096V", "VRM")]

applyAdcReference ==
  [Off |-> Pair("OFF", "VRM"), Vdd |-> Pair(KEEP, "VDD"), Internal1V024 |-> Pair("1.024V", "VRM"),
   Internal2V048 |-> Pair("2.048V", "VRM"), Internal4V096 |-> Pair("4.096V", "VRM")]
applyDacReference ==
  [Off |-> Pair("OFF", "VRM"), Vdd |-> Pair(KEEP, "VDD"), Internal1V024 |-> Pair("1.024V", "VRM"),
   Internal2V048 |-> Pair("2.048V", "VRM"), Internal4V096 |-> Pair("4.096V", "VRM")]

\* The strings and numbers of the C functions that take no native struct.
toReferenceString      == [Off |-> "OFF", Vdd |-> "VDD", Internal1V024 |-> "1.024V",
                           Internal2V048 |-> "2.048V", Internal4V096 |-> "4.096V"]
toClockFrequencyString == [KHz375 |-> "375kHz", KHz750 |-> "750kHz", MHz1_5 |-> "1.5MHz",
                           MHz3 |-> "3MHz", MHz6 |-> "6MHz", MHz12 |-> "12MHz", MHz24 |-> "24MHz"]
toDutyPercent          == [Percent0 |-> 0, Percent25 |-> 25, Percent50 |-> 50, Percent75 |-> 75]
toInterruptEdgeString  == [None |-> "none", Rising |-> "rising", Falling |-> "falling",
                           Both |-> "both"]

Bit     == [b \in BOOLEAN |-> IF b THEN 1 ELSE 0]
DacCode == [n \in 0..31 |-> n]

\* How configureSram translates one engaged field.
Translation(s) ==
  CASE s[2] = "direction"        -> toNativeSramDirection
    [] s[2] = "function"         -> toNativeSramPinFunction
    [] s[2] = "div"              -> toNativeClockFrequency
    [] s[2] = "duty"             -> toNativeClockDuty
    [] s = <<"dac", "value">>    -> DacCode
    [] s = <<"adc", "reference">> -> applyAdcReference
    [] s = <<"dac", "reference">> -> applyDacReference
    [] OTHER                     -> Bit

\* configureSram: every disengaged field becomes KEEP.
SramRequest(config) ==
  [f \in NativeFields |->
     LET reference == <<f[1], "reference">> IN
     CASE f \in ReferenceFields /\ reference \in DOMAIN config ->
            Translation(reference)[config[reference]][f[2]]
       [] f \in DOMAIN config -> Translation(f)[config[f]]
       [] OTHER -> KEEP]

\* configurePins: outputValue only with GpioOutput.
PinEntryOk(e) ==
  IF e.function = KEEP THEN ~e.outputValue
  ELSE /\ e.function \in DOMAIN toNativePinFunction
       /\ e.outputValue => e.function = "GpioOutput"

\* What the C library makes of a pin function and an output level.
PinEffect(function, out) ==
  CASE function = "GPIO_IN"  -> [function |-> "GPIO", direction |-> "IN"]
    [] function = "GPIO_OUT" -> [function |-> "GPIO", direction |-> "OUT", value |-> out]
    [] OTHER                 -> [function |-> function]

\* Mutant: an entry without a function takes the default one.
PinsRequestReset(entries) ==
  [f \in NativeFields |->
     IF f[1] \notin DOMAIN entries THEN KEEP
     ELSE LET e == entries[f[1]]
              effect == IF e.function = KEEP THEN PinEffect("DEDICATED", 0)
                        ELSE PinEffect(toNativePinFunction[e.function], Bit[e.outputValue])
          IN  IF f[2] \in DOMAIN effect THEN effect[f[2]] ELSE KEEP]

\* configurePins, and setPinFunction for one pin with a low output.
PinsRequest(entries) ==
  [f \in NativeFields |->
     IF f[1] \notin DOMAIN entries \/ entries[f[1]].function = KEEP THEN KEEP
     ELSE LET e == entries[f[1]]
              effect == PinEffect(toNativePinFunction[e.function], Bit[e.outputValue])
          IN  IF f[2] \in DOMAIN effect THEN effect[f[2]] ELSE KEEP]

\* writeGpio.
GpioRequest(values) ==
  [f \in NativeFields |->
     IF f[2] = "value" /\ f[1] \in DOMAIN values THEN Bit[values[f[1]]] ELSE KEEP]

\* How the C library reads a reference string, for the ADC or the DAC.
Selected(group, string) ==
  [f \in NativeFields |->
     CASE f[1] = group /\ f[2] = "vrm"     -> IF string = "VDD" THEN KEEP ELSE string
       [] f[1] = group /\ f[2] = "ref_src" -> IF string = "VDD" THEN "VDD" ELSE "VRM"
       [] OTHER                            -> KEEP]

\* Native requests that set single fields.
Only(field, value) == [f \in NativeFields |-> IF f = field THEN value ELSE KEEP]

Nothing == [f \in NativeFields |-> KEEP]

-----------------------------------------------------------------------------
(* The methods: what they check before the lock, what they can only        *)
(* refuse under it, and the native request they make.                      *)

ChecksFirst(c) ==
  CASE c.op = "configureSram" -> \A s \in DOMAIN c.config : c.config[s] \in DOMAIN Translation(s)
    [] c.op = "configurePins" -> \A p \in DOMAIN c.entries : PinEntryOk(c.entries[p])
    [] c.op \in {"configureDacCode", "writeDacRaw"} -> c.code <= 31
    [] OTHER -> TRUE

ConvertsLocked(c) ==
  CASE c.op = "setPinFunction" -> c.pin \in Pins /\ c.function \in DOMAIN toNativePinFunction
    [] c.op \in {"configureAdc", "configureDac", "configureDacCode"} ->
         c.reference \in DOMAIN toReferenceString
    [] c.op = "configureClock" -> /\ c.duty \in DOMAIN toDutyPercent
                                  /\ c.frequency \in DOMAIN toClockFrequencyString
    [] c.op = "configureInterrupt" -> c.edge \in DOMAIN toInterruptEdgeString
    [] OTHER -> TRUE

Native(c) ==
  CASE c.op = "configureSram"  -> SramRequest(c.config)
    [] c.op = "configurePins"  -> PinsRequest(c.entries)
    [] c.op = "setPinFunction" -> PinsRequest([p \in {c.pin} |-> [function |-> c.function,
                                                                  outputValue |-> FALSE]])
    [] c.op = "writeGpio"      -> GpioRequest(c.values)
    [] c.op = "configureAdc"   -> Selected("adc", toReferenceString[c.reference])
    [] c.op = "configureDac"   -> Selected("dac", toReferenceString[c.reference])
    [] c.op = "configureDacCode" -> [Selected("dac", toReferenceString[c.reference])
                                       EXCEPT ![<<"dac", "value">>] = c.code]
    [] c.op = "writeDacRaw"    -> Only(<<"dac", "value">>, c.code)
    [] c.op = "configureClock" -> [Only(<<"clk", "duty">>, toDutyPercent[c.duty])
                                     EXCEPT ![<<"clk", "div">>] = toClockFrequencyString[c.frequency]]
    [] c.op = "configureInterrupt" ->
         LET edge == toInterruptEdgeString[c.edge]
         IN  [f \in NativeFields |->
                CASE f = <<"int", "pos_edge">> -> Bit[(edge \in {"rising", "both"})]
                  [] f = <<"int", "neg_edge">> -> Bit[(edge \in {"falling", "both"})]
                  [] OTHER -> KEEP]
    [] c.op = "clearInterruptFlag" -> Only(Clear, 1)
    [] OTHER                   -> Nothing

-----------------------------------------------------------------------------
(* The chip and the C library *)

\* The settings after the fields S of request n are written over b: the
\* flag is not written but cleared.
Merged(b, n, S) ==
  [f \in ChipFields |->
     CASE f = Flag -> IF Clear \in S /\ n[Clear] = 1 THEN 0 ELSE sram[Flag]
       [] f \in S /\ n[f] # KEEP -> n[f]
       [] OTHER -> b[f]]

\* A GPIO write reaches the pins that are GPIOs; the others refuse it.
Writable(c, b) == IF c.op # "writeGpio" THEN NativeFields
                  ELSE {f \in NativeFields : f[1] \in Pins /\ b[<<f[1], "function">>] = "GPIO"}

-----------------------------------------------------------------------------
(* A call, from the thread that makes it to the chip and back *)

To(t, label) == pc' = [pc EXCEPT ![t] = label]

\* requireOpen, then the checks and translations that precede the lock.
Invoke(t, c) ==
  /\ pc[t] = "idle"
  /\ call' = [call EXCEPT ![t] = c]
  /\ To(t, "begun")
  /\ UNCHANGED <<sram, holder, base, reply>>

RefuseFirst(t) ==
  /\ pc[t] = "begun" /\ ~ChecksFirst(call[t])
  /\ To(t, "refused")
  /\ UNCHANGED <<sram, holder, call, base, reply>>

\* The lock is taken, a translation throws, and the lock is given back.
RefuseLocked(t) ==
  /\ pc[t] = "begun" /\ holder = None
  /\ ChecksFirst(call[t]) /\ ~ConvertsLocked(call[t])
  /\ To(t, "refused")
  /\ UNCHANGED <<sram, holder, call, base, reply>>

\* Mutant: the lock_guard is missing.
LockMissing(t) ==
  /\ pc[t] = "begun"
  /\ ChecksFirst(call[t]) /\ ConvertsLocked(call[t])
  /\ To(t, "locked")
  /\ UNCHANGED <<sram, holder, call, base, reply>>

Lock(t) ==
  /\ pc[t] = "begun" /\ holder = None
  /\ ChecksFirst(call[t]) /\ ConvertsLocked(call[t])
  /\ holder' = t
  /\ To(t, "locked")
  /\ UNCHANGED <<sram, call, base, reply>>

\* The C library reads the settings it is going to merge with.
Fetch(t) ==
  /\ pc[t] = "locked"
  /\ base' = [base EXCEPT ![t] = sram]
  /\ To(t, "merging")
  /\ UNCHANGED <<sram, holder, call, reply>>

Finish(t, label) == /\ holder' = None
                    /\ base' = [base EXCEPT ![t] = None]
                    /\ To(t, label)

\* It writes them and the call succeeds; interruptFlag() returns the flag.
Store(t) ==
  LET n == Native(call[t]) IN
  /\ pc[t] = "merging"
  /\ \A f \in NativeFields : n[f] # KEEP => f \in Writable(call[t], base[t])
  /\ sram' = Merged(base[t], n, NativeFields)
  /\ reply' = [reply EXCEPT ![t] = IF call[t].op = "interruptFlag" THEN sram[Flag] ELSE None]
  /\ Finish(t, "done")
  /\ UNCHANGED call

\* It fails, having written some of the fields; checkError throws.
StoreFails(t) ==
  /\ pc[t] = "merging"
  /\ LET n == Native(call[t]) IN
       \E S \in SUBSET {f \in Writable(call[t], base[t]) : n[f] # KEEP} :
         sram' = Merged(base[t], n, S)
  /\ Finish(t, "failed")
  /\ UNCHANGED <<call, reply>>

Return(t) ==
  /\ pc[t] \in {"done", "refused", "failed"}
  /\ call' = [call EXCEPT ![t] = None]
  /\ reply' = [reply EXCEPT ![t] = None]
  /\ To(t, "idle")
  /\ UNCHANGED <<sram, holder, base>>

\* The chip sees an edge it was told to watch for.
Edge == /\ \E f \in Edges : sram[f] = 1
        /\ sram[Flag] = 0
        /\ sram' = [sram EXCEPT ![Flag] = 1]
        /\ UNCHANGED <<holder, pc, call, base, reply>>

Init == /\ sram \in PowerUp
        /\ holder = None
        /\ pc = [t \in Threads |-> "idle"]
        /\ call = [t \in Threads |-> None]
        /\ base = [t \in Threads |-> None]
        /\ reply = [t \in Threads |-> None]

Next == \/ \E t \in Threads :
             \/ \E c \in Calls : Invoke(t, c)
             \/ RefuseFirst(t) \/ RefuseLocked(t) \/ Lock(t) \/ Fetch(t)
             \/ Store(t) \/ StoreFails(t) \/ Return(t)
        \/ Edge

Spec == Init /\ [][Next]_vars

-----------------------------------------------------------------------------
(* What a call asks for, in the terms of Types.h rather than of the code   *)
(* above: the pairs of a field and a value it names, and whether every     *)
(* value it gives exists.                                                  *)

Means == [Output |-> "OUT", Input |-> "IN", GpioInput |-> "IN", GpioOutput |-> "OUT",
          Gpio |-> "GPIO", Dedicated |-> "DEDICATED", Alt0 |-> "ALT0", Alt1 |-> "ALT1",
          Alt2 |-> "ALT2", Off |-> "OFF", Vdd |-> "VDD", Internal1V024 |-> "1.024V",
          Internal2V048 |-> "2.048V", Internal4V096 |-> "4.096V", KHz375 |-> "375kHz",
          KHz750 |-> "750kHz", MHz1_5 |-> "1.5MHz", MHz3 |-> "3MHz", MHz6 |-> "6MHz",
          MHz12 |-> "12MHz", MHz24 |-> "24MHz", Percent0 |-> 0, Percent25 |-> 25,
          Percent50 |-> 50, Percent75 |-> 75]

\* VDD bypasses the internal reference, whose voltage stays selected.
AskReference(group, r) ==
  IF r = "Vdd" THEN {<<<<group, "ref_src">>, "VDD">>}
  ELSE {<<<<group, "ref_src">>, "VRM">>, <<<<group, "vrm">>, Means[r]>>}

AskPin(pin, function, high) ==
  IF function \notin {"GpioInput", "GpioOutput"} THEN {<<<<pin, "function">>, Means[function]>>}
  ELSE {<<<<pin, "function">>, "GPIO">>, <<<<pin, "direction">>, Means[function]>>}
         \cup IF function = "GpioInput" THEN {} ELSE {<<<<pin, "value">>, IF high THEN 1 ELSE 0>>}

AskField(s, v) ==
  CASE s[2] = "reference" -> AskReference(s[1], v)
    [] s = Clear          -> IF v THEN {<<Flag, 0>>} ELSE {}
    [] s[2] \in {"direction", "function", "div", "duty"} -> {<<s, Means[v]>>}
    [] s = <<"dac", "value">> -> {<<s, v>>}
    [] OTHER -> {<<s, IF v THEN 1 ELSE 0>>}

Asked(c) ==
  CASE c.op = "configureSram"  -> UNION {AskField(s, c.config[s]) : s \in DOMAIN c.config}
    [] c.op = "configurePins"  -> UNION {AskPin(p, c.entries[p].function, c.entries[p].outputValue) :
                                    p \in {q \in DOMAIN c.entries : c.entries[q].function # KEEP}}
    [] c.op = "setPinFunction" -> AskPin(c.pin, c.function, FALSE)
    [] c.op = "writeGpio"      -> {<<<<p, "value">>, IF c.values[p] THEN 1 ELSE 0>> : p \in DOMAIN c.values}
    [] c.op = "configureAdc"   -> AskReference("adc", c.reference)
    [] c.op = "configureDac"   -> AskReference("dac", c.reference)
    [] c.op = "configureDacCode" -> AskReference("dac", c.reference) \cup {<<<<"dac", "value">>, c.code>>}
    [] c.op = "writeDacRaw"    -> {<<<<"dac", "value">>, c.code>>}
    [] c.op = "configureClock" -> {<<<<"clk", "duty">>, Means[c.duty]>>, <<<<"clk", "div">>, Means[c.frequency]>>}
    [] c.op = "configureInterrupt" ->
         {<<<<"int", "pos_edge">>, IF c.edge \in {"Rising", "Both"} THEN 1 ELSE 0>>,
          <<<<"int", "neg_edge">>, IF c.edge \in {"Falling", "Both"} THEN 1 ELSE 0>>}
    [] c.op = "clearInterruptFlag" -> {<<Flag, 0>>}
    [] OTHER -> {}

\* The values a call gives, and those that exist.
Known(c) ==
  CASE c.op = "configureSram" ->
         \A s \in DOMAIN c.config : CASE s[2] \in {"direction", "function", "div", "duty", "reference"} ->
                                            c.config[s] \in DOMAIN Means
                                      [] s = <<"dac", "value">> -> c.config[s] < 32
                                      [] OTHER -> TRUE
    [] c.op = "configurePins" ->
         \A p \in DOMAIN c.entries : /\ c.entries[p].function \in DOMAIN Means \cup {KEEP}
                                     /\ c.entries[p].outputValue => c.entries[p].function = "GpioOutput"
    [] c.op = "setPinFunction" -> c.pin \in Pins /\ c.function \in DOMAIN Means
    [] c.op \in {"configureAdc", "configureDac"} -> c.reference \in DOMAIN Means
    [] c.op = "configureDacCode" -> c.reference \in DOMAIN Means /\ c.code < 32
    [] c.op = "writeDacRaw"    -> c.code < 32
    [] c.op = "configureClock" -> {c.duty, c.frequency} \subseteq DOMAIN Means
    [] c.op = "configureInterrupt" -> c.edge \in {"None", "Rising", "Falling", "Both"}
    [] OTHER -> TRUE

\* What C++ lets a program pass: an enumerator of the parameter's type or a
\* number cast to it that names none, a bool, an unsigned number.
OfType(table, v) == v \in DOMAIN Means => v \in DOMAIN table

ASSUME CallsTyped ==
  \A c \in Calls :
    CASE c.op = "configureSram" ->
           /\ DOMAIN c.config \subseteq CommonFields \cup References \cup {Clear}
           /\ \A s \in DOMAIN c.config :
                CASE s[2] \in {"direction", "function", "div", "duty", "reference"} ->
                       OfType(Translation(s), c.config[s])
                  [] s = <<"dac", "value">> -> c.config[s] \in Nat
                  [] OTHER -> c.config[s] \in BOOLEAN
      [] c.op = "configurePins" ->
           /\ DOMAIN c.entries \subseteq Pins
           /\ \A p \in DOMAIN c.entries : /\ OfType(toNativePinFunction, c.entries[p].function)
                                          /\ c.entries[p].outputValue \in BOOLEAN
      [] c.op = "setPinFunction" -> OfType(toNativePinFunction, c.function)
      [] c.op = "writeGpio" -> /\ DOMAIN c.values \subseteq Pins
                               /\ \A p \in DOMAIN c.values : c.values[p] \in BOOLEAN
      [] c.op \in {"configureAdc", "configureDac"} -> OfType(toReferenceString, c.reference)
      [] c.op = "configureDacCode" -> OfType(toReferenceString, c.reference) /\ c.code \in Nat
      [] c.op = "writeDacRaw" -> c.code \in Nat
      [] c.op = "configureClock" -> /\ OfType(toDutyPercent, c.duty)
                                    /\ OfType(toClockFrequencyString, c.frequency)
      [] OTHER -> TRUE

Update(c) ==
  LET asked == IF Known(c) THEN Asked(c) ELSE {}
  IN  [legal |-> Known(c),
       sets  |-> [f \in {a[1] : a \in asked} |-> (CHOOSE a \in asked : a[1] = f)[2]],
       reads |-> IF c.op = "interruptFlag" THEN {Flag} ELSE {}]

-----------------------------------------------------------------------------
(* Properties *)

Voltages == {"OFF", "1.024V", "2.048V", "4.096V"}
Allowed(f) ==
  CASE f[2] = "direction" -> {"IN", "OUT"}
    [] f[2] = "function"  -> {"GPIO", "DEDICATED", "ALT0", "ALT1", "ALT2"}
    [] f[2] = "vrm"       -> Voltages
    [] f[2] = "ref_src"   -> {"VRM", "VDD"}
    [] f[2] = "div"       -> {"375kHz", "750kHz", "1.5MHz", "3MHz", "6MHz", "12MHz", "24MHz"}
    [] f[2] = "duty"      -> {0, 25, 50, 75}
    [] f = <<"dac", "value">> -> 0..31
    [] OTHER              -> {0, 1}

\* The chip starts with settings it can have, and KEEP is none of them.
ASSUME SettingsAllowed ==
  /\ \A s \in PowerUp : /\ s = [f \in ChipFields |-> s[f]]
                        /\ \A f \in ChipFields : s[f] \in Allowed(f)
  /\ KEEP \notin DOMAIN Means /\ \A f \in ChipFields : KEEP \notin Allowed(f)
  /\ None \notin [ChipFields -> UNION {Allowed(f) : f \in ChipFields}]

\* Type correctness, and no sentinel of a request (KEEP) is ever a setting
\* of the chip, whatever path the request took (Device.cpp:730-783, 541-593).
TypeOK ==
  /\ DOMAIN sram = ChipFields /\ \A f \in ChipFields : sram[f] \in Allowed(f)
  /\ holder \in Threads \cup {None}
  /\ \A t \in Threads :
       /\ pc[t] \in {"idle", "begun", "locked", "merging", "done", "refused", "failed"}
       /\ call[t] = None <=> pc[t] = "idle"
       /\ holder = t <=> pc[t] \in {"locked", "merging"}
       /\ base[t] # None <=> pc[t] = "merging"

Abstract ==
  INSTANCE PartialUpdates WITH
    Updates <- {Update(c) : c \in Calls},
    setting <- sram,
    asked   <- [t \in Threads |-> IF call[t] = None THEN None ELSE Update(call[t])],
    answer  <- [t \in Threads |-> IF pc[t] \in {"begun", "locked", "merging"} THEN "pending" ELSE pc[t]],
    reply   <- [t \in Threads |-> IF pc[t] # "done" THEN None
                                  ELSE IF call[t].op = "interruptFlag" THEN [f \in {Flag} |-> reply[t]]
                                  ELSE [f \in {} |-> None]]

\* Every configuring method, interleaved with every other and with the chip
\* latching its interrupt flag, is a partial update in one step: it sets
\* exactly what the caller named to what the caller meant, keeps the rest
\* though the C library writes it back, is refused without effect exactly
\* when a value does not exist, and a failure changes nothing it did not name.
ImplementsPartialUpdates == Abstract!Spec
=============================================================================
