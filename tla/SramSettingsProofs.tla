------------------------- MODULE SramSettingsProofs -------------------------
(***************************************************************************)
(* Proofs about SramSettings, for any threads, pins and calls: the types,  *)
(* and that every method is a partial update.  The heart is Agree: the     *)
(* native request a method builds sets exactly what the caller asked for.  *)
(***************************************************************************)
EXTENDS SramSettings, TLAPS

\* The settings a request can name, but for the interrupt flag.
Settable == CommonFields \cup ReferenceFields

\* A native request says what was asked, in values the chip can have.
Agree(n, asked) ==
  /\ \A f \in Settable : n[f] = KEEP \/ n[f] \in Allowed(f)
  /\ n[Clear] \in {0, 1, KEEP}
  /\ \A a : a \in asked <=> \/ \E f \in Settable : n[f] # KEEP /\ a = <<f, n[f]>>
                            \/ n[Clear] = 1 /\ a = <<Flag, 0>>

-----------------------------------------------------------------------------
(* Fields and values *)

LEMMA SettableCases ==
  ASSUME NEW f \in Settable
  PROVE  \/ \E p \in Pins : f \in {<<p, "value">>, <<p, "direction">>, <<p, "function">>}
         \/ f \in {<<"int", "pos_edge">>, <<"int", "neg_edge">>, <<"dac", "value">>,
                   <<"clk", "div">>, <<"clk", "duty">>}
         \/ f \in {<<"adc", "vrm">>, <<"adc", "ref_src">>, <<"dac", "vrm">>, <<"dac", "ref_src">>}
  BY DEF Settable, CommonFields, ReferenceFields, Edges

LEMMA Settables ==
  /\ \A p \in Pins : {<<p, "value">>, <<p, "direction">>, <<p, "function">>} \subseteq Settable
  /\ {<<"int", "pos_edge">>, <<"int", "neg_edge">>, <<"dac", "value">>,
      <<"clk", "div">>, <<"clk", "duty">>} \subseteq Settable
  /\ {<<"adc", "vrm">>, <<"adc", "ref_src">>, <<"dac", "vrm">>, <<"dac", "ref_src">>} \subseteq Settable
  BY DEF Settable, CommonFields, ReferenceFields, Edges

LEMMA Fields ==
  /\ ChipFields = Settable \cup {Flag} /\ Flag \notin Settable
  /\ NativeFields = Settable \cup {Clear} /\ Clear \notin Settable /\ Clear # Flag
<1>1. Flag \notin Settable /\ Clear \notin Settable
  <2> SUFFICES ASSUME NEW f \in Settable PROVE f # Flag /\ f # Clear
    OBVIOUS
  <2> QED  BY SettableCases DEF Flag, Clear
<1> QED  BY <1>1 DEF ChipFields, NativeFields, Settable, Flag, Clear

\* What a field may be set to, and that KEEP is none of it.
LEMMA AllowedAre ==
  /\ \A p \in Pins : /\ Allowed(<<p, "value">>) = {0, 1}
                     /\ Allowed(<<p, "direction">>) = {"IN", "OUT"}
                     /\ Allowed(<<p, "function">>) = {"GPIO", "DEDICATED", "ALT0", "ALT1", "ALT2"}
  /\ Allowed(<<"int", "pos_edge">>) = {0, 1} /\ Allowed(<<"int", "neg_edge">>) = {0, 1}
  /\ Allowed(<<"dac", "value">>) = 0..31
  /\ Allowed(<<"clk", "div">>) = {"375kHz", "750kHz", "1.5MHz", "3MHz", "6MHz", "12MHz", "24MHz"}
  /\ Allowed(<<"clk", "duty">>) = {0, 25, 50, 75}
  /\ \A g \in {"adc", "dac"} : /\ Allowed(<<g, "vrm">>) = Voltages
                               /\ Allowed(<<g, "ref_src">>) = {"VRM", "VDD"}
  /\ Allowed(Flag) = {0, 1}
<1>1. \A p \in Pins : p # "dac"
  BY SentinelsApart
<1> QED  BY <1>1 DEF Allowed, Flag

LEMMA KeepNotAllowed == (\A f \in Settable : KEEP \notin Allowed(f)) /\ KEEP \notin {0, 1}
<1>1. \A f \in ChipFields : KEEP \notin Allowed(f)
  BY SettingsAllowed
<1>2. Flag \in ChipFields /\ Allowed(Flag) = {0, 1}
  BY Fields, AllowedAre
<1>3. \A f \in Settable : f \in ChipFields
  BY Fields
<1> QED  BY <1>1, <1>2, <1>3

LEMMA BitOf == \A b \in BOOLEAN : Bit[b] = (IF b THEN 1 ELSE 0) /\ Bit[b] \in {0, 1}
  BY DEF Bit

-----------------------------------------------------------------------------
(* Requests and what they say *)

LEMMA NothingAgrees == Agree(Nothing, {})
  BY Fields, KeepNotAllowed DEF Agree, Nothing

LEMMA ClearAgrees == Agree(Only(Clear, 1), {<<Flag, 0>>})
  BY Fields, KeepNotAllowed DEF Agree, Only

\* One field alone.
LEMMA OnlyAgrees ==
  ASSUME NEW f \in Settable, NEW v \in Allowed(f)
  PROVE  Agree(Only(f, v), {<<f, v>>})
<1> DEFINE n == Only(f, v)
<1>1. v # KEEP
  BY KeepNotAllowed, Fields
<1>2. n[f] = v /\ n[Clear] = KEEP /\ \A g \in Settable : g # f => n[g] = KEEP
  BY Fields DEF Only
<1>3. KEEP # 1
  BY KeepNotAllowed
<1> HIDE DEF n
<1> QED  BY <1>1, <1>2, <1>3 DEF Agree, n

\* One field more.
LEMMA OneMoreAgrees ==
  ASSUME NEW n, NEW asked, Agree(n, asked), NEW f \in Settable, NEW v \in Allowed(f), n[f] = KEEP,
         n = [g \in NativeFields |-> n[g]]
  PROVE  Agree([n EXCEPT ![f] = v], asked \cup {<<f, v>>})
<1> DEFINE m == [n EXCEPT ![f] = v]
<1>1. v # KEEP
  BY KeepNotAllowed, Fields
<1>2. m[f] = v /\ m[Clear] = n[Clear] /\ \A g \in Settable : g # f => m[g] = n[g]
  BY Fields
<1> HIDE DEF m
<1> QED  BY <1>1, <1>2 DEF Agree, m

-----------------------------------------------------------------------------
(* The methods that set single values *)

LEMMA DacRawAgrees ==
  ASSUME NEW c, c.op = "writeDacRaw", c.code \in Nat, ChecksFirst(c)
  PROVE  Agree(Native(c), Asked(c))
<1>1. c.code \in 0..31
  BY DEF ChecksFirst
<1>2. Native(c) = Only(<<"dac", "value">>, c.code) /\ Asked(c) = {<<<<"dac", "value">>, c.code>>}
  BY DEF Native, Asked
<1> QED  BY <1>1, <1>2, OnlyAgrees, Settables, AllowedAre

LEMMA ClearFlagAgrees ==
  ASSUME NEW c, c.op = "clearInterruptFlag"
  PROVE  Agree(Native(c), Asked(c))
<1>1. Native(c) = Only(Clear, 1) /\ Asked(c) = {<<Flag, 0>>}
  BY DEF Native, Asked
<1> QED  BY <1>1, ClearAgrees

LEMMA InterruptAgrees ==
  ASSUME NEW c, c.op = "configureInterrupt", ConvertsLocked(c)
  PROVE  Agree(Native(c), Asked(c))
<1> DEFINE n == Native(c)
           rising  == IF c.edge \in {"Rising", "Both"} THEN 1 ELSE 0
           falling == IF c.edge \in {"Falling", "Both"} THEN 1 ELSE 0
<1>1. c.edge \in {"None", "Rising", "Falling", "Both"}
  BY DEF ConvertsLocked, toInterruptEdgeString
<1>2. n = [f \in NativeFields |->
             CASE f = <<"int", "pos_edge">> -> Bit[(toInterruptEdgeString[c.edge] \in {"rising", "both"})]
               [] f = <<"int", "neg_edge">> -> Bit[(toInterruptEdgeString[c.edge] \in {"falling", "both"})]
               [] OTHER -> KEEP]
  BY DEF Native
<1>3. /\ Bit[(toInterruptEdgeString[c.edge] \in {"rising", "both"})] = rising
      /\ Bit[(toInterruptEdgeString[c.edge] \in {"falling", "both"})] = falling
  <2> DEFINE up == (toInterruptEdgeString[c.edge] \in {"rising", "both"})
             down == (toInterruptEdgeString[c.edge] \in {"falling", "both"})
  <2>1. up <=> c.edge \in {"Rising", "Both"}
    BY <1>1 DEF toInterruptEdgeString
  <2>2. down <=> c.edge \in {"Falling", "Both"}
    BY <1>1 DEF toInterruptEdgeString
  <2>3. up \in BOOLEAN /\ down \in BOOLEAN
    OBVIOUS
  <2> HIDE DEF up, down
  <2>4. Bit[up] = rising /\ Bit[down] = falling
    BY <2>1, <2>2, <2>3, BitOf
  <2> QED  BY <2>4 DEF up, down
<1>4. Asked(c) = {<<<<"int", "pos_edge">>, rising>>, <<<<"int", "neg_edge">>, falling>>}
  BY DEF Asked
<1>5. rising \in {0, 1} /\ falling \in {0, 1}
  OBVIOUS
<1> HIDE DEF n, rising, falling
<1>6. /\ n[<<"int", "pos_edge">>] = rising /\ n[<<"int", "neg_edge">>] = falling
      /\ \A f \in NativeFields : f \notin {<<"int", "pos_edge">>, <<"int", "neg_edge">>} => n[f] = KEEP
  BY <1>2, <1>3, Settables, Fields
<1>7. n[Clear] = KEEP
  BY <1>6, Fields DEF Clear
<1>8. {<<"int", "pos_edge">>, <<"int", "neg_edge">>} \subseteq Settable
        /\ Allowed(<<"int", "pos_edge">>) = {0, 1} /\ Allowed(<<"int", "neg_edge">>) = {0, 1}
  BY Settables, AllowedAre
<1>9. KEEP \notin {0, 1} /\ \A f \in Settable : f \in NativeFields
  BY KeepNotAllowed, Fields
<1> QED  BY <1>4, <1>5, <1>6, <1>7, <1>8, <1>9 DEF Agree, n

-----------------------------------------------------------------------------
(* The references and the clock, by the strings of the C functions *)

LEMMA SelectedAgrees ==
  ASSUME NEW g \in {"adc", "dac"}, NEW r \in DOMAIN toReferenceString
  PROVE  /\ Agree(Selected(g, toReferenceString[r]), AskReference(g, r))
         /\ Selected(g, toReferenceString[r])[<<"dac", "value">>] = KEEP
<1> DEFINE string == toReferenceString[r]
           n == Selected(g, string)
           vrm == IF string = "VDD" THEN KEEP ELSE string
           src == IF string = "VDD" THEN "VDD" ELSE "VRM"
<1>1. r \in {"Off", "Vdd", "Internal1V024", "Internal2V048", "Internal4V096"}
  BY DEF toReferenceString
<1>2. string \in {"OFF", "VDD", "1.024V", "2.048V", "4.096V"} /\ (string = "VDD" <=> r = "Vdd")
        /\ Means[r] = (IF r = "Vdd" THEN "VDD" ELSE string)
  BY <1>1 DEF toReferenceString, Means
<1>3. AskReference(g, r) = IF string = "VDD" THEN {<<<<g, "ref_src">>, src>>}
                           ELSE {<<<<g, "ref_src">>, src>>, <<<<g, "vrm">>, vrm>>}
  BY <1>2 DEF AskReference
<1>4. n = [f \in NativeFields |->
             CASE f[1] = g /\ f[2] = "vrm" -> vrm
               [] f[1] = g /\ f[2] = "ref_src" -> src
               [] OTHER -> KEEP]
  BY DEF Selected
<1>5. src \in {"VRM", "VDD"} /\ (string = "VDD" => vrm = KEEP) /\ (string # "VDD" => vrm \in Voltages)
  BY <1>2 DEF Voltages
<1>6. /\ {<<g, "vrm">>, <<g, "ref_src">>} \subseteq Settable
      /\ Allowed(<<g, "vrm">>) = Voltages /\ Allowed(<<g, "ref_src">>) = {"VRM", "VDD"}
  BY Settables, AllowedAre
<1> HIDE DEF string, n, vrm, src
<1>7. ASSUME NEW f \in Settable, f # <<g, "vrm">>, f # <<g, "ref_src">> PROVE n[f] = KEEP
  <2>1. f \in NativeFields
    BY Fields
  <2>2. ~(f[1] = g /\ f[2] = "vrm") /\ ~(f[1] = g /\ f[2] = "ref_src")
    BY <1>7, SettableCases
  <2> QED  BY <1>4, <2>1, <2>2
<1>8. n[<<g, "vrm">>] = vrm /\ n[<<g, "ref_src">>] = src
  BY <1>4, <1>6, Fields
<1>9. n[Clear] = KEEP
  BY <1>4, Fields DEF Clear
<1>10. KEEP # src /\ (string # "VDD" => vrm # KEEP) /\ KEEP # 1
  BY <1>5, <1>6, KeepNotAllowed
<1>11. Agree(n, AskReference(g, r))
  <2>1. CASE string = "VDD"
    BY <2>1, <1>3, <1>5, <1>6, <1>7, <1>8, <1>9, <1>10 DEF Agree
  <2>2. CASE string # "VDD"
    BY <2>2, <1>3, <1>5, <1>6, <1>7, <1>8, <1>9, <1>10 DEF Agree
  <2> QED  BY <2>1, <2>2
<1>12. n[<<"dac", "value">>] = KEEP
  BY <1>7, Settables
<1> QED  BY <1>11, <1>12 DEF n, string

LEMMA ReferenceAgrees ==
  ASSUME NEW c, c.op \in {"configureAdc", "configureDac"}, ConvertsLocked(c)
  PROVE  Agree(Native(c), Asked(c))
<1>1. c.reference \in DOMAIN toReferenceString
  BY DEF ConvertsLocked
<1>2. CASE c.op = "configureAdc"
  BY <1>1, <1>2, SelectedAgrees DEF Native, Asked
<1>3. CASE c.op = "configureDac"
  BY <1>1, <1>3, SelectedAgrees DEF Native, Asked
<1> QED  BY <1>2, <1>3

LEMMA DacCodeAgrees ==
  ASSUME NEW c, c.op = "configureDacCode", c.code \in Nat, ChecksFirst(c), ConvertsLocked(c)
  PROVE  Agree(Native(c), Asked(c))
<1> DEFINE n == Selected("dac", toReferenceString[c.reference])
<1>1. c.reference \in DOMAIN toReferenceString /\ c.code \in 0..31
  BY DEF ChecksFirst, ConvertsLocked
<1>2. Agree(n, AskReference("dac", c.reference)) /\ n[<<"dac", "value">>] = KEEP
  BY <1>1, SelectedAgrees
<1>3. n = [g \in NativeFields |-> n[g]]
  BY DEF Selected
<1>4. Native(c) = [n EXCEPT ![<<"dac", "value">>] = c.code]
        /\ Asked(c) = AskReference("dac", c.reference) \cup {<<<<"dac", "value">>, c.code>>}
  BY DEF Native, Asked
<1>5. <<"dac", "value">> \in Settable /\ c.code \in Allowed(<<"dac", "value">>)
  BY <1>1, Settables, AllowedAre
<1> HIDE DEF n
<1> QED  BY <1>2, <1>3, <1>4, <1>5, OneMoreAgrees

LEMMA ClockAgrees ==
  ASSUME NEW c, c.op = "configureClock", ConvertsLocked(c)
  PROVE  Agree(Native(c), Asked(c))
<1> DEFINE duty == toDutyPercent[c.duty]
           div  == toClockFrequencyString[c.frequency]
           n    == Only(<<"clk", "duty">>, duty)
<1>1. c.duty \in DOMAIN toDutyPercent /\ c.frequency \in DOMAIN toClockFrequencyString
  BY DEF ConvertsLocked
<1>2. duty \in {0, 25, 50, 75} /\ duty = Means[c.duty]
  BY <1>1 DEF toDutyPercent, Means
<1>3. div \in {"375kHz", "750kHz", "1.5MHz", "3MHz", "6MHz", "12MHz", "24MHz"} /\ div = Means[c.frequency]
  BY <1>1 DEF toClockFrequencyString, Means
<1>4. <<"clk", "duty">> \in Settable /\ <<"clk", "div">> \in Settable
        /\ duty \in Allowed(<<"clk", "duty">>) /\ div \in Allowed(<<"clk", "div">>)
  BY <1>2, <1>3, Settables, AllowedAre
<1>5. /\ Native(c) = [n EXCEPT ![<<"clk", "div">>] = div]
      /\ Asked(c) = {<<<<"clk", "duty">>, duty>>} \cup {<<<<"clk", "div">>, div>>}
  BY <1>2, <1>3 DEF Native, Asked
<1> HIDE DEF duty, div
<1>6. Agree(n, {<<<<"clk", "duty">>, duty>>})
  BY <1>4, OnlyAgrees
<1>7. n = [g \in NativeFields |-> n[g]] /\ n[<<"clk", "div">>] = KEEP
  BY <1>4, Fields DEF Only
<1> HIDE DEF n
<1> QED  BY <1>4, <1>5, <1>6, <1>7, OneMoreAgrees

-----------------------------------------------------------------------------
(* The pins *)

LEMMA GpioAgrees ==
  ASSUME NEW c, c.op = "writeGpio", DOMAIN c.values \subseteq Pins,
         \A p \in DOMAIN c.values : c.values[p] \in BOOLEAN
  PROVE  /\ Agree(Native(c), Asked(c))
         /\ \A f \in Settable : Native(c)[f] # KEEP => f[1] \in Pins
         /\ Native(c)[Clear] = KEEP
<1> DEFINE S == DOMAIN c.values
           n == Native(c)
           bit(p) == IF c.values[p] THEN 1 ELSE 0
<1>1. n = [f \in NativeFields |-> IF f[2] = "value" /\ f[1] \in S THEN Bit[c.values[f[1]]] ELSE KEEP]
  BY DEF Native, GpioRequest
<1>2. Asked(c) = {<<<<p, "value">>, bit(p)>> : p \in S}
  BY DEF Asked
<1>3. \A p \in S : Bit[c.values[p]] = bit(p) /\ bit(p) \in {0, 1}
  BY BitOf
<1>4. S \subseteq Pins /\ "int" \notin Pins /\ "dac" \notin Pins
  BY SentinelsApart
<1> HIDE DEF n, S, bit
<1>5. \A p \in S : <<p, "value">> \in Settable /\ Allowed(<<p, "value">>) = {0, 1} /\ n[<<p, "value">>] = bit(p)
  <2> TAKE p \in S
  <2>1. <<p, "value">> \in Settable /\ Allowed(<<p, "value">>) = {0, 1}
    BY <1>4, Settables, AllowedAre
  <2>2. <<p, "value">> \in NativeFields
    BY <2>1, Fields
  <2> QED  BY <1>1, <1>3, <2>1, <2>2
<1>6. ASSUME NEW f \in Settable, n[f] # KEEP PROVE f[1] \in S /\ f = <<f[1], "value">>
  <2>1. f \in NativeFields
    BY Fields
  <2>2. f[2] = "value" /\ f[1] \in S
    BY <1>1, <1>6, <2>1
  <2>3. f = <<f[1], f[2]>>
    BY SettableCases
  <2> QED  BY <2>2, <2>3
<1>7. n[Clear] = KEEP
  BY <1>1, Fields DEF Clear
<1>8. KEEP \notin {0, 1}
  BY KeepNotAllowed
<1>9. \A f \in Settable : n[f] = KEEP \/ n[f] \in Allowed(f)
  BY <1>3, <1>5, <1>6
<1>10. ASSUME NEW a PROVE a \in Asked(c) <=> \E f \in Settable : n[f] # KEEP /\ a = <<f, n[f]>>
  <2>1. ASSUME a \in Asked(c) PROVE \E f \in Settable : n[f] # KEEP /\ a = <<f, n[f]>>
    <3>1. PICK p \in S : a = <<<<p, "value">>, bit(p)>>
      BY <1>2, <2>1
    <3> QED  BY <3>1, <1>3, <1>5, <1>8
  <2>2. ASSUME NEW f \in Settable, n[f] # KEEP, a = <<f, n[f]>> PROVE a \in Asked(c)
    <3>1. f[1] \in S /\ f = <<f[1], "value">>
      BY <1>6, <2>2
    <3>2. n[f] = bit(f[1])
      BY <3>1, <1>5
    <3> QED  BY <3>1, <3>2, <2>2, <1>2
  <2> QED  BY <2>1, <2>2
<1>11. Agree(n, Asked(c))
  BY <1>7, <1>8, <1>9, <1>10 DEF Agree
<1>12. \A f \in Settable : n[f] # KEEP => f[1] \in Pins
  BY <1>4, <1>6
<1> QED  BY <1>7, <1>11, <1>12 DEF n

\* What the C library makes of a pin's function is what was asked for the pin.
LEMMA PinEffectAsked ==
  ASSUME NEW p \in Pins, NEW function \in DOMAIN toNativePinFunction, NEW high \in BOOLEAN
  PROVE  LET effect == PinEffect(toNativePinFunction[function], Bit[high]) IN
         /\ DOMAIN effect \subseteq {"value", "direction", "function"}
         /\ AskPin(p, function, high) = {<<<<p, x>>, effect[x]>> : x \in DOMAIN effect}
         /\ \A x \in DOMAIN effect : effect[x] \in Allowed(<<p, x>>)
<1> DEFINE native == toNativePinFunction[function]
           bit    == IF high THEN 1 ELSE 0
           effect == PinEffect(native, bit)
<1>1. Bit[high] = bit /\ bit \in {0, 1}
  BY BitOf
<1>2. /\ Allowed(<<p, "value">>) = {0, 1} /\ Allowed(<<p, "direction">>) = {"IN", "OUT"}
      /\ Allowed(<<p, "function">>) = {"GPIO", "DEDICATED", "ALT0", "ALT1", "ALT2"}
  BY AllowedAre
<1> HIDE DEF bit
<1>3. CASE function = "GpioInput"
  <2>1. effect = [function |-> "GPIO", direction |-> "IN"]
    BY <1>3 DEF toNativePinFunction, PinEffect
  <2>2. AskPin(p, function, high) = {<<<<p, "function">>, "GPIO">>, <<<<p, "direction">>, "IN">>}
    BY <1>3 DEF AskPin, Means
  <2>3. DOMAIN effect = {"function", "direction"} /\ effect["function"] = "GPIO" /\ effect["direction"] = "IN"
    BY <2>1
  <2> HIDE DEF effect
  <2>4. {<<<<p, x>>, effect[x]>> : x \in DOMAIN effect}
          = {<<<<p, "function">>, effect["function"]>>, <<<<p, "direction">>, effect["direction"]>>}
    BY <2>3
  <2> QED  BY <2>2, <2>3, <2>4, <1>1, <1>2 DEF effect
<1>4. CASE function = "GpioOutput"
  <2>1. effect = [function |-> "GPIO", direction |-> "OUT", value |-> bit]
    BY <1>4 DEF toNativePinFunction, PinEffect
  <2>2. AskPin(p, function, high) = {<<<<p, "function">>, "GPIO">>, <<<<p, "direction">>, "OUT">>, <<<<p, "value">>, bit>>}
    BY <1>4 DEF AskPin, Means, bit
  <2>3. /\ DOMAIN effect = {"function", "direction", "value"} /\ effect["function"] = "GPIO"
        /\ effect["direction"] = "OUT" /\ effect["value"] = bit
    BY <2>1
  <2> HIDE DEF effect
  <2>4. {<<<<p, x>>, effect[x]>> : x \in DOMAIN effect}
          = {<<<<p, "function">>, effect["function"]>>, <<<<p, "direction">>, effect["direction"]>>,
             <<<<p, "value">>, effect["value"]>>}
    BY <2>3
  <2> QED  BY <2>2, <2>3, <2>4, <1>1, <1>2 DEF effect
<1>5. CASE function \notin {"GpioInput", "GpioOutput"}
  <2>1. native = Means[function] /\ native \in {"DEDICATED", "ALT0", "ALT1", "ALT2"}
    BY <1>5 DEF toNativePinFunction, Means
  <2>2. effect = [function |-> native]
    BY <2>1 DEF PinEffect
  <2>3. AskPin(p, function, high) = {<<<<p, "function">>, native>>}
    BY <1>5, <2>1 DEF AskPin
  <2> HIDE DEF native
  <2>4. DOMAIN effect = {"function"} /\ effect["function"] = native
    BY <2>2
  <2> HIDE DEF effect
  <2>5. {<<<<p, x>>, effect[x]>> : x \in DOMAIN effect} = {<<<<p, "function">>, effect["function"]>>}
    BY <2>4
  <2> QED  BY <2>1, <2>3, <2>4, <2>5, <1>1, <1>2 DEF effect, native
<1> QED  BY <1>3, <1>4, <1>5

\* The request for a set of pins, each with a function or left alone.
LEMMA PinsAgree ==
  ASSUME NEW entries, DOMAIN entries \subseteq Pins,
         \A p \in DOMAIN entries : /\ entries[p].function = KEEP \/ entries[p].function \in DOMAIN toNativePinFunction
                                   /\ entries[p].outputValue \in BOOLEAN
  PROVE  Agree(PinsRequest(entries),
               UNION {AskPin(p, entries[p].function, entries[p].outputValue) :
                        p \in {q \in DOMAIN entries : entries[q].function # KEEP}})
<1> DEFINE S == {q \in DOMAIN entries : entries[q].function # KEEP}
           n == PinsRequest(entries)
           effect(p) == PinEffect(toNativePinFunction[entries[p].function], Bit[entries[p].outputValue])
           ask(p) == AskPin(p, entries[p].function, entries[p].outputValue)
           asked == UNION {ask(p) : p \in S}
<1>1. n = [f \in NativeFields |-> IF f[1] \notin S THEN KEEP
                                  ELSE IF f[2] \in DOMAIN effect(f[1]) THEN effect(f[1])[f[2]] ELSE KEEP]
  BY DEF PinsRequest
<1>2. \A p \in S : /\ DOMAIN effect(p) \subseteq {"value", "direction", "function"}
                   /\ ask(p) = {<<<<p, x>>, effect(p)[x]>> : x \in DOMAIN effect(p)}
                   /\ \A x \in DOMAIN effect(p) : effect(p)[x] \in Allowed(<<p, x>>)
  BY PinEffectAsked
<1>3. S \subseteq Pins /\ "int" \notin Pins
  BY SentinelsApart
<1>4. \A a : a \in asked <=> \E p \in S : a \in ask(p)
  OBVIOUS
<1> HIDE DEF S, n, effect, ask, asked
<1>5. \A p \in S : \A x \in DOMAIN effect(p) :
        <<p, x>> \in Settable /\ n[<<p, x>>] = effect(p)[x] /\ n[<<p, x>>] \in Allowed(<<p, x>>)
  <2> TAKE p \in S
  <2> TAKE x \in DOMAIN effect(p)
  <2>1. p \in Pins /\ x \in {"value", "direction", "function"}
    BY <1>2, <1>3
  <2>2. <<p, x>> \in Settable /\ <<p, x>> \in NativeFields
    BY <2>1, Settables, Fields
  <2>3. n[<<p, x>>] = effect(p)[x]
    BY <1>1, <2>2
  <2> QED  BY <1>2, <2>2, <2>3
<1>6. ASSUME NEW f \in Settable, n[f] # KEEP PROVE f[1] \in S /\ f[2] \in DOMAIN effect(f[1]) /\ f = <<f[1], f[2]>>
  <2>1. f \in NativeFields
    BY Fields
  <2>2. f[1] \in S /\ f[2] \in DOMAIN effect(f[1])
    BY <1>1, <1>6, <2>1
  <2>3. f = <<f[1], f[2]>>
    BY SettableCases
  <2> QED  BY <2>2, <2>3
<1>7. n[Clear] = KEEP
  BY <1>1, <1>3, Fields DEF Clear
<1>8. KEEP \notin {0, 1} /\ \A f \in Settable : KEEP \notin Allowed(f)
  BY KeepNotAllowed
<1>9. \A f \in Settable : n[f] = KEEP \/ n[f] \in Allowed(f)
  BY <1>5, <1>6
<1>10. ASSUME NEW a PROVE a \in asked <=> \E f \in Settable : n[f] # KEEP /\ a = <<f, n[f]>>
  <2>1. ASSUME a \in asked PROVE \E f \in Settable : n[f] # KEEP /\ a = <<f, n[f]>>
    <3>1. PICK p \in S : a \in ask(p)
      BY <1>4, <2>1
    <3>2. PICK x \in DOMAIN effect(p) : a = <<<<p, x>>, effect(p)[x]>>
      BY <1>2, <3>1
    <3> QED  BY <3>2, <1>5, <1>8
  <2>2. ASSUME NEW f \in Settable, n[f] # KEEP, a = <<f, n[f]>> PROVE a \in asked
    <3>1. f[1] \in S /\ f[2] \in DOMAIN effect(f[1]) /\ f = <<f[1], f[2]>>
      BY <1>6, <2>2
    <3>2. n[f] = effect(f[1])[f[2]]
      BY <3>1, <1>5
    <3>3. a \in ask(f[1])
      BY <3>1, <3>2, <2>2, <1>2
    <3> QED  BY <3>1, <3>3, <1>4
  <2> QED  BY <2>1, <2>2
<1>11. Agree(n, asked)
  BY <1>7, <1>8, <1>9, <1>10 DEF Agree
<1> QED  BY <1>11 DEF n, asked, ask, S

LEMMA PinFunctionAgrees ==
  ASSUME NEW c, c.op = "setPinFunction", ConvertsLocked(c)
  PROVE  Agree(Native(c), Asked(c))
<1> DEFINE entries == [p \in {c.pin} |-> [function |-> c.function, outputValue |-> FALSE]]
<1>1. c.pin \in Pins /\ c.function \in DOMAIN toNativePinFunction
  BY DEF ConvertsLocked
<1>2. c.function # KEEP
  BY <1>1, SettingsAllowed DEF toNativePinFunction, Means
<1>3. /\ DOMAIN entries = {c.pin} /\ entries[c.pin].function = c.function
      /\ entries[c.pin].outputValue = FALSE
  OBVIOUS
<1>4. Native(c) = PinsRequest(entries) /\ Asked(c) = AskPin(c.pin, c.function, FALSE)
  BY DEF Native, Asked
<1> HIDE DEF entries
<1>5. Agree(PinsRequest(entries),
            UNION {AskPin(p, entries[p].function, entries[p].outputValue) :
                     p \in {q \in DOMAIN entries : entries[q].function # KEEP}})
  BY <1>1, <1>3, PinsAgree
<1>6. {q \in DOMAIN entries : entries[q].function # KEEP} = {c.pin}
  BY <1>2, <1>3
<1>7. UNION {AskPin(p, entries[p].function, entries[p].outputValue) : p \in {c.pin}}
        = AskPin(c.pin, c.function, FALSE)
  BY <1>3
<1> QED  BY <1>4, <1>5, <1>6, <1>7

LEMMA PinTableAgrees ==
  ASSUME NEW c, c.op = "configurePins", ChecksFirst(c), DOMAIN c.entries \subseteq Pins,
         \A p \in DOMAIN c.entries : c.entries[p].outputValue \in BOOLEAN
  PROVE  Agree(Native(c), Asked(c))
<1>1. \A p \in DOMAIN c.entries : \/ c.entries[p].function = KEEP
                                  \/ c.entries[p].function \in DOMAIN toNativePinFunction
  BY DEF ChecksFirst, PinEntryOk
<1>2. Native(c) = PinsRequest(c.entries)
  BY DEF Native
<1>3. Asked(c) = UNION {AskPin(p, c.entries[p].function, c.entries[p].outputValue) :
                          p \in {q \in DOMAIN c.entries : c.entries[q].function # KEEP}}
  BY DEF Asked
<1> QED  BY <1>1, <1>2, <1>3, PinsAgree

-----------------------------------------------------------------------------
(* configureSram *)

\* A field that is its own setting.
LEMMA FieldAsked ==
  ASSUME NEW s \in CommonFields, NEW v \in DOMAIN Translation(s)
  PROVE  AskField(s, v) = {<<s, Translation(s)[v]>>} /\ Translation(s)[v] \in Allowed(s)
<1>1. s \in Settable
  BY DEF Settable
<1>2. ASSUME NEW p \in Pins, s = <<p, "value">> PROVE AskField(s, v) = {<<s, Translation(s)[v]>>} /\ Translation(s)[v] \in Allowed(s)
  <2>1. p # "dac" /\ s # Clear
    BY <1>2, SentinelsApart DEF Clear
  <2>2. Translation(s) = Bit
    BY <1>2, <2>1 DEF Translation
  <2>3. AskField(s, v) = {<<s, IF v THEN 1 ELSE 0>>}
    BY <1>2, <2>1 DEF AskField
  <2>4. v \in BOOLEAN
    BY <2>2 DEF Bit
  <2> QED  BY <1>2, <2>2, <2>3, <2>4, BitOf, AllowedAre
<1>3. CASE s \in {<<"int", "pos_edge">>, <<"int", "neg_edge">>}
  <2>1. Translation(s) = Bit
    BY <1>3 DEF Translation
  <2>2. AskField(s, v) = {<<s, IF v THEN 1 ELSE 0>>}
    BY <1>3 DEF AskField, Clear
  <2>3. v \in BOOLEAN
    BY <2>1 DEF Bit
  <2> QED  BY <1>3, <2>1, <2>2, <2>3, BitOf, AllowedAre
<1>4. ASSUME NEW p \in Pins, s = <<p, "direction">> PROVE AskField(s, v) = {<<s, Translation(s)[v]>>} /\ Translation(s)[v] \in Allowed(s)
  <2>1. Translation(s) = toNativeSramDirection /\ AskField(s, v) = {<<s, Means[v]>>}
    BY <1>4 DEF Translation, AskField, Clear
  <2>2. Means[v] = toNativeSramDirection[v] /\ toNativeSramDirection[v] \in {"IN", "OUT"}
    BY <2>1 DEF toNativeSramDirection, Means
  <2> QED  BY <1>4, <2>1, <2>2, AllowedAre
<1>5. ASSUME NEW p \in Pins, s = <<p, "function">> PROVE AskField(s, v) = {<<s, Translation(s)[v]>>} /\ Translation(s)[v] \in Allowed(s)
  <2>1. Translation(s) = toNativeSramPinFunction /\ AskField(s, v) = {<<s, Means[v]>>}
    BY <1>5 DEF Translation, AskField, Clear
  <2>2. Means[v] = toNativeSramPinFunction[v]
          /\ toNativeSramPinFunction[v] \in {"GPIO", "DEDICATED", "ALT0", "ALT1", "ALT2"}
    BY <2>1 DEF toNativeSramPinFunction, Means
  <2> QED  BY <1>5, <2>1, <2>2, AllowedAre
<1>6. CASE s = <<"clk", "div">>
  <2>1. Translation(s) = toNativeClockFrequency /\ AskField(s, v) = {<<s, Means[v]>>}
    BY <1>6 DEF Translation, AskField, Clear
  <2>2. Means[v] = toNativeClockFrequency[v]
          /\ toNativeClockFrequency[v] \in {"375kHz", "750kHz", "1.5MHz", "3MHz", "6MHz", "12MHz", "24MHz"}
    BY <2>1 DEF toNativeClockFrequency, Means
  <2> QED  BY <1>6, <2>1, <2>2, AllowedAre
<1>7. CASE s = <<"clk", "duty">>
  <2>1. Translation(s) = toNativeClockDuty /\ AskField(s, v) = {<<s, Means[v]>>}
    BY <1>7 DEF Translation, AskField, Clear
  <2>2. Means[v] = toNativeClockDuty[v] /\ toNativeClockDuty[v] \in {0, 25, 50, 75}
    BY <2>1 DEF toNativeClockDuty, Means
  <2> QED  BY <1>7, <2>1, <2>2, AllowedAre
<1>8. CASE s = <<"dac", "value">>
  <2>1. Translation(s) = DacCode /\ AskField(s, v) = {<<s, v>>}
    BY <1>8 DEF Translation, AskField, Clear
  <2>2. v \in 0..31 /\ DacCode[v] = v
    BY <2>1 DEF DacCode
  <2> QED  BY <1>8, <2>1, <2>2, AllowedAre
<1>9. \/ \E p \in Pins : s \in {<<p, "value">>, <<p, "direction">>, <<p, "function">>}
      \/ s \in {<<"int", "pos_edge">>, <<"int", "neg_edge">>, <<"dac", "value">>,
                <<"clk", "div">>, <<"clk", "duty">>}
  BY DEF CommonFields, Edges
<1> QED  BY <1>2, <1>3, <1>4, <1>5, <1>6, <1>7, <1>8, <1>9

\* A reference is two settings, one of which may be left alone.
LEMMA ReferenceAsked ==
  ASSUME NEW g \in {"adc", "dac"}, NEW r \in DOMAIN Translation(<<g, "reference">>)
  PROVE  LET pair == Translation(<<g, "reference">>)[r] IN
         /\ AskField(<<g, "reference">>, r) = {<<<<g, x>>, pair[x]>> : x \in {y \in {"vrm", "ref_src"} : pair[y] # KEEP}}
         /\ \A x \in {"vrm", "ref_src"} : pair[x] = KEEP \/ pair[x] \in Allowed(<<g, x>>)
<1> DEFINE pair == Translation(<<g, "reference">>)[r]
           vrm == pair["vrm"]
           src == pair["ref_src"]
<1>1. Translation(<<g, "reference">>) \in {applyAdcReference, applyDacReference}
        /\ AskField(<<g, "reference">>, r) = AskReference(g, r)
  <2>1. CASE g = "adc"
    <3>1. Translation(<<"adc", "reference">>) = applyAdcReference
      BY DEF Translation
    <3>2. AskField(<<"adc", "reference">>, r) = AskReference("adc", r)
      BY DEF AskField, Clear
    <3> QED  BY <2>1, <3>1, <3>2
  <2>2. CASE g = "dac"
    <3>1. Translation(<<"dac", "reference">>) = applyDacReference
      BY DEF Translation
    <3>2. AskField(<<"dac", "reference">>, r) = AskReference("dac", r)
      BY DEF AskField, Clear
    <3> QED  BY <2>2, <3>1, <3>2
  <2> QED  BY <2>1, <2>2
<1>2. r \in {"Off", "Vdd", "Internal1V024", "Internal2V048", "Internal4V096"}
  BY <1>1 DEF applyAdcReference, applyDacReference
<1>3. /\ r = "Vdd" => vrm = KEEP /\ src = "VDD"
      /\ r # "Vdd" => vrm = Means[r] /\ src = "VRM" /\ vrm \in Voltages
  BY <1>1, <1>2 DEF applyAdcReference, applyDacReference, Pair, Means, Voltages
<1>4. /\ Allowed(<<g, "vrm">>) = Voltages /\ Allowed(<<g, "ref_src">>) = {"VRM", "VDD"}
      /\ KEEP \notin Voltages /\ KEEP \notin {"VRM", "VDD"}
  BY AllowedAre, KeepNotAllowed, Settables
<1>5. AskReference(g, r) = IF r = "Vdd" THEN {<<<<g, "ref_src">>, src>>}
                           ELSE {<<<<g, "ref_src">>, src>>, <<<<g, "vrm">>, vrm>>}
  BY <1>3 DEF AskReference
<1>6. {y \in {"vrm", "ref_src"} : pair[y] # KEEP} = IF r = "Vdd" THEN {"ref_src"} ELSE {"vrm", "ref_src"}
  BY <1>3, <1>4
<1>7. {<<<<g, x>>, pair[x]>> : x \in {y \in {"vrm", "ref_src"} : pair[y] # KEEP}}
        = IF r = "Vdd" THEN {<<<<g, "ref_src">>, pair["ref_src"]>>}
          ELSE {<<<<g, "vrm">>, pair["vrm"]>>, <<<<g, "ref_src">>, pair["ref_src"]>>}
  <2> HIDE DEF pair
  <2> QED  BY <1>6
<1>8. AskReference(g, r) = IF r = "Vdd" THEN {<<<<g, "ref_src">>, pair["ref_src"]>>}
                           ELSE {<<<<g, "vrm">>, pair["vrm"]>>, <<<<g, "ref_src">>, pair["ref_src"]>>}
  <2> HIDE DEF pair
  <2> QED  BY <1>5
<1>9. \A x \in {"vrm", "ref_src"} : pair[x] = KEEP \/ pair[x] \in Allowed(<<g, x>>)
  <2> HIDE DEF pair
  <2> QED  BY <1>3, <1>4
<1> HIDE DEF pair
<1>10. AskField(<<g, "reference">>, r) = {<<<<g, x>>, pair[x]>> : x \in {y \in {"vrm", "ref_src"} : pair[y] # KEEP}}
  BY <1>1, <1>7, <1>8
<1> QED  BY <1>9, <1>10 DEF pair

LEMMA KindsApart ==
  /\ \A f \in CommonFields : f \notin ReferenceFields /\ f \notin References /\ f # Clear /\ f \in NativeFields
  /\ \A f \in ReferenceFields : f \notin References /\ f # Clear /\ f \in NativeFields
  /\ Clear \notin ReferenceFields /\ Clear \notin References /\ Clear \in NativeFields
<1>1. ASSUME NEW f \in CommonFields PROVE f \notin ReferenceFields /\ f \notin References /\ f # Clear
  <2>1. f \in Settable
    BY DEF Settable
  <2>2. CASE \E p \in Pins : f \in {<<p, "value">>, <<p, "direction">>, <<p, "function">>}
    BY <2>2 DEF ReferenceFields, References, Clear
  <2>3. CASE f \in {<<"int", "pos_edge">>, <<"int", "neg_edge">>, <<"dac", "value">>,
                    <<"clk", "div">>, <<"clk", "duty">>}
    BY <2>3 DEF ReferenceFields, References, Clear
  <2> QED  BY <2>2, <2>3 DEF CommonFields, Edges
<1>2. ASSUME NEW f \in ReferenceFields PROVE f \notin References /\ f # Clear
  BY <1>2 DEF ReferenceFields, References, Clear
<1>3. Clear \notin ReferenceFields /\ Clear \notin References
  BY DEF ReferenceFields, References, Clear
<1> QED  BY <1>1, <1>2, <1>3 DEF NativeFields

\* The flag is cleared by a true clear_flag and by nothing else.
LEMMA ClearAsked ==
  ASSUME NEW v \in DOMAIN Translation(Clear)
  PROVE  /\ AskField(Clear, v) = (IF Translation(Clear)[v] = 1 THEN {<<Flag, 0>>} ELSE {})
         /\ Translation(Clear)[v] \in {0, 1}
<1>1. Translation(Clear) = Bit
  BY DEF Translation, Clear
<1>2. v \in BOOLEAN
  BY <1>1 DEF Bit
<1>3. AskField(Clear, v) = IF v THEN {<<Flag, 0>>} ELSE {}
  BY DEF AskField, Clear
<1> QED  BY <1>1, <1>2, <1>3, BitOf

LEMMA SramAgrees ==
  ASSUME NEW c, c.op = "configureSram", ChecksFirst(c),
         DOMAIN c.config \subseteq CommonFields \cup References \cup {Clear}
  PROVE  Agree(Native(c), Asked(c))
<1> DEFINE D == DOMAIN c.config
           v(s) == c.config[s]
           n == Native(c)
           asked == Asked(c)
           image(s) == Translation(s)[v(s)]
           ask(s) == AskField(s, v(s))
           names == {"vrm", "ref_src"}
           groups == {"adc", "dac"}
<1>1. n = [f \in NativeFields |->
             CASE f \in ReferenceFields /\ <<f[1], "reference">> \in D -> image(<<f[1], "reference">>)[f[2]]
               [] f \in D -> image(f)
               [] OTHER -> KEEP]
  BY DEF Native, SramRequest
<1>2. asked = UNION {ask(s) : s \in D}
  BY DEF Asked
<1>3. \A s \in D : v(s) \in DOMAIN Translation(s)
  BY DEF ChecksFirst
<1>4. D \subseteq CommonFields \cup References \cup {Clear}
  OBVIOUS
<1> HIDE DEF D, v, n, asked
<1>5. \A s \in D \cap CommonFields : ask(s) = {<<s, image(s)>>} /\ image(s) \in Allowed(s)
  BY <1>3, FieldAsked
<1>6. \A g \in groups : <<g, "reference">> \in D =>
        /\ ask(<<g, "reference">>) = {<<<<g, x>>, image(<<g, "reference">>)[x]>> :
                                        x \in {y \in names : image(<<g, "reference">>)[y] # KEEP}}
        /\ \A x \in names : \/ image(<<g, "reference">>)[x] = KEEP
                            \/ image(<<g, "reference">>)[x] \in Allowed(<<g, x>>)
  BY <1>3, ReferenceAsked
<1>7. Clear \in D => /\ ask(Clear) = (IF image(Clear) = 1 THEN {<<Flag, 0>>} ELSE {})
                     /\ image(Clear) \in {0, 1}
  BY <1>3, ClearAsked
<1>8. \A a : a \in asked <=> \E s \in D : a \in ask(s)
  BY <1>2
<1> HIDE DEF image, ask
<1>9. \A f \in CommonFields : n[f] = IF f \in D THEN image(f) ELSE KEEP
  BY <1>1, KindsApart
<1>10. ASSUME NEW g \in groups, NEW x \in names
       PROVE  n[<<g, x>>] = IF <<g, "reference">> \in D THEN image(<<g, "reference">>)[x] ELSE KEEP
  <2>1. <<g, x>> \in ReferenceFields
    BY DEF ReferenceFields
  <2>2. <<g, x>> \in NativeFields /\ <<g, x>> \notin D
    BY <2>1, <1>4, KindsApart
  <2>3. <<g, x>>[1] = g /\ <<g, x>>[2] = x
    OBVIOUS
  <2> QED  BY <1>1, <2>1, <2>2, <2>3
<1>11. n[Clear] = IF Clear \in D THEN image(Clear) ELSE KEEP
  BY <1>1, KindsApart
<1>12. (\A f \in Settable : KEEP \notin Allowed(f)) /\ KEEP \notin {0, 1}
  BY KeepNotAllowed
<1>13. /\ \A f : f \in Settable <=> f \in CommonFields \/ \E g \in groups : \E x \in names : f = <<g, x>>
       /\ \A s \in D : s \in CommonFields \/ s = Clear \/ \E g \in groups : s = <<g, "reference">>
  BY <1>4 DEF Settable, ReferenceFields, References
<1> HIDE DEF names, groups
<1>14. \A f \in Settable : n[f] = KEEP \/ n[f] \in Allowed(f)
  <2> TAKE f \in Settable
  <2>1. CASE f \in CommonFields
    BY <2>1, <1>5, <1>9
  <2>2. ASSUME NEW g \in groups, NEW x \in names, f = <<g, x>> PROVE n[f] = KEEP \/ n[f] \in Allowed(f)
    BY <2>2, <1>6, <1>10
  <2> QED  BY <2>1, <2>2, <1>13
<1>15. n[Clear] \in {0, 1, KEEP}
  BY <1>7, <1>11
<1>16. ASSUME NEW a, a \in asked
       PROVE  \/ \E f \in Settable : n[f] # KEEP /\ a = <<f, n[f]>>
              \/ n[Clear] = 1 /\ a = <<Flag, 0>>
  <2>1. PICK s \in D : a \in ask(s)
    BY <1>8, <1>16
  <2>2. CASE s \in CommonFields
    <3>1. s \in Settable /\ a = <<s, n[s]>> /\ n[s] \in Allowed(s)
      BY <2>1, <2>2, <1>5, <1>9, <1>13
    <3> QED  BY <3>1, <1>12
  <2>3. CASE s = Clear
    BY <2>1, <2>3, <1>7, <1>11
  <2>4. ASSUME NEW g \in groups, s = <<g, "reference">>
        PROVE  \E f \in Settable : n[f] # KEEP /\ a = <<f, n[f]>>
    <3>1. PICK x \in names : /\ image(<<g, "reference">>)[x] # KEEP
                             /\ a = <<<<g, x>>, image(<<g, "reference">>)[x]>>
      BY <2>1, <2>4, <1>6
    <3> QED  BY <3>1, <2>4, <1>10, <1>13
  <2> QED  BY <2>2, <2>3, <2>4, <1>13
<1>17. ASSUME NEW f \in Settable, n[f] # KEEP PROVE <<f, n[f]>> \in asked
  <2>1. CASE f \in CommonFields
    <3>1. f \in D /\ n[f] = image(f)
      BY <2>1, <1>9, <1>17
    <3>2. <<f, n[f]>> \in ask(f)
      BY <3>1, <2>1, <1>5
    <3> QED  BY <3>1, <3>2, <1>8
  <2>2. ASSUME NEW g \in groups, NEW x \in names, f = <<g, x>> PROVE <<f, n[f]>> \in asked
    <3>1. <<g, "reference">> \in D /\ n[f] = image(<<g, "reference">>)[x]
      BY <2>2, <1>10, <1>17
    <3>2. <<f, n[f]>> \in ask(<<g, "reference">>)
      BY <3>1, <2>2, <1>6, <1>17
    <3> QED  BY <3>1, <3>2, <1>8
  <2> QED  BY <2>1, <2>2, <1>13
<1>18. ASSUME n[Clear] = 1 PROVE <<Flag, 0>> \in asked
  BY <1>18, <1>7, <1>8, <1>11, <1>12
<1>19. Agree(n, asked)
  BY <1>14, <1>15, <1>16, <1>17, <1>18 DEF Agree
<1> QED  BY <1>19 DEF n, asked

-----------------------------------------------------------------------------
(* Every method *)

Methods == {"configureSram", "configurePins", "setPinFunction", "writeGpio", "configureAdc",
            "configureDac", "configureDacCode", "writeDacRaw", "configureClock",
            "configureInterrupt", "clearInterruptFlag"}

LEMMA OtherAgrees ==
  ASSUME NEW c, c.op \notin Methods
  PROVE  Native(c) = Nothing /\ Asked(c) = {}
BY DEF Native, Asked, Methods

\* The types of a call's arguments, method by method.
LEMMA CallTypes ==
  ASSUME NEW c \in Calls
  PROVE  /\ c.op = "configureSram" =>
              /\ DOMAIN c.config \subseteq CommonFields \cup References \cup {Clear}
              /\ \A s \in DOMAIN c.config :
                   CASE s[2] \in {"direction", "function", "div", "duty", "reference"} ->
                          OfType(Translation(s), c.config[s])
                     [] s = <<"dac", "value">> -> c.config[s] \in Nat
                     [] OTHER -> c.config[s] \in BOOLEAN
         /\ c.op = "configurePins" =>
              /\ DOMAIN c.entries \subseteq Pins
              /\ \A p \in DOMAIN c.entries : /\ OfType(toNativePinFunction, c.entries[p].function)
                                             /\ c.entries[p].outputValue \in BOOLEAN
         /\ c.op = "setPinFunction" => OfType(toNativePinFunction, c.function)
         /\ c.op = "writeGpio" => /\ DOMAIN c.values \subseteq Pins
                                  /\ \A p \in DOMAIN c.values : c.values[p] \in BOOLEAN
         /\ c.op \in {"configureAdc", "configureDac"} => OfType(toReferenceString, c.reference)
         /\ c.op = "configureDacCode" => OfType(toReferenceString, c.reference) /\ c.code \in Nat
         /\ c.op = "writeDacRaw" => c.code \in Nat
         /\ c.op = "configureClock" => /\ OfType(toDutyPercent, c.duty)
                                       /\ OfType(toClockFrequencyString, c.frequency)
<1>1. CASE c.op = "configureSram"
  BY <1>1, CallsTyped
<1>2. CASE c.op = "configurePins"
  BY <1>2, CallsTyped
<1>3. CASE c.op = "setPinFunction"
  BY <1>3, CallsTyped
<1>4. CASE c.op = "writeGpio"
  BY <1>4, CallsTyped
<1>5. CASE c.op \in {"configureAdc", "configureDac"}
  BY <1>5, CallsTyped
<1>6. CASE c.op = "configureDacCode"
  BY <1>6, CallsTyped
<1>7. CASE c.op = "writeDacRaw"
  BY <1>7, CallsTyped
<1>8. CASE c.op = "configureClock"
  BY <1>8, CallsTyped
<1> QED  BY <1>1, <1>2, <1>3, <1>4, <1>5, <1>6, <1>7, <1>8

\* A request that passes the checks says exactly what its caller asked.
LEMMA RequestAgrees ==
  ASSUME NEW c \in Calls, ChecksFirst(c), ConvertsLocked(c)
  PROVE  Agree(Native(c), Asked(c))
<1>1. CASE c.op = "configureSram"
  BY <1>1, CallTypes, SramAgrees
<1>2. CASE c.op = "configurePins"
  BY <1>2, CallTypes, PinTableAgrees
<1>3. CASE c.op = "setPinFunction"
  BY <1>3, PinFunctionAgrees
<1>4. CASE c.op = "writeGpio"
  BY <1>4, CallTypes, GpioAgrees
<1>5. CASE c.op \in {"configureAdc", "configureDac"}
  BY <1>5, ReferenceAgrees
<1>6. CASE c.op = "configureDacCode"
  BY <1>6, CallTypes, DacCodeAgrees
<1>7. CASE c.op = "writeDacRaw"
  BY <1>7, CallTypes, DacRawAgrees
<1>8. CASE c.op = "configureClock"
  BY <1>8, ClockAgrees
<1>9. CASE c.op = "configureInterrupt"
  BY <1>9, InterruptAgrees
<1>10. CASE c.op = "clearInterruptFlag"
  BY <1>10, ClearFlagAgrees
<1>11. CASE c.op \notin Methods
  BY <1>11, OtherAgrees, NothingAgrees
<1> QED  BY <1>1, <1>2, <1>3, <1>4, <1>5, <1>6, <1>7, <1>8, <1>9, <1>10, <1>11 DEF Methods

\* Every table translates values that exist.
LEMMA TablesMean ==
  /\ DOMAIN toNativeSramDirection \subseteq DOMAIN Means
  /\ DOMAIN toNativeSramPinFunction \subseteq DOMAIN Means
  /\ DOMAIN toNativePinFunction \subseteq DOMAIN Means
  /\ DOMAIN toNativeClockFrequency \subseteq DOMAIN Means
  /\ DOMAIN toNativeClockDuty \subseteq DOMAIN Means
  /\ DOMAIN applyAdcReference \subseteq DOMAIN Means
  /\ DOMAIN applyDacReference \subseteq DOMAIN Means
  /\ DOMAIN toReferenceString \subseteq DOMAIN Means
  /\ DOMAIN toClockFrequencyString \subseteq DOMAIN Means
  /\ DOMAIN toDutyPercent \subseteq DOMAIN Means
  BY DEF toNativeSramDirection, toNativeSramPinFunction, toNativePinFunction, toNativeClockFrequency,
         toNativeClockDuty, applyAdcReference, applyDacReference, toReferenceString,
         toClockFrequencyString, toDutyPercent, Means

\* configureSram refuses exactly the values that do not exist.
LEMMA SramKnown ==
  ASSUME NEW c \in Calls, c.op = "configureSram"
  PROVE  ChecksFirst(c) /\ ConvertsLocked(c) <=> Known(c)
<1> DEFINE D == DOMAIN c.config
           v(s) == c.config[s]
           exists(s) == CASE s[2] \in {"direction", "function", "div", "duty", "reference"} -> v(s) \in DOMAIN Means
                          [] s = <<"dac", "value">> -> v(s) < 32
                          [] OTHER -> TRUE
           typed(s) == CASE s[2] \in {"direction", "function", "div", "duty", "reference"} -> OfType(Translation(s), v(s))
                         [] s = <<"dac", "value">> -> v(s) \in Nat
                         [] OTHER -> v(s) \in BOOLEAN
<1>1. (Known(c) <=> \A s \in D : exists(s)) /\ ConvertsLocked(c)
  BY DEF Known, ConvertsLocked
<1>2. ChecksFirst(c) <=> \A s \in D : v(s) \in DOMAIN Translation(s)
  BY DEF ChecksFirst
<1>3. D \subseteq CommonFields \cup References \cup {Clear} /\ \A s \in D : typed(s)
  BY CallTypes
<1> HIDE DEF D, v
<1>4. ASSUME NEW s \in D PROVE exists(s) <=> v(s) \in DOMAIN Translation(s)
  <2>1. \/ s[2] \in {"direction", "function", "div", "duty", "reference"}
        \/ s = <<"dac", "value">>
        \/ s \in {<<"int", "pos_edge">>, <<"int", "neg_edge">>, <<"int", "clear_flag">>}
        \/ \E p \in Pins : s = <<p, "value">>
    BY <1>3 DEF CommonFields, References, Clear, Edges
  <2>2. CASE s[2] \in {"direction", "function", "div", "duty", "reference"}
    <3>1. DOMAIN Translation(s) \subseteq DOMAIN Means
      <4>1. s \notin {<<"dac", "value">>} /\ (s[2] = "reference" => s \in {<<"adc", "reference">>, <<"dac", "reference">>})
        <5>1. \A f \in CommonFields \cup {Clear} : f[2] # "reference"
          BY DEF CommonFields, Clear, Edges
        <5> QED  BY <1>3, <2>2, <5>1 DEF References
      <4>2. CASE s[2] = "direction"
        BY <4>2, TablesMean DEF Translation
      <4>3. CASE s[2] = "function"
        BY <4>3, TablesMean DEF Translation
      <4>4. CASE s[2] = "div"
        BY <4>4, TablesMean DEF Translation
      <4>5. CASE s[2] = "duty"
        BY <4>5, TablesMean DEF Translation
      <4>6. CASE s = <<"adc", "reference">>
        BY <4>6, TablesMean DEF Translation
      <4>7. CASE s = <<"dac", "reference">>
        BY <4>7, TablesMean DEF Translation
      <4> QED  BY <2>2, <4>1, <4>2, <4>3, <4>4, <4>5, <4>6, <4>7
    <3>2. v(s) \in DOMAIN Means => v(s) \in DOMAIN Translation(s)
      BY <1>3, <2>2 DEF OfType
    <3>3. exists(s) <=> v(s) \in DOMAIN Means
      BY <2>2
    <3> QED  BY <3>1, <3>2, <3>3
  <2>3. CASE s = <<"dac", "value">>
    <3>1. Translation(s) = DacCode /\ (exists(s) <=> v(s) < 32)
      BY <2>3 DEF Translation
    <3>2. v(s) \in Nat
      <4>1. typed(s) <=> v(s) \in Nat
        BY <2>3
      <4> QED  BY <1>3, <4>1
    <3> QED  BY <3>1, <3>2 DEF DacCode
  <2>4. CASE s \in {<<"int", "pos_edge">>, <<"int", "neg_edge">>, <<"int", "clear_flag">>}
    <3>1. Translation(s) = Bit /\ exists(s)
      BY <2>4 DEF Translation
    <3>2. v(s) \in BOOLEAN
      <4>1. typed(s) <=> v(s) \in BOOLEAN
        BY <2>4
      <4> QED  BY <1>3, <4>1
    <3> QED  BY <3>1, <3>2 DEF Bit
  <2>5. ASSUME NEW p \in Pins, s = <<p, "value">> PROVE exists(s) <=> v(s) \in DOMAIN Translation(s)
    <3>1. p # "dac"
      BY SentinelsApart
    <3>2. Translation(s) = Bit /\ exists(s)
      BY <2>5, <3>1 DEF Translation
    <3>3. v(s) \in BOOLEAN
      <4>1. typed(s) <=> v(s) \in BOOLEAN
        BY <2>5, <3>1
      <4> QED  BY <1>3, <4>1
    <3> QED  BY <3>2, <3>3 DEF Bit
  <2> QED  BY <2>1, <2>2, <2>3, <2>4, <2>5
<1> HIDE DEF exists, typed
<1> QED  BY <1>1, <1>2, <1>4

\* Every method refuses exactly the calls with a value that does not exist.
LEMMA RefusesUnknown ==
  ASSUME NEW c \in Calls
  PROVE  ChecksFirst(c) /\ ConvertsLocked(c) <=> Known(c)
<1>1. CASE c.op = "configureSram"
  BY <1>1, SramKnown
<1>2. CASE c.op = "configurePins"
  <2> DEFINE E == c.entries
  <2>1. \A p \in DOMAIN E : OfType(toNativePinFunction, E[p].function) /\ E[p].outputValue \in BOOLEAN
    BY <1>2, CallTypes
  <2> DEFINE exists(e) == /\ e.function \in DOMAIN Means \cup {KEEP}
                          /\ e.outputValue => e.function = "GpioOutput"
  <2>2. ChecksFirst(c) <=> \A p \in DOMAIN E : PinEntryOk(E[p])
    BY <1>2 DEF ChecksFirst
  <2>5. ConvertsLocked(c)
    BY <1>2 DEF ConvertsLocked
  <2>6. Known(c) <=> \A p \in DOMAIN E : exists(E[p])
    BY <1>2 DEF Known
  <2>3. KEEP \notin DOMAIN Means /\ "GpioOutput" \in DOMAIN Means
    BY SettingsAllowed DEF Means
  <2> HIDE DEF E
  <2>4. \A p \in DOMAIN E : PinEntryOk(E[p]) <=> exists(E[p])
    BY <2>1, <2>3, TablesMean DEF PinEntryOk, OfType
  <2> HIDE DEF exists
  <2> QED  BY <2>2, <2>4, <2>5, <2>6
<1>3. CASE c.op = "setPinFunction"
  <2>1. ChecksFirst(c) /\ (ConvertsLocked(c) <=> c.pin \in Pins /\ c.function \in DOMAIN toNativePinFunction)
    BY <1>3 DEF ChecksFirst, ConvertsLocked
  <2>2. Known(c) <=> c.pin \in Pins /\ c.function \in DOMAIN Means
    BY <1>3 DEF Known
  <2> QED  BY <2>1, <2>2, <1>3, CallTypes, TablesMean DEF OfType
<1>4. CASE c.op \in {"configureAdc", "configureDac"}
  <2>1. ChecksFirst(c) /\ (ConvertsLocked(c) <=> c.reference \in DOMAIN toReferenceString)
    BY <1>4 DEF ChecksFirst, ConvertsLocked
  <2>2. Known(c) <=> c.reference \in DOMAIN Means
    BY <1>4 DEF Known
  <2> QED  BY <2>1, <2>2, <1>4, CallTypes, TablesMean DEF OfType
<1>5. CASE c.op = "configureDacCode"
  <2>1. (ChecksFirst(c) <=> c.code <= 31) /\ (ConvertsLocked(c) <=> c.reference \in DOMAIN toReferenceString)
    BY <1>5 DEF ChecksFirst, ConvertsLocked
  <2>2. Known(c) <=> c.reference \in DOMAIN Means /\ c.code < 32
    BY <1>5 DEF Known
  <2>3. c.code \in Nat /\ OfType(toReferenceString, c.reference)
    BY <1>5, CallTypes
  <2> QED  BY <2>1, <2>2, <2>3, TablesMean DEF OfType
<1>6. CASE c.op = "writeDacRaw"
  <2>1. (ChecksFirst(c) <=> c.code <= 31) /\ ConvertsLocked(c)
    BY <1>6 DEF ChecksFirst, ConvertsLocked
  <2>2. (Known(c) <=> c.code < 32) /\ c.code \in Nat
    BY <1>6, CallTypes DEF Known
  <2> QED  BY <2>1, <2>2
<1>7. CASE c.op = "configureClock"
  <2>1. ChecksFirst(c) /\ (ConvertsLocked(c) <=> /\ c.duty \in DOMAIN toDutyPercent
                                                 /\ c.frequency \in DOMAIN toClockFrequencyString)
    BY <1>7 DEF ChecksFirst, ConvertsLocked
  <2>2. Known(c) <=> {c.duty, c.frequency} \subseteq DOMAIN Means
    BY <1>7 DEF Known
  <2>3. OfType(toDutyPercent, c.duty) /\ OfType(toClockFrequencyString, c.frequency)
    BY <1>7, CallTypes
  <2> QED  BY <2>1, <2>2, <2>3, TablesMean DEF OfType
<1>8. CASE c.op = "configureInterrupt"
  <2>1. ChecksFirst(c) /\ (ConvertsLocked(c) <=> c.edge \in DOMAIN toInterruptEdgeString)
    BY <1>8 DEF ChecksFirst, ConvertsLocked
  <2> QED  BY <1>8, <2>1 DEF Known, toInterruptEdgeString
<1>9. CASE c.op \in {"writeGpio", "clearInterruptFlag"} \/ c.op \notin Methods
  BY <1>9 DEF ChecksFirst, ConvertsLocked, Known, Methods
<1> QED  BY <1>1, <1>2, <1>3, <1>4, <1>5, <1>6, <1>7, <1>8, <1>9 DEF Methods

-----------------------------------------------------------------------------
(* The inductive invariant.  What the C library read stays what the chip   *)
(* has, but for the flag, until it writes: BaseInv, which LockInv protects. *)

Labels  == {"idle", "begun", "locked", "merging", "done", "refused", "failed"}
Holding == {"locked", "merging"}

\* Settings the chip can have.
IsSettings(s) == /\ s = [f \in ChipFields |-> s[f]]
                 /\ \A f \in ChipFields : s[f] \in Allowed(f)

TypeInv ==
  /\ IsSettings(sram)
  /\ holder \in Threads \cup {None}
  /\ pc \in [Threads -> Labels]
  /\ call \in [Threads -> Calls \cup {None}]
  /\ base = [t \in Threads |-> base[t]]
  /\ reply = [t \in Threads |-> reply[t]]

LockInv == \A t \in Threads : holder = t <=> pc[t] \in Holding

CallInv ==
  \A t \in Threads :
    /\ call[t] = None <=> pc[t] = "idle"
    /\ pc[t] \in Holding => ChecksFirst(call[t]) /\ ConvertsLocked(call[t])

BaseInv ==
  \A t \in Threads :
    IF pc[t] = "merging"
    THEN IsSettings(base[t]) /\ \A f \in Settable : base[t][f] = sram[f]
    ELSE base[t] = None

IInv == TypeInv /\ LockInv /\ CallInv /\ BaseInv

LEMMA Initially == Init => IInv
<1> SUFFICES ASSUME Init PROVE IInv
  OBVIOUS
<1>1. IsSettings(sram)
  BY SettingsAllowed DEF Init, IsSettings
<1> QED  BY <1>1, SentinelsApart DEF Init, IInv, TypeInv, LockInv, CallInv, BaseInv, Labels, Holding

\* At most one thread is inside the C library, and its request is sound.
LEMMA Alone ==
  ASSUME IInv, NEW t \in Threads, pc[t] \in Holding
  PROVE  /\ call[t] \in Calls /\ Agree(Native(call[t]), Asked(call[t])) /\ Known(call[t])
         /\ \A u \in Threads \ {t} : pc[u] \notin Holding
<1>1. call[t] \in Calls /\ ChecksFirst(call[t]) /\ ConvertsLocked(call[t])
  BY DEF IInv, TypeInv, CallInv, Holding
<1>2. \A u \in Threads \ {t} : pc[u] \notin Holding
  BY DEF IInv, LockInv
<1> QED  BY <1>1, <1>2, RequestAgrees, RefusesUnknown

\* What a write back leaves in the chip, field by field.
LEMMA MergedIs ==
  ASSUME NEW b, NEW n, NEW asked, NEW S \in SUBSET NativeFields, IsSettings(sram), Agree(n, asked),
         \A f \in Settable : b[f] = sram[f]
  PROVE  /\ IsSettings(Merged(b, n, S))
         /\ Merged(b, n, S)[Flag] = (IF Clear \in S /\ n[Clear] = 1 THEN 0 ELSE sram[Flag])
         /\ \A f \in Settable : Merged(b, n, S)[f] = IF f \in S /\ n[f] # KEEP THEN n[f] ELSE sram[f]
<1> DEFINE m == Merged(b, n, S)
<1>1. m = [f \in ChipFields |-> CASE f = Flag -> IF Clear \in S /\ n[Clear] = 1 THEN 0 ELSE sram[Flag]
                                  [] f \in S /\ n[f] # KEEP -> n[f]
                                  [] OTHER -> b[f]]
  BY DEF Merged
<1>2. ChipFields = Settable \cup {Flag} /\ Flag \notin Settable /\ Flag \notin S
  BY Fields
<1> HIDE DEF m
<1>3. m[Flag] = IF Clear \in S /\ n[Clear] = 1 THEN 0 ELSE sram[Flag]
  BY <1>1, <1>2
<1>4. \A f \in Settable : m[f] = IF f \in S /\ n[f] # KEEP THEN n[f] ELSE sram[f]
  BY <1>1, <1>2
<1>5. m = [f \in ChipFields |-> m[f]]
  BY <1>1
<1>6. \A f \in Settable : n[f] = KEEP \/ n[f] \in Allowed(f)
  BY DEF Agree
<1>7. \A f \in ChipFields : sram[f] \in Allowed(f)
  BY DEF IsSettings
<1>8. Allowed(Flag) = {0, 1}
  BY AllowedAre
<1>9. \A f \in ChipFields : m[f] \in Allowed(f)
  BY <1>2, <1>3, <1>4, <1>6, <1>7, <1>8
<1> QED  BY <1>3, <1>4, <1>5, <1>9 DEF IsSettings, m

-----------------------------------------------------------------------------
(* One lemma per action *)

LEMMA InvokeKeeps ==
  ASSUME IInv, NEW t \in Threads, NEW c \in Calls, Invoke(t, c)
  PROVE  IInv'
<1>1. /\ UNCHANGED <<sram, holder, base, reply>> /\ pc[t] = "idle"
      /\ pc' = [pc EXCEPT ![t] = "begun"] /\ call' = [call EXCEPT ![t] = c] /\ c # None
  BY SentinelsApart DEF Invoke, To
<1>2. TypeInv'
  BY <1>1 DEF IInv, TypeInv, Labels, IsSettings
<1>3. LockInv' /\ CallInv'
  BY <1>1 DEF IInv, TypeInv, LockInv, CallInv, Holding, ChecksFirst, ConvertsLocked
<1>4. BaseInv'
  BY <1>1 DEF IInv, TypeInv, BaseInv, IsSettings
<1> QED  BY <1>2, <1>3, <1>4 DEF IInv

\* Refusals move their thread only.
LEMMA RefuseKeeps ==
  ASSUME IInv, NEW t \in Threads, RefuseFirst(t) \/ RefuseLocked(t)
  PROVE  IInv'
<1>1. /\ UNCHANGED <<sram, holder, call, base, reply>> /\ pc[t] = "begun"
      /\ pc' = [pc EXCEPT ![t] = "refused"]
  BY DEF RefuseFirst, RefuseLocked, To
<1>2. TypeInv'
  BY <1>1 DEF IInv, TypeInv, Labels, IsSettings
<1>3. LockInv' /\ CallInv'
  BY <1>1 DEF IInv, TypeInv, LockInv, CallInv, Holding, ChecksFirst, ConvertsLocked
<1>4. BaseInv'
  BY <1>1 DEF IInv, TypeInv, BaseInv, IsSettings
<1> QED  BY <1>2, <1>3, <1>4 DEF IInv

LEMMA LockKeeps ==
  ASSUME IInv, NEW t \in Threads, Lock(t)
  PROVE  IInv'
<1>1. /\ UNCHANGED <<sram, call, base, reply>> /\ pc[t] = "begun" /\ holder = None /\ holder' = t
      /\ pc' = [pc EXCEPT ![t] = "locked"] /\ ChecksFirst(call[t]) /\ ConvertsLocked(call[t])
  BY DEF Lock, To
<1>2. TypeInv'
  BY <1>1 DEF IInv, TypeInv, Labels, IsSettings
<1>3. LockInv'
  BY <1>1, SentinelsApart DEF IInv, TypeInv, LockInv, Holding
<1>4. CallInv'
  BY <1>1 DEF IInv, TypeInv, CallInv, Holding, ChecksFirst, ConvertsLocked
<1>5. BaseInv'
  BY <1>1 DEF IInv, TypeInv, BaseInv, IsSettings
<1> QED  BY <1>2, <1>3, <1>4, <1>5 DEF IInv

LEMMA FetchKeeps ==
  ASSUME IInv, NEW t \in Threads, Fetch(t)
  PROVE  IInv'
<1>1. /\ UNCHANGED <<sram, holder, call, reply>> /\ pc[t] = "locked"
      /\ base' = [base EXCEPT ![t] = sram] /\ pc' = [pc EXCEPT ![t] = "merging"]
  BY DEF Fetch, To
<1>2. TypeInv'
  BY <1>1 DEF IInv, TypeInv, Labels, IsSettings
<1>3. LockInv' /\ CallInv'
  BY <1>1 DEF IInv, TypeInv, LockInv, CallInv, Holding, ChecksFirst, ConvertsLocked
<1>4. BaseInv'
  BY <1>1 DEF IInv, TypeInv, BaseInv, IsSettings
<1> QED  BY <1>2, <1>3, <1>4 DEF IInv

\* A call that has the mutex writes some of its fields and gives it back.
LEMMA FinishKeeps ==
  ASSUME IInv, NEW t \in Threads, NEW l \in {"done", "failed"}, NEW S \in SUBSET NativeFields,
         pc[t] = "merging", sram' = Merged(base[t], Native(call[t]), S),
         Finish(t, l), UNCHANGED call, reply' = [u \in Threads |-> reply'[u]]
  PROVE  IInv'
<1>1. /\ holder' = None /\ base' = [base EXCEPT ![t] = None] /\ pc' = [pc EXCEPT ![t] = l]
  BY DEF Finish, To
<1>2. pc[t] \in Holding
  BY DEF Holding
<1>3. /\ Agree(Native(call[t]), Asked(call[t])) /\ \A u \in Threads \ {t} : pc[u] \notin Holding
      /\ IsSettings(sram) /\ \A f \in Settable : base[t][f] = sram[f]
  BY <1>2, Alone DEF IInv, TypeInv, BaseInv
<1>4. IsSettings(Merged(base[t], Native(call[t]), S))
  BY <1>3, MergedIs
<1>5. IsSettings(sram)'
  BY <1>4 DEF IsSettings
<1>6. TypeInv'
  BY <1>1, <1>5 DEF IInv, TypeInv, Labels, IsSettings
<1>7. LockInv'
  BY <1>1, <1>3, SentinelsApart DEF IInv, TypeInv, LockInv, Holding
<1>8. CallInv'
  BY <1>1 DEF IInv, TypeInv, CallInv, Holding, ChecksFirst, ConvertsLocked
<1>9. BaseInv'
  BY <1>1, <1>3 DEF IInv, TypeInv, BaseInv, Holding
<1> QED  BY <1>6, <1>7, <1>8, <1>9 DEF IInv

LEMMA StoreKeeps ==
  ASSUME IInv, NEW t \in Threads, Store(t)
  PROVE  IInv'
<1>1. /\ pc[t] = "merging" /\ Finish(t, "done") /\ UNCHANGED call
      /\ sram' = Merged(base[t], Native(call[t]), NativeFields)
      /\ reply' = [reply EXCEPT ![t] = IF call[t].op = "interruptFlag" THEN sram[Flag] ELSE None]
  BY DEF Store
<1>2. reply' = [u \in Threads |-> reply'[u]]
  BY <1>1 DEF IInv, TypeInv
<1> QED  BY <1>1, <1>2, FinishKeeps

LEMMA StoreFailsKeeps ==
  ASSUME IInv, NEW t \in Threads, StoreFails(t)
  PROVE  IInv'
<1>1. /\ pc[t] = "merging" /\ Finish(t, "failed") /\ UNCHANGED <<call, reply>>
      /\ \E S \in SUBSET NativeFields : sram' = Merged(base[t], Native(call[t]), S)
  BY DEF StoreFails, Writable
<1>2. PICK S \in SUBSET NativeFields : sram' = Merged(base[t], Native(call[t]), S)
  BY <1>1
<1>3. reply' = [u \in Threads |-> reply'[u]]
  BY <1>1 DEF IInv, TypeInv
<1> QED  BY <1>1, <1>2, <1>3, FinishKeeps

LEMMA ReturnKeeps ==
  ASSUME IInv, NEW t \in Threads, Return(t)
  PROVE  IInv'
<1>1. /\ UNCHANGED <<sram, holder, base>> /\ pc[t] \in {"done", "refused", "failed"}
      /\ pc' = [pc EXCEPT ![t] = "idle"] /\ call' = [call EXCEPT ![t] = None]
      /\ reply' = [reply EXCEPT ![t] = None]
  BY DEF Return, To
<1>2. TypeInv'
  BY <1>1 DEF IInv, TypeInv, Labels, IsSettings
<1>3. LockInv' /\ CallInv'
  BY <1>1 DEF IInv, TypeInv, LockInv, CallInv, Holding, ChecksFirst, ConvertsLocked
<1>4. BaseInv'
  BY <1>1 DEF IInv, TypeInv, BaseInv, IsSettings
<1> QED  BY <1>2, <1>3, <1>4 DEF IInv

\* The chip changes the flag, which no write back restores.
LEMMA EdgeKeeps == ASSUME IInv, Edge PROVE IInv'
<1>1. UNCHANGED <<holder, pc, call, base, reply>> /\ sram' = [sram EXCEPT ![Flag] = 1]
  BY DEF Edge
<1>2. \A f \in Settable : sram'[f] = sram[f]
  BY <1>1, Fields DEF IInv, TypeInv, IsSettings
<1>3. IsSettings(sram)'
  BY <1>1, AllowedAre DEF IInv, TypeInv, IsSettings
<1>4. TypeInv'
  BY <1>1, <1>3 DEF IInv, TypeInv
<1>5. LockInv' /\ CallInv'
  BY <1>1 DEF IInv, LockInv, CallInv, ChecksFirst, ConvertsLocked
<1>6. BaseInv'
  BY <1>1, <1>2 DEF IInv, BaseInv, IsSettings
<1> QED  BY <1>4, <1>5, <1>6 DEF IInv

LEMMA NextKeeps == IInv /\ [Next]_vars => IInv'
<1>1. ASSUME IInv, UNCHANGED vars PROVE IInv'
  BY <1>1 DEF vars, IInv, TypeInv, LockInv, CallInv, BaseInv, IsSettings, ChecksFirst, ConvertsLocked
<1> QED  BY <1>1, InvokeKeeps, RefuseKeeps, LockKeeps, FetchKeeps, StoreKeeps, StoreFailsKeeps,
            ReturnKeeps, EdgeKeeps DEF Next

\* The inductive invariant holds in every reachable state.
THEOREM SramInvariant == Spec => []IInv
  BY Initially, NextKeeps, PTL DEF Spec

\* The chip only ever has values it can have, never KEEP; the mutex is held
\* exactly by the thread inside the C library, and only that thread merges.
THEOREM SramTypes == Spec => []TypeOK
<1>1. ASSUME NEW s, IsSettings(s) PROVE s # None
  <2>1. s \in [ChipFields -> UNION {Allowed(f) : f \in ChipFields}]
    BY <1>1 DEF IsSettings
  <2> QED  BY <2>1, SettingsAllowed
<1>2. ASSUME IInv PROVE DOMAIN sram = ChipFields /\ \A f \in ChipFields : sram[f] \in Allowed(f)
  BY <1>2 DEF IInv, TypeInv, IsSettings
<1>3. ASSUME IInv, NEW t \in Threads
      PROVE  /\ pc[t] \in Labels /\ (call[t] = None <=> pc[t] = "idle")
             /\ holder = t <=> pc[t] \in Holding
             /\ base[t] # None <=> pc[t] = "merging"
  BY <1>1, <1>3 DEF IInv, TypeInv, LockInv, CallInv, BaseInv
<1>4. IInv => holder \in Threads \cup {None}
  BY DEF IInv, TypeInv
<1>5. IInv => TypeOK
  BY <1>2, <1>3, <1>4 DEF TypeOK, Labels, Holding
<1> QED  BY <1>5, SramInvariant, PTL

-----------------------------------------------------------------------------
(* SramSettings implements PartialUpdates: of the steps of a call, the one *)
(* that writes the chip is the update, and the steps before it, the read   *)
(* of the settings among them, are invisible.                              *)

\* The abstract variables, as ImplementsPartialUpdates maps them.
Pending  == {"begun", "locked", "merging"}
AskedBy  == [t \in Threads |-> IF call[t] = None THEN None ELSE Update(call[t])]
AnswerTo == [t \in Threads |-> IF pc[t] \in Pending THEN "pending" ELSE pc[t]]
ReplyTo  == [t \in Threads |-> IF pc[t] # "done" THEN None
                               ELSE IF call[t].op = "interruptFlag" THEN [f \in {Flag} |-> reply[t]]
                               ELSE [f \in {} |-> None]]

\* A legal update has the values of the request, at the fields that it sets.
LEMMA UpdateIs ==
  ASSUME NEW c \in Calls, Known(c)
  PROVE  /\ Update(c).legal = Known(c)
         /\ DOMAIN Update(c).sets = {f \in Settable : Native(c)[f] # KEEP}
                                      \cup {f \in {Flag} : Native(c)[Clear] = 1}
         /\ \A f \in Settable : Native(c)[f] # KEEP => Update(c).sets[f] = Native(c)[f]
         /\ Native(c)[Clear] = 1 => Update(c).sets[Flag] = 0
<1> DEFINE n == Native(c)
           A == Asked(c)
           sets == [f \in {a[1] : a \in A} |-> (CHOOSE a \in A : a[1] = f)[2]]
<1>1. Update(c).legal = Known(c) /\ Update(c).sets = sets
  BY DEF Update
<1>2. Agree(n, A) /\ Flag \notin Settable
  BY RequestAgrees, RefusesUnknown, Fields
<1>3. DOMAIN sets = {a[1] : a \in A}
  OBVIOUS
<1>4. ASSUME NEW a \in A PROVE sets[a[1]] = (CHOOSE b \in A : b[1] = a[1])[2]
  OBVIOUS
<1> HIDE DEF n, A, sets
<1>5. \A a, b \in A : a[1] = b[1] => a = b
  BY <1>2 DEF Agree
<1>6. \A a \in A : sets[a[1]] = a[2]
  <2> TAKE a \in A
  <2> DEFINE b == CHOOSE x \in A : x[1] = a[1]
  <2>1. b \in A /\ b[1] = a[1]
    OBVIOUS
  <2>2. b = a
    BY <2>1, <1>5
  <2> QED  BY <2>2, <1>4
<1>7. \A f \in Settable : n[f] # KEEP => <<f, n[f]>> \in A
  BY <1>2 DEF Agree
<1>8. n[Clear] = 1 => <<Flag, 0>> \in A
  BY <1>2 DEF Agree
<1>9. \A a \in A : \/ a[1] \in Settable /\ n[a[1]] # KEEP
                   \/ n[Clear] = 1 /\ a[1] = Flag
  BY <1>2 DEF Agree
<1>10. \A f \in Settable : n[f] # KEEP => sets[f] = n[f] /\ f \in DOMAIN sets
  <2> TAKE f \in Settable
  <2> DEFINE a == <<f, n[f]>>
  <2>1. a[1] = f /\ a[2] = n[f]
    OBVIOUS
  <2> HIDE DEF a
  <2>2. n[f] # KEEP => a \in A
    BY <1>7 DEF a
  <2> QED  BY <2>1, <2>2, <1>3, <1>6
<1>11. n[Clear] = 1 => sets[Flag] = 0 /\ Flag \in DOMAIN sets
  <2> DEFINE a == <<Flag, 0>>
  <2>1. a[1] = Flag /\ a[2] = 0
    OBVIOUS
  <2> HIDE DEF a
  <2>2. n[Clear] = 1 => a \in A
    BY <1>8 DEF a
  <2> QED  BY <2>1, <2>2, <1>3, <1>6
<1>12. DOMAIN sets = {f \in Settable : n[f] # KEEP} \cup {f \in {Flag} : n[Clear] = 1}
  BY <1>3, <1>9, <1>10, <1>11
<1> QED  BY <1>1, <1>10, <1>11, <1>12 DEF n

\* Writing back part of a request is part of the update, and no more.
LEMMA MergedUpdates ==
  ASSUME IInv, NEW t \in Threads, pc[t] = "merging", NEW S \in SUBSET NativeFields
  PROVE  LET u == Update(call[t])
             n == Native(call[t])
             R == {f \in Settable : f \in S /\ n[f] # KEEP} \cup {f \in {Flag} : Clear \in S /\ n[Clear] = 1}
         IN  /\ R \subseteq DOMAIN u.sets
             /\ S = NativeFields => R = DOMAIN u.sets
             /\ Merged(base[t], n, S) = Abstract!Override(sram, u.sets, R)
             /\ Merged(base[t], n, S)[Flag] = IF Clear \in S /\ n[Clear] = 1 THEN 0 ELSE sram[Flag]
<1> DEFINE c == call[t]
           u == Update(c)
           n == Native(c)
           R == {f \in Settable : f \in S /\ n[f] # KEEP} \cup {f \in {Flag} : Clear \in S /\ n[Clear] = 1}
           m == Merged(base[t], n, S)
<1>1. c \in Calls /\ Known(c) /\ Agree(n, Asked(c))
  BY Alone DEF Holding
<1>2. /\ DOMAIN u.sets = {f \in Settable : n[f] # KEEP} \cup {f \in {Flag} : n[Clear] = 1}
      /\ \A f \in Settable : n[f] # KEEP => u.sets[f] = n[f]
      /\ n[Clear] = 1 => u.sets[Flag] = 0
  BY <1>1, UpdateIs
<1>3. IsSettings(sram) /\ \A f \in Settable : base[t][f] = sram[f]
  BY DEF IInv, TypeInv, BaseInv
<1>4. /\ IsSettings(m) /\ m[Flag] = (IF Clear \in S /\ n[Clear] = 1 THEN 0 ELSE sram[Flag])
      /\ \A f \in Settable : m[f] = IF f \in S /\ n[f] # KEEP THEN n[f] ELSE sram[f]
  BY <1>1, <1>3, MergedIs
<1>5. ChipFields = Settable \cup {Flag} /\ NativeFields = Settable \cup {Clear} /\ Flag \notin Settable
  BY Fields
<1>6. m = [f \in ChipFields |-> m[f]] /\ DOMAIN sram = ChipFields
  BY <1>3, <1>4 DEF IsSettings
<1>7. Abstract!Override(sram, u.sets, R) = [f \in ChipFields |-> IF f \in R THEN u.sets[f] ELSE sram[f]]
  BY <1>6 DEF Abstract!Override
<1>8. R \subseteq DOMAIN u.sets /\ (S = NativeFields => R = DOMAIN u.sets)
  BY <1>2, <1>5
<1>9. /\ \A f \in Settable : f \in R <=> f \in S /\ n[f] # KEEP
      /\ Flag \in R <=> Clear \in S /\ n[Clear] = 1
  BY <1>5
<1> HIDE DEF u, n, m, R
<1>10. \A f \in ChipFields : m[f] = IF f \in R THEN u.sets[f] ELSE sram[f]
  BY <1>2, <1>4, <1>5, <1>9
<1>11. m = Abstract!Override(sram, u.sets, R)
  BY <1>6, <1>7, <1>10
<1> QED  BY <1>4, <1>8, <1>11 DEF u, n, m, R

\* What a thread's call looks like from outside.
LEMMA Seen ==
  ASSUME IInv, NEW t \in Threads, pc[t] # "idle"
  PROVE  /\ AskedBy[t] = Update(call[t]) /\ call[t] \in Calls
         /\ AskedBy[t].legal = Known(call[t])
         /\ AskedBy[t].reads = IF call[t].op = "interruptFlag" THEN {Flag} ELSE {}
<1>1. call[t] # None /\ call[t] \in Calls /\ AskedBy[t] = Update(call[t])
  BY DEF AskedBy, IInv, TypeInv, CallInv
<1> QED  BY <1>1 DEF Update

\* A step inside a call changes the answer and the reply of its thread only.
LEMMA Moves ==
  ASSUME IInv, NEW t \in Threads, NEW l, pc' = [pc EXCEPT ![t] = l], UNCHANGED call,
         \A u \in Threads \ {t} : reply'[u] = reply[u]
  PROVE  /\ AskedBy' = AskedBy
         /\ AnswerTo' = [AnswerTo EXCEPT ![t] = IF l \in Pending THEN "pending" ELSE l]
         /\ ReplyTo' = [ReplyTo EXCEPT ![t] = IF l # "done" THEN None
                          ELSE IF call[t].op = "interruptFlag" THEN [f \in {Flag} |-> reply'[t]]
                          ELSE [f \in {} |-> None]]
<1>1. /\ pc'[t] = l /\ call' = call
      /\ \A u \in Threads \ {t} : pc'[u] = pc[u] /\ reply'[u] = reply[u]
  BY DEF IInv, TypeInv
<1>2. AskedBy' = AskedBy
  BY <1>1 DEF AskedBy
<1>3. AnswerTo' = [AnswerTo EXCEPT ![t] = IF l \in Pending THEN "pending" ELSE l]
  BY <1>1 DEF AnswerTo, Pending
<1>4. ReplyTo' = [ReplyTo EXCEPT ![t] = IF l # "done" THEN None
                    ELSE IF call[t].op = "interruptFlag" THEN [f \in {Flag} |-> reply'[t]]
                    ELSE [f \in {} |-> None]]
  BY <1>1 DEF ReplyTo
<1> QED  BY <1>2, <1>3, <1>4

-----------------------------------------------------------------------------
(* One lemma per action *)

LEMMA InitMaps == Init => Abstract!Init
  BY DEF Init, Abstract!Init

LEMMA InvokeMaps ==
  ASSUME IInv, NEW t \in Threads, NEW c \in Calls, Invoke(t, c)
  PROVE  Abstract!Ask(t, Update(c))
<1>1. /\ UNCHANGED <<sram, reply>> /\ pc[t] = "idle" /\ pc' = [pc EXCEPT ![t] = "begun"]
      /\ call' = [call EXCEPT ![t] = c] /\ c # None
  BY SentinelsApart DEF Invoke, To
<1>2. AnswerTo[t] = "idle"
  BY <1>1 DEF AnswerTo, Pending
<1>3. AnswerTo' = [AnswerTo EXCEPT ![t] = "pending"]
  BY <1>1 DEF AnswerTo, Pending, IInv, TypeInv
<1>4. AskedBy' = [AskedBy EXCEPT ![t] = Update(c)]
  BY <1>1 DEF AskedBy, IInv, TypeInv
<1>5. \A u \in Threads : pc'[u] = "done" <=> pc[u] = "done"
  BY <1>1 DEF IInv, TypeInv
<1>6. \A u \in Threads : pc[u] = "done" => call'[u] = call[u]
  BY <1>1 DEF IInv, TypeInv
<1>7. ReplyTo' = ReplyTo
  BY <1>1, <1>5, <1>6 DEF ReplyTo
<1> QED  BY <1>1, <1>2, <1>3, <1>4, <1>7 DEF Abstract!Ask, AskedBy, AnswerTo, ReplyTo, Pending

LEMMA RefuseMaps ==
  ASSUME IInv, NEW t \in Threads, RefuseFirst(t) \/ RefuseLocked(t)
  PROVE  Abstract!Refuse(t)
<1>1. /\ UNCHANGED <<sram, call, reply>> /\ pc[t] = "begun" /\ pc' = [pc EXCEPT ![t] = "refused"]
      /\ ~(ChecksFirst(call[t]) /\ ConvertsLocked(call[t]))
  BY DEF RefuseFirst, RefuseLocked, To
<1>2. ~AskedBy[t].legal /\ AnswerTo[t] = "pending"
  BY <1>1, Seen, RefusesUnknown DEF AnswerTo, Pending
<1>3. /\ AskedBy' = AskedBy
      /\ AnswerTo' = [AnswerTo EXCEPT ![t] = "refused"] /\ ReplyTo' = [ReplyTo EXCEPT ![t] = None]
  BY <1>1, Moves DEF Pending
<1>4. ReplyTo[t] = None
  BY <1>1 DEF ReplyTo
<1>5. ReplyTo' = ReplyTo
  BY <1>3, <1>4 DEF ReplyTo
<1> QED  BY <1>1, <1>2, <1>3, <1>5 DEF Abstract!Refuse, AskedBy, AnswerTo, ReplyTo, Pending

\* Taking the mutex and reading the settings show nothing.
LEMMA InsideMaps ==
  ASSUME IInv, NEW t \in Threads, Lock(t) \/ Fetch(t)
  PROVE  UNCHANGED Abstract!vars
<1>1. /\ UNCHANGED <<sram, call, reply>> /\ pc[t] \in Pending
      /\ \E l \in Pending : pc' = [pc EXCEPT ![t] = l]
  BY DEF Lock, Fetch, To, Pending
<1>2. PICK l \in Pending : pc' = [pc EXCEPT ![t] = l]
  BY <1>1
<1>3. /\ AskedBy' = AskedBy
      /\ AnswerTo' = [AnswerTo EXCEPT ![t] = "pending"] /\ ReplyTo' = [ReplyTo EXCEPT ![t] = None]
  BY <1>1, <1>2, Moves DEF Pending
<1>4. AnswerTo[t] = "pending" /\ ReplyTo[t] = None
  BY <1>1 DEF AnswerTo, ReplyTo, Pending
<1>5. AnswerTo' = AnswerTo /\ ReplyTo' = ReplyTo
  <2>1. AnswerTo = [u \in Threads |-> AnswerTo[u]] /\ ReplyTo = [u \in Threads |-> ReplyTo[u]]
    BY DEF AnswerTo, ReplyTo
  <2> QED  BY <1>3, <1>4, <2>1
<1> QED  BY <1>1, <1>3, <1>5 DEF Abstract!vars, AskedBy, AnswerTo, ReplyTo, Pending

\* A call that merges is pending and legal.
LEMMA Merging ==
  ASSUME IInv, NEW t \in Threads, pc[t] = "merging"
  PROVE  /\ AskedBy[t] = Update(call[t]) /\ AskedBy[t].legal /\ AnswerTo[t] = "pending"
         /\ ReplyTo[t] = None
<1>1. Known(call[t])
  BY Alone DEF Holding
<1> QED  BY <1>1, Seen DEF AnswerTo, ReplyTo, Pending

LEMMA StoreMaps ==
  ASSUME IInv, NEW t \in Threads, Store(t)
  PROVE  Abstract!Apply(t)
<1> DEFINE c == call[t]
<1>1. /\ pc[t] = "merging" /\ pc' = [pc EXCEPT ![t] = "done"] /\ UNCHANGED call
      /\ sram' = Merged(base[t], Native(c), NativeFields)
      /\ reply' = [reply EXCEPT ![t] = IF c.op = "interruptFlag" THEN sram[Flag] ELSE None]
  BY DEF Store, Finish, To
<1>2. /\ reply'[t] = (IF c.op = "interruptFlag" THEN sram[Flag] ELSE None)
      /\ \A u \in Threads \ {t} : reply'[u] = reply[u]
  BY <1>1 DEF IInv, TypeInv
<1>3. /\ AskedBy' = AskedBy /\ AnswerTo' = [AnswerTo EXCEPT ![t] = "done"]
      /\ ReplyTo' = [ReplyTo EXCEPT ![t] = IF c.op = "interruptFlag" THEN [f \in {Flag} |-> reply'[t]]
                                           ELSE [f \in {} |-> None]]
  BY <1>1, <1>2, Moves DEF Pending
<1>4. /\ sram' = Abstract!Override(sram, Update(c).sets, DOMAIN Update(c).sets)
      /\ sram'[Flag] = IF Native(c)[Clear] = 1 THEN 0 ELSE sram[Flag]
  <2>1. Clear \in NativeFields
    BY Fields
  <2> QED  BY <1>1, <2>1, MergedUpdates
<1>5. AskedBy[t].reads = IF c.op = "interruptFlag" THEN {Flag} ELSE {}
  BY <1>1, Seen
<1>6. c.op = "interruptFlag" => sram'[Flag] = reply'[t]
  <2>1. c.op = "interruptFlag" => Native(c) = Nothing
    BY OtherAgrees DEF Methods
  <2>2. Nothing[Clear] # 1
    BY Fields, KeepNotAllowed DEF Nothing
  <2> QED  BY <1>2, <1>4, <2>1, <2>2
<1>7. (IF c.op = "interruptFlag" THEN [f \in {Flag} |-> reply'[t]] ELSE [f \in {} |-> None])
        = [f \in AskedBy[t].reads |-> sram'[f]]
  <2>1. CASE c.op = "interruptFlag"
    BY <2>1, <1>5, <1>6
  <2>2. CASE c.op # "interruptFlag"
    BY <2>2, <1>5
  <2> QED  BY <2>1, <2>2
<1>8. ReplyTo' = [ReplyTo EXCEPT ![t] = [f \in AskedBy[t].reads |-> sram'[f]]]
  BY <1>3, <1>7
<1>9. /\ AnswerTo[t] = "pending" /\ AskedBy[t].legal
      /\ sram' = Abstract!Override(sram, AskedBy[t].sets, DOMAIN AskedBy[t].sets)
  BY <1>1, <1>4, Merging
<1> QED  BY <1>3, <1>8, <1>9 DEF Abstract!Apply, AskedBy, AnswerTo, ReplyTo, Pending

LEMMA StoreFailsMaps ==
  ASSUME IInv, NEW t \in Threads, StoreFails(t)
  PROVE  Abstract!Fail(t)
<1> DEFINE c == call[t]
<1>1. /\ pc[t] = "merging" /\ pc' = [pc EXCEPT ![t] = "failed"] /\ UNCHANGED <<call, reply>>
      /\ \E S \in SUBSET NativeFields : sram' = Merged(base[t], Native(c), S)
  BY DEF StoreFails, Finish, To, Writable
<1>2. PICK S \in SUBSET NativeFields : sram' = Merged(base[t], Native(c), S)
  BY <1>1
<1>3. \E R \in SUBSET DOMAIN Update(c).sets : sram' = Abstract!Override(sram, Update(c).sets, R)
  BY <1>1, <1>2, MergedUpdates
<1>4. /\ AskedBy' = AskedBy
      /\ AnswerTo' = [AnswerTo EXCEPT ![t] = "failed"] /\ ReplyTo' = [ReplyTo EXCEPT ![t] = None]
  BY <1>1, Moves DEF Pending
<1>5. AskedBy[t] = Update(c) /\ AskedBy[t].legal /\ AnswerTo[t] = "pending" /\ ReplyTo[t] = None
  BY <1>1, Merging
<1>6. ReplyTo' = ReplyTo
  BY <1>4, <1>5 DEF ReplyTo
<1>7. \E R \in SUBSET DOMAIN AskedBy[t].sets : sram' = Abstract!Override(sram, AskedBy[t].sets, R)
  BY <1>3, <1>5
<1> QED  BY <1>4, <1>5, <1>6, <1>7 DEF Abstract!Fail, AskedBy, AnswerTo, ReplyTo, Pending

LEMMA ReturnMaps ==
  ASSUME IInv, NEW t \in Threads, Return(t)
  PROVE  Abstract!Return(t)
<1>1. /\ UNCHANGED sram /\ pc[t] \in {"done", "refused", "failed"} /\ pc' = [pc EXCEPT ![t] = "idle"]
      /\ call' = [call EXCEPT ![t] = None] /\ reply' = [reply EXCEPT ![t] = None]
  BY DEF Return, To
<1>2. AnswerTo[t] \in {"done", "refused", "failed"}
  BY <1>1 DEF AnswerTo, Pending
<1>3. AnswerTo' = [AnswerTo EXCEPT ![t] = "idle"]
  BY <1>1 DEF AnswerTo, Pending, IInv, TypeInv
<1>4. AskedBy' = [AskedBy EXCEPT ![t] = None]
  BY <1>1 DEF AskedBy, IInv, TypeInv
<1>5. /\ pc'[t] = "idle"
      /\ \A u \in Threads \ {t} : pc'[u] = pc[u] /\ reply'[u] = reply[u] /\ call'[u] = call[u]
  BY <1>1 DEF IInv, TypeInv
<1>6. ReplyTo' = [ReplyTo EXCEPT ![t] = None]
  BY <1>5 DEF ReplyTo
<1> QED  BY <1>1, <1>2, <1>3, <1>4, <1>6 DEF Abstract!Return, AskedBy, AnswerTo, ReplyTo, Pending

LEMMA EdgeMaps == ASSUME Edge PROVE Abstract!Latch
<1>1. UNCHANGED <<pc, call, reply>> /\ sram' = [sram EXCEPT ![Flag] = 1]
  BY DEF Edge
<1>2. AskedBy' = AskedBy /\ AnswerTo' = AnswerTo /\ ReplyTo' = ReplyTo
  BY <1>1 DEF AskedBy, AnswerTo, ReplyTo
<1> QED  BY <1>1, <1>2 DEF Abstract!Latch, AskedBy, AnswerTo, ReplyTo, Pending

LEMMA StutterMaps == ASSUME UNCHANGED vars PROVE UNCHANGED Abstract!vars
  BY DEF vars, Abstract!vars

-----------------------------------------------------------------------------

LEMMA StepMaps == IInv /\ [Next]_vars => [Abstract!Next]_(Abstract!vars)
<1> SUFFICES ASSUME IInv, [Next]_vars PROVE Abstract!Next \/ UNCHANGED Abstract!vars
  OBVIOUS
<1>1. ASSUME NEW t \in Threads, NEW c \in Calls, Invoke(t, c) PROVE Abstract!Next
  <2>1. Update(c) \in {Update(d) : d \in Calls}
    OBVIOUS
  <2> QED  BY <1>1, <2>1, InvokeMaps DEF Abstract!Next
<1>2. ASSUME NEW t \in Threads,
             RefuseFirst(t) \/ RefuseLocked(t) \/ Store(t) \/ StoreFails(t) \/ Return(t)
      PROVE  Abstract!Next
  BY <1>2, RefuseMaps, StoreMaps, StoreFailsMaps, ReturnMaps DEF Abstract!Next
<1>3. ASSUME NEW t \in Threads, Lock(t) \/ Fetch(t) PROVE UNCHANGED Abstract!vars
  BY <1>3, InsideMaps
<1>4. CASE Edge
  BY <1>4, EdgeMaps DEF Abstract!Next
<1>5. CASE UNCHANGED vars
  BY <1>5, StutterMaps
<1> QED  BY <1>1, <1>2, <1>3, <1>4, <1>5 DEF Next

\* Every configuring method, for any threads, pins and calls, is in effect
\* one atomic partial update: it sets exactly the fields the caller named to
\* what the caller meant, and is refused exactly when a value does not exist.
THEOREM SramAtomic == Spec => ImplementsPartialUpdates
  BY InitMaps, StepMaps, SramInvariant, PTL DEF Spec, ImplementsPartialUpdates, Abstract!Spec
=============================================================================
