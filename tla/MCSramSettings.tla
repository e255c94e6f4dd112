--------------------------- MODULE MCSramSettings ---------------------------
(* Instances of SramSettings for TLC: the calls the threads may make.       *)
EXTENDS SramSettings, TLC

MCPins == {"GP0", "GP1"}

Default ==
  [f \in ChipFields |->
     CASE f[2] = "function" -> IF f[1] = "GP0" THEN "GPIO" ELSE "DEDICATED"
       [] f[2] = "direction" -> "IN"
       [] f[2] = "vrm"     -> "OFF"
       [] f[2] = "ref_src" -> "VDD"
       [] f[2] = "div"     -> "12MHz"
       [] f[2] = "duty"    -> 50
       [] f = <<"dac", "value">> -> 8
       [] OTHER            -> 0]
MCPowerUp == {Default}

Engaged(f, v) == [x \in {f} |-> v]
Sram(config) == [op |-> "configureSram", config |-> config]
Entry(function, high) == [function |-> function, outputValue |-> high]

\* The pins: every method that reaches them, with arguments it must refuse.
PinCalls ==
  {Sram(Engaged(<<"GP1", "function">>, "Gpio") @@ Engaged(<<"GP1", "direction">>, "Output")),
   Sram(Engaged(<<"GP0", "function">>, "Bogus")),
   [op |-> "configurePins", entries |-> [p \in MCPins |-> IF p = "GP0" THEN Entry(KEEP, FALSE)
                                                          ELSE Entry("GpioOutput", TRUE)]],
   [op |-> "configurePins", entries |-> [p \in MCPins |-> Entry(KEEP, p = "GP1")]],
   [op |-> "configurePins", entries |-> [p \in MCPins |-> Entry("GpioInput", p = "GP1")]],
   [op |-> "configurePins", entries |-> [p \in {"GP1"} |-> Entry("Bogus", FALSE)]],
   [op |-> "setPinFunction", pin |-> "GP0", function |-> "Alt1"],
   [op |-> "setPinFunction", pin |-> "GP9", function |-> "Alt1"],
   [op |-> "writeGpio", values |-> [p \in MCPins |-> p = "GP0"]]}

\* The ADC and DAC references by both ways, and the DAC value.
ReferenceCalls ==
  {Sram(Engaged(<<"adc", "reference">>, r)) : r \in {"Internal1V024", "Bogus"}}
  \cup {Sram(Engaged(<<"dac", "reference">>, "Vdd") @@ Engaged(<<"dac", "value">>, n)) : n \in {5, 32}}
  \cup {[op |-> "configureAdc", reference |-> "Vdd"], [op |-> "configureDac", reference |-> "Bogus"],
        [op |-> "configureDac", reference |-> "Off"],
        [op |-> "configureDacCode", reference |-> "Internal2V048", code |-> 32],
        [op |-> "configureDacCode", reference |-> "Internal2V048", code |-> 31]}

\* The interrupt flag, which the chip sets by itself, and the clock.
InterruptCalls ==
  {Sram(Engaged(Clear, b) @@ Engaged(<<"int", "pos_edge">>, TRUE)) : b \in BOOLEAN}
  \cup {[op |-> "configureInterrupt", edge |-> e] : e \in {"Falling", "Bogus"}}
  \cup {[op |-> "interruptFlag"], [op |-> "clearInterruptFlag"], [op |-> "writeDacRaw", code |-> 32],
        Sram(Engaged(<<"clk", "duty">>, "Percent75")),
        [op |-> "configureClock", duty |-> "Percent0", frequency |-> "MHz1_5"],
        [op |-> "configureClock", duty |-> "Bogus", frequency |-> "MHz24"]}

\* Analog and interrupt settings do not meet in the chip: the instance of both
\* changes one kind or the other, never the one after the other.
AnalogAndInterruptCalls == ReferenceCalls \cup InterruptCalls
Untouched(groups) == \A f \in ChipFields : f[1] \in groups => sram[f] = Default[f]
Making(calls) == \A t \in Threads : call[t] \in calls \cup {None}
OneKind == \/ Making(ReferenceCalls) /\ Untouched({"int", "clk"})
           \/ Making(InterruptCalls) /\ Untouched({"adc", "dac"})

Symmetry == Permutations(Threads)
=============================================================================
