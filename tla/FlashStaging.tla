---------------------------- MODULE FlashStaging ----------------------------
(***************************************************************************)
(* The settings the chip starts with.  Device stages USB settings in the   *)
(* C library's context, changes the runtime configuration in SRAM, saves   *)
(* both to flash and writes flash sections raw, from several threads.      *)
(* Saving is two flash writes, chip settings and then GP settings, and     *)
(* either may fail or be cut by an unplugged cable.  The chip then starts  *)
(* again from flash, and the program opens it again without what it had    *)
(* staged.                                                                 *)
(*                                                                         *)
(* The two sections hold versions of the runtime configuration; the chip   *)
(* section also holds the USB settings.  The C library is external, as     *)
(* Device.h:373-445 describes it.                                          *)
(***************************************************************************)
EXTENDS Naturals

CONSTANTS
  Threads,
  Fields,      \* the USB settings: remote wake-up, self-powered, current
  Calls,       \* records of op, field and value
  Factory,     \* the USB settings in flash at first, and in a raw section
  MaxVersion,  \* bound: how often the runtime configuration changes
  None

ASSUME BoundIsNat == MaxVersion \in Nat

\* Booleans are 0 and 1; a current is any unsigned.
ASSUME CallTypes ==
  \A c \in Calls : /\ c.op \in {"stage", "get", "configure", "writeFlash", "save"}
                   /\ c.field \in Fields /\ c.value \in Nat
                   /\ c.field # "current" => c.value \in {0, 1}

\* The chip stores a current in units of 2 mA.
ASSUME FactoryTypes ==
  /\ Factory \in [Fields -> 0..500]
  /\ "current" \in Fields => Factory["current"] % 2 = 0

ASSUME NoneApart == None \notin Threads /\ None \notin Calls /\ None \notin 0..500

VARIABLES
  staged,      \* the context's staged values, None where there is none
  flash,       \* usb settings, and the versions in the chip and gp sections
  run,         \* the versions the chip runs with
  link,        \* "open", or "dead" once the chip was unplugged
  holder, pc, call, reply,
  \* History:
  newest,      \* the newest version
  promised,    \* per field, the value the program was told it has
  unsaved,     \* the fields staged since the last good save
  excused      \* why the sections may differ: a save failed, the chip started
               \* from what it left, or a section was written raw

vars == <<staged, flash, run, link, holder, pc, call, reply, newest, promised, unsaved, excused>>
history == <<newest, promised, unsaved, excused>>

MaxUsbCurrentMa == 500

\* Mutant: the range is checked, the step of two is not.
AcceptsAnyStep(c) == c.op = "stage" /\ c.field = "current" => c.value <= MaxUsbCurrentMa

\* stageUsbRequestedCurrent checks its argument; nothing else is checked.
Accepts(c) ==
  c.op = "stage" /\ c.field = "current" => c.value <= MaxUsbCurrentMa /\ c.value % 2 = 0

\* The chip's USBREQCRT register counts in steps of 2 mA.
Encoded(f, v) == IF f = "current" THEN 2 * (v \div 2) ELSE v

\* A staged value takes precedence over the one in flash.
Effective(f) == IF staged[f] # None THEN staged[f] ELSE flash.usb[f]

To(t, label) == pc' = [pc EXCEPT ![t] = label]
Leave(t, label) == To(t, label) /\ holder' = None

-----------------------------------------------------------------------------

Invoke(t, c) ==
  /\ pc[t] = "idle"
  /\ call' = [call EXCEPT ![t] = c]
  /\ To(t, "begun")
  /\ UNCHANGED <<staged, flash, run, link, holder, reply, history>>

Refuse(t) ==
  /\ pc[t] = "begun" /\ ~Accepts(call[t])
  /\ To(t, "refused")
  /\ UNCHANGED <<staged, flash, run, link, holder, call, reply, history>>

\* Mutant: the lock_guard is missing.
LockMissing(t) ==
  /\ pc[t] = "begun" /\ Accepts(call[t])
  /\ To(t, call[t].op)
  /\ UNCHANGED <<staged, flash, run, link, holder, call, reply, history>>

Lock(t) ==
  /\ pc[t] = "begun" /\ Accepts(call[t]) /\ holder = None
  /\ holder' = t
  /\ To(t, call[t].op)
  /\ UNCHANGED <<staged, flash, run, link, call, reply, history>>

\* stageUsbRemoteWakeup, stageUsbSelfPowered, stageUsbRequestedCurrent.
Stage(t) ==
  LET f == call[t].field IN
  /\ pc[t] = "stage"
  /\ staged' = [staged EXCEPT ![f] = Encoded(f, call[t].value)]
  /\ promised' = [promised EXCEPT ![f] = call[t].value]
  /\ unsaved' = unsaved \cup {f}
  /\ Leave(t, "done")
  /\ UNCHANGED <<flash, run, link, call, reply, newest, excused>>

\* usbRemoteWakeup, usbSelfPowered, usbRequestedCurrent.
Get(t) ==
  LET f == call[t].field IN
  /\ pc[t] = "get" /\ (staged[f] # None \/ link = "open")
  /\ reply' = [reply EXCEPT ![t] = Effective(f)]
  /\ Leave(t, "done")
  /\ UNCHANGED <<staged, flash, run, link, call, history>>

\* Any of the methods that change the runtime configuration.
Configure(t) ==
  /\ pc[t] = "configure" /\ link = "open" /\ newest < MaxVersion
  /\ newest' = newest + 1
  /\ run' = [chip |-> newest', gp |-> newest']
  /\ Leave(t, "done")
  /\ UNCHANGED <<staged, flash, link, call, reply, promised, unsaved, excused>>

\* What the chip does with a flash write: a raw chip settings section, and
\* the two writes of a save.
WriteRaw ==
  /\ flash' = [flash EXCEPT !.usb = Factory, !.chip = 0]
  /\ promised' = [f \in Fields |-> IF f \in unsaved THEN promised[f] ELSE Factory[f]]
WriteChip ==
  /\ flash' = [flash EXCEPT !.usb = [f \in Fields |-> Effective(f)], !.chip = run.chip]
  /\ UNCHANGED promised
WriteGp ==
  /\ flash' = [flash EXCEPT !.gp = run.gp]
  /\ UNCHANGED promised

\* writeFlash of a whole chip settings section.
WriteFlash(t) ==
  /\ pc[t] = "writeFlash" /\ link = "open"
  /\ WriteRaw
  /\ excused' = TRUE
  /\ Leave(t, "done")
  /\ UNCHANGED <<staged, run, link, call, reply, newest, unsaved>>

\* saveConfigurationToFlash: the chip settings, then the GP settings.
SaveChip(t) ==
  /\ pc[t] = "save" /\ link = "open"
  /\ WriteChip
  /\ To(t, "saveGp")
  /\ UNCHANGED <<staged, run, link, holder, call, reply, newest, unsaved, excused>>

SaveGp(t) ==
  /\ pc[t] = "saveGp" /\ link = "open"
  /\ WriteGp
  /\ staged' = [f \in Fields |-> None]
  /\ unsaved' = {}
  /\ excused' = (run.chip # run.gp)
  /\ Leave(t, "done")
  /\ UNCHANGED <<run, link, call, reply, newest>>

Inside == {"stage", "get", "configure", "writeFlash", "save", "saveGp"}

\* A native call fails and the method throws; what was staged stays staged.
Fails(t) ==
  /\ pc[t] \in Inside
  /\ excused' = (excused \/ pc[t] = "saveGp")
  /\ Leave(t, "failed")
  /\ UNCHANGED <<staged, flash, run, link, call, reply, newest, promised, unsaved>>

\* A flash write takes effect and its answer is lost: the method throws all
\* the same.
AnswerLost(t) ==
  /\ link = "open"
  /\ \/ pc[t] = "writeFlash" /\ WriteRaw
     \/ pc[t] = "save" /\ WriteChip
     \/ pc[t] = "saveGp" /\ WriteGp
  /\ excused' = TRUE
  /\ Leave(t, "failed")
  /\ UNCHANGED <<staged, run, link, call, reply, newest, unsaved>>

Return(t) ==
  /\ pc[t] \in {"done", "refused", "failed"}
  /\ To(t, "idle")
  /\ call' = [call EXCEPT ![t] = None]
  /\ reply' = [reply EXCEPT ![t] = None]
  /\ UNCHANGED <<staged, flash, run, link, holder, history>>

\* The chip loses its power and starts again with what flash holds.
Unplug ==
  /\ link' = "dead"
  /\ run' = [chip |-> flash.chip, gp |-> flash.gp]
  /\ excused' = (excused \/ \E t \in Threads : pc[t] = "saveGp")
  /\ UNCHANGED <<staged, flash, holder, pc, call, reply, newest, promised, unsaved>>

\* The program closes the Device, when no method runs, and opens another.
Reopen ==
  /\ \A t \in Threads : pc[t] = "idle"
  /\ link' = "open"
  /\ staged' = [f \in Fields |-> None]
  /\ promised' = [f \in Fields |-> IF f \in unsaved THEN flash.usb[f] ELSE promised[f]]
  /\ unsaved' = {}
  /\ UNCHANGED <<flash, run, holder, pc, call, reply, newest, excused>>

Init ==
  /\ staged = [f \in Fields |-> None]
  /\ flash = [usb |-> Factory, chip |-> 0, gp |-> 0]
  /\ run = [chip |-> 0, gp |-> 0]
  /\ link = "open"
  /\ holder = None
  /\ pc = [t \in Threads |-> "idle"]
  /\ call = [t \in Threads |-> None]
  /\ reply = [t \in Threads |-> None]
  /\ newest = 0
  /\ promised = Factory
  /\ unsaved = {}
  /\ excused = FALSE

Next == \/ \E t \in Threads :
             \/ \E c \in Calls : Invoke(t, c)
             \/ Refuse(t) \/ Lock(t) \/ Stage(t) \/ Get(t) \/ Configure(t) \/ WriteFlash(t)
             \/ SaveChip(t) \/ SaveGp(t) \/ Fails(t) \/ AnswerLost(t)
             \/ Return(t)
        \/ Unplug \/ Reopen

Spec == Init /\ [][Next]_vars

-----------------------------------------------------------------------------
(* Properties *)

\* Type correctness; the mutex is held exactly by the thread inside a native
\* call, and what a method accepted can be stored in the chip's 2 mA steps.
TypeOK ==
  /\ \A f \in Fields : /\ staged[f] # None => staged[f] \in 0..MaxUsbCurrentMa
                       /\ flash.usb[f] \in 0..MaxUsbCurrentMa
                       /\ promised[f] \in Nat /\ Encoded(f, promised[f]) = promised[f]
  /\ {flash.chip, flash.gp, run.chip, run.gp, newest} \subseteq 0..MaxVersion
  /\ link \in {"open", "dead"} /\ unsaved \subseteq Fields /\ excused \in BOOLEAN
  /\ \A t \in Threads :
       /\ pc[t] \in Inside \cup {"idle", "begun", "refused", "done", "failed"}
       /\ call[t] \in Calls \cup {None} /\ (call[t] = None <=> pc[t] = "idle")
       /\ holder = t <=> pc[t] \in Inside

\* The getters (usbRemoteWakeup and its like) return the value staged last,
\* through saves that succeed, fail or are cut, unplugging and reopening; a
\* value is lost only when the Device is closed before a save succeeded.
EffectiveKept == \A f \in Fields : Effective(f) = promised[f]

\* The two sections hold the same runtime configuration unless a save failed
\* after one of its writes, the chip restarted from what that left, or a
\* section was written raw (the warning at saveConfigurationToFlash,
\* Device.h:376-379).
SectionsTogether == flash.chip = flash.gp \/ excused \/ \E t \in Threads : pc[t] = "saveGp"
=============================================================================
