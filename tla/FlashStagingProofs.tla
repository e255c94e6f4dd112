------------------------- MODULE FlashStagingProofs -------------------------
(***************************************************************************)
(* Proofs about FlashStaging, for any number of threads, calls, settings   *)
(* and versions: IInv is inductive and implies the three invariants the    *)
(* run checks.                                                             *)
(***************************************************************************)
EXTENDS FlashStaging, TLAPS

Amounts  == 0..500
Versions == 0..MaxVersion
Labels   == Inside \cup {"idle", "begun", "refused", "done", "failed"}

TypeInv ==
  /\ staged \in [Fields -> Amounts \cup {None}]
  /\ flash \in [usb : [Fields -> Amounts], chip : Versions, gp : Versions]
  /\ run \in [chip : Versions, gp : Versions]
  /\ link \in {"open", "dead"}
  /\ pc \in [Threads -> Labels] /\ call \in [Threads -> Calls \cup {None}]
  /\ newest \in Versions
  /\ promised \in [Fields -> Amounts] /\ unsaved \subseteq Fields /\ excused \in BOOLEAN

\* The mutex is held exactly by the thread inside a native call.
LockInv == \A t \in Threads : holder = t <=> pc[t] \in Inside

\* A call inside the library passed its check.
CallInv ==
  \A t \in Threads :
    /\ call[t] = None <=> pc[t] = "idle"
    /\ pc[t] = "stage" => call[t].op = "stage"
    /\ pc[t] \in Inside => Accepts(call[t])

\* Everything the chip is given it can store.
StoredInv == \A f \in Fields : /\ Encoded(f, promised[f]) = promised[f]
                               /\ Encoded(f, flash.usb[f]) = flash.usb[f]

\* What was staged and not saved is what the context holds.
StagedInv == \A f \in Fields : f \in unsaved <=> staged[f] # None

\* Between its two writes a save has put the effective values in flash, and
\* the version of the chip section, unless the chip has restarted since.
SaveInv ==
  \A t \in Threads : pc[t] = "saveGp" =>
    /\ \A f \in Fields : flash.usb[f] = promised[f]
    /\ link = "open" => flash.chip = run.chip

IInv == TypeInv /\ LockInv /\ CallInv /\ StoredInv /\ StagedInv /\ SaveInv
          /\ EffectiveKept /\ SectionsTogether

-----------------------------------------------------------------------------

\* An even current is stored as it is.
LEMMA EvenStored == ASSUME NEW v \in Nat, v % 2 = 0 PROVE 2 * (v \div 2) = v
  OBVIOUS

LEMMA AcceptedStored ==
  ASSUME NEW c \in Calls, c.op = "stage", Accepts(c)
  PROVE  c.value \in Amounts /\ Encoded(c.field, c.value) = c.value
<1>1. CASE c.field = "current"
  BY <1>1, CallTypes, EvenStored DEF Accepts, Amounts, Encoded, MaxUsbCurrentMa
<1>2. CASE c.field # "current"
  BY <1>2, CallTypes DEF Amounts, Encoded
<1> QED  BY <1>1, <1>2

LEMMA FactoryStored == \A f \in Fields : Encoded(f, Factory[f]) = Factory[f]
<1>1. ASSUME NEW f \in Fields, f = "current" PROVE Encoded(f, Factory[f]) = Factory[f]
  BY <1>1, FactoryTypes, EvenStored DEF Encoded
<1>2. ASSUME NEW f \in Fields, f # "current" PROVE Encoded(f, Factory[f]) = Factory[f]
  BY <1>2 DEF Encoded
<1> QED  BY <1>1, <1>2

LEMMA FirstValues == Factory \in [Fields -> Amounts] /\ 0 \in Versions
  BY FactoryTypes, BoundIsNat DEF Amounts, Versions

LEMMA Initially == Init => IInv
<1> SUFFICES ASSUME Init PROVE IInv
  OBVIOUS
<1>1. TypeInv
  <2>1. flash = [usb |-> Factory, chip |-> 0, gp |-> 0] /\ run = [chip |-> 0, gp |-> 0]
    BY DEF Init
  <2>2. /\ flash \in [usb : [Fields -> Amounts], chip : Versions, gp : Versions]
        /\ run \in [chip : Versions, gp : Versions]
    BY <2>1, FirstValues
  <2> QED  BY <2>2, FirstValues DEF Init, TypeInv, Labels
<1>2. LockInv /\ CallInv /\ SaveInv
  BY NoneApart DEF Init, LockInv, CallInv, SaveInv, Inside
<1>3. StoredInv /\ StagedInv /\ EffectiveKept /\ SectionsTogether
  BY FactoryStored DEF Init, StoredInv, StagedInv, EffectiveKept, SectionsTogether, Effective
<1> QED  BY <1>1, <1>2, <1>3 DEF IInv

\* The steps outside the library change only where a thread is.
LEMMA OutsideKeeps ==
  ASSUME IInv, NEW t \in Threads, (\E c \in Calls : Invoke(t, c)) \/ Refuse(t) \/ Return(t)
  PROVE  IInv'
<1>1. UNCHANGED <<staged, flash, run, link, holder, newest, promised, unsaved, excused>>
  BY DEF Invoke, Refuse, Return, history
<1>2. PICK l \in {"idle", "begun", "refused"} : pc' = [pc EXCEPT ![t] = l] /\ pc[t] \notin Inside
  BY DEF Invoke, Refuse, Return, To, Inside
<1>3. call' \in [Threads -> Calls \cup {None}] /\ CallInv'
  BY <1>2, NoneApart DEF IInv, TypeInv, CallInv, Invoke, Refuse, Return, To, Labels, Inside
<1>4. TypeInv'
  BY <1>1, <1>2, <1>3 DEF IInv, TypeInv, Labels
<1>5. LockInv' /\ SaveInv' /\ SectionsTogether'
  BY <1>1, <1>2 DEF IInv, TypeInv, LockInv, SaveInv, SectionsTogether, Inside
<1>6. StoredInv' /\ StagedInv' /\ EffectiveKept'
  BY <1>1 DEF IInv, StoredInv, StagedInv, EffectiveKept, Effective, Encoded
<1> QED  BY <1>3, <1>4, <1>5, <1>6 DEF IInv

LEMMA LockKeeps == ASSUME IInv, NEW t \in Threads, Lock(t) PROVE IInv'
<1>1. /\ UNCHANGED <<staged, flash, run, link, call, newest, promised, unsaved, excused>>
      /\ pc' = [pc EXCEPT ![t] = call[t].op] /\ holder' = t /\ holder = None
      /\ pc[t] = "begun" /\ Accepts(call[t])
  BY DEF Lock, history, To
<1>2. call[t] \in Calls
  BY <1>1 DEF IInv, TypeInv, CallInv
<1>3. call[t].op \in Inside \ {"saveGp"}
  BY <1>2, CallTypes DEF Inside
<1>4. TypeInv' /\ CallInv'
  BY <1>1, <1>2, <1>3 DEF IInv, TypeInv, CallInv, Labels, Inside
<1>5. LockInv' /\ SaveInv' /\ SectionsTogether'
  BY <1>1, <1>3, NoneApart DEF IInv, TypeInv, LockInv, SaveInv, SectionsTogether, Inside
<1>6. StoredInv' /\ StagedInv' /\ EffectiveKept'
  BY <1>1 DEF IInv, StoredInv, StagedInv, EffectiveKept, Effective, Encoded
<1> QED  BY <1>4, <1>5, <1>6 DEF IInv

-----------------------------------------------------------------------------
(* The steps inside the library *)

\* A thread leaving the library leaves no other one inside.
LEMMA LeaveKeeps ==
  ASSUME IInv, NEW t \in Threads, pc[t] \in Inside, UNCHANGED call,
         NEW l \in {"done", "failed"}, Leave(t, l)
  PROVE  /\ pc' \in [Threads -> Labels] /\ LockInv' /\ CallInv' /\ SaveInv'
         /\ \A u \in Threads : pc'[u] # "saveGp"
         /\ \A u \in Threads \ {t} : pc[u] # "saveGp"
<1>1. \A u \in Threads \ {t} : pc[u] \notin Inside
  BY DEF IInv, LockInv
<1>2. pc' = [pc EXCEPT ![t] = l] /\ holder' = None
  BY DEF Leave, To
<1>3. pc' \in [Threads -> Labels] /\ \A u \in Threads : pc'[u] \notin Inside
  BY <1>1, <1>2 DEF IInv, TypeInv, Labels, Inside
<1>4. LockInv'
  BY <1>2, <1>3, NoneApart DEF LockInv, Inside
<1>5. CallInv'
  BY <1>2, <1>3 DEF CallInv, IInv, TypeInv, Inside
<1> QED  BY <1>1, <1>3, <1>4, <1>5 DEF SaveInv, Inside

LEMMA StageKeeps == ASSUME IInv, NEW t \in Threads, Stage(t) PROVE IInv'
<1> DEFINE f == call[t].field
           v == call[t].value
<1>1. /\ pc[t] = "stage" /\ UNCHANGED <<flash, run, link, call, newest, excused>>
      /\ staged' = [staged EXCEPT ![f] = Encoded(f, v)]
      /\ promised' = [promised EXCEPT ![f] = v] /\ unsaved' = unsaved \cup {f}
  BY DEF Stage
<1>2. call[t] \in Calls /\ f \in Fields /\ v \in Amounts /\ Encoded(f, v) = v
  <2>1. call[t] \in Calls /\ call[t].op = "stage" /\ Accepts(call[t])
    BY <1>1 DEF IInv, TypeInv, CallInv, Inside
  <2> QED  BY <2>1, CallTypes, AcceptedStored
<1>3. /\ pc' \in [Threads -> Labels] /\ LockInv' /\ CallInv' /\ SaveInv'
      /\ \A u \in Threads : pc[u] # "saveGp"
  BY <1>1, LeaveKeeps DEF Stage, Inside
<1> HIDE DEF f, v
<1>4. TypeInv'
  BY <1>1, <1>2, <1>3 DEF IInv, TypeInv
<1>5. StagedInv' /\ EffectiveKept'
  BY <1>1, <1>2, NoneApart DEF IInv, TypeInv, StagedInv, EffectiveKept, Effective, Amounts
<1>6. StoredInv'
  BY <1>1, <1>2 DEF IInv, TypeInv, StoredInv, Encoded
<1>7. SectionsTogether'
  BY <1>1, <1>3 DEF IInv, SectionsTogether
<1> QED  BY <1>3, <1>4, <1>5, <1>6, <1>7 DEF IInv

LEMMA ReadOrConfigureKeeps ==
  ASSUME IInv, NEW t \in Threads, Get(t) \/ Configure(t)
  PROVE  IInv'
<1>1. /\ pc[t] \in {"get", "configure"} /\ UNCHANGED <<staged, flash, link, call, promised, unsaved, excused>>
      /\ Leave(t, "done")
  BY DEF Get, Configure, history
<1>2. /\ pc' \in [Threads -> Labels] /\ LockInv' /\ CallInv' /\ SaveInv'
      /\ \A u \in Threads : pc[u] # "saveGp"
  BY <1>1, LeaveKeeps DEF Inside
<1>3. newest' \in Versions /\ run' \in [chip : Versions, gp : Versions]
  BY BoundIsNat DEF IInv, TypeInv, Get, Configure, history, Versions
<1>4. TypeInv'
  BY <1>1, <1>2, <1>3 DEF IInv, TypeInv
<1>5. StoredInv' /\ StagedInv' /\ EffectiveKept' /\ SectionsTogether'
  BY <1>1, <1>2 DEF IInv, StoredInv, StagedInv, EffectiveKept, Effective, Encoded, SectionsTogether
<1> QED  BY <1>2, <1>4, <1>5 DEF IInv

\* A raw write, whether its answer arrives or not.
LEMMA WriteRawKeeps ==
  ASSUME IInv, NEW t \in Threads, pc[t] = "writeFlash", WriteRaw, excused' = TRUE,
         NEW l \in {"done", "failed"}, Leave(t, l),
         UNCHANGED <<staged, run, link, call, newest, unsaved>>
  PROVE  IInv'
<1>1. /\ pc[t] = "writeFlash" /\ UNCHANGED <<staged, run, link, call, newest, unsaved>>
      /\ flash' = [flash EXCEPT !.usb = Factory, !.chip = 0] /\ excused' = TRUE
      /\ promised' = [f \in Fields |-> IF f \in unsaved THEN promised[f] ELSE Factory[f]]
  BY DEF WriteRaw
<1>2. pc' \in [Threads -> Labels] /\ LockInv' /\ CallInv' /\ SaveInv'
  BY <1>1, LeaveKeeps DEF Inside
<1>3. TypeInv'
  <2>1. flash' = [usb |-> Factory, chip |-> 0, gp |-> flash.gp] /\ flash.gp \in Versions
    BY <1>1 DEF IInv, TypeInv
  <2>2. flash' \in [usb : [Fields -> Amounts], chip : Versions, gp : Versions]
    BY <2>1, FirstValues
  <2>3. promised' \in [Fields -> Amounts]
    BY <1>1, FirstValues DEF IInv, TypeInv
  <2> QED  BY <1>1, <1>2, <2>2, <2>3 DEF IInv, TypeInv
<1>4. flash'.usb = Factory
  BY <1>1 DEF IInv, TypeInv
<1>5. StoredInv'
  BY <1>1, <1>4, FactoryStored DEF IInv, StoredInv, Encoded
<1>6. StagedInv' /\ EffectiveKept' /\ SectionsTogether'
  BY <1>1, <1>4 DEF IInv, StagedInv, EffectiveKept, Effective, SectionsTogether
<1> QED  BY <1>2, <1>3, <1>5, <1>6 DEF IInv

LEMMA WriteFlashKeeps == ASSUME IInv, NEW t \in Threads, WriteFlash(t) PROVE IInv'
  BY WriteRawKeeps DEF WriteFlash

\* What the first write of a save leaves in flash.
LEMMA ChipWritten ==
  ASSUME IInv, WriteChip
  PROVE  /\ flash'.usb = promised /\ flash'.chip = run.chip /\ flash'.gp = flash.gp
         /\ flash' \in [usb : [Fields -> Amounts], chip : Versions, gp : Versions]
<1>1. [f \in Fields |-> Effective(f)] = promised
  BY DEF IInv, TypeInv, EffectiveKept
<1>2. flash' = [usb |-> promised, chip |-> run.chip, gp |-> flash.gp]
  BY <1>1 DEF WriteChip, IInv, TypeInv
<1>3. promised \in [Fields -> Amounts] /\ run.chip \in Versions /\ flash.gp \in Versions
  BY DEF IInv, TypeInv
<1> QED  BY <1>2, <1>3

\* The first write of a save: the thread stays inside.
LEMMA SaveChipKeeps == ASSUME IInv, NEW t \in Threads, SaveChip(t) PROVE IInv'
<1>1. /\ pc[t] = "save" /\ UNCHANGED <<staged, run, link, holder, call, newest, promised, unsaved, excused>>
      /\ pc' = [pc EXCEPT ![t] = "saveGp"]
  BY DEF SaveChip, WriteChip, To
<1>2. /\ flash'.usb = promised /\ flash'.chip = run.chip /\ flash'.gp = flash.gp
      /\ flash' \in [usb : [Fields -> Amounts], chip : Versions, gp : Versions]
  BY ChipWritten DEF SaveChip
<1>3. TypeInv'
  <2>1. pc' \in [Threads -> Labels]
    BY <1>1 DEF IInv, TypeInv, Labels, Inside
  <2> QED  BY <1>1, <1>2, <2>1 DEF IInv, TypeInv
<1>4. LockInv' /\ CallInv'
  BY <1>1 DEF IInv, TypeInv, LockInv, CallInv, Inside
<1>5. SaveInv' /\ SectionsTogether'
  BY <1>1, <1>2 DEF IInv, TypeInv, SaveInv, SectionsTogether
<1>6. StoredInv' /\ StagedInv' /\ EffectiveKept'
  BY <1>1, <1>2 DEF IInv, StoredInv, StagedInv, EffectiveKept, Effective, Encoded
<1> QED  BY <1>3, <1>4, <1>5, <1>6 DEF IInv

\* The second write: nothing is staged any more, and flash has it all.
LEMMA SaveGpKeeps == ASSUME IInv, NEW t \in Threads, SaveGp(t) PROVE IInv'
<1>1. /\ pc[t] = "saveGp" /\ link = "open" /\ UNCHANGED <<run, link, call, newest, promised>>
      /\ flash' = [flash EXCEPT !.gp = run.gp] /\ staged' = [f \in Fields |-> None]
      /\ unsaved' = {} /\ excused' = (run.chip # run.gp)
  BY DEF SaveGp, WriteGp
<1>2. pc' \in [Threads -> Labels] /\ LockInv' /\ CallInv' /\ SaveInv'
  BY <1>1, LeaveKeeps DEF SaveGp, Inside
<1>3. flash'.usb = flash.usb /\ flash'.chip = flash.chip /\ flash'.gp = run.gp
  BY <1>1 DEF IInv, TypeInv
<1>4. (\A f \in Fields : flash.usb[f] = promised[f]) /\ flash.chip = run.chip
  BY <1>1 DEF IInv, SaveInv
<1>5. TypeInv'
  BY <1>1, <1>2 DEF IInv, TypeInv
<1>6. StoredInv' /\ StagedInv' /\ EffectiveKept'
  BY <1>1, <1>3, <1>4 DEF IInv, StoredInv, StagedInv, EffectiveKept, Effective, Encoded
<1>7. SectionsTogether'
  BY <1>1, <1>3, <1>4 DEF SectionsTogether
<1> QED  BY <1>2, <1>5, <1>6, <1>7 DEF IInv

LEMMA FailsKeeps == ASSUME IInv, NEW t \in Threads, Fails(t) PROVE IInv'
<1>1. /\ pc[t] \in Inside /\ UNCHANGED <<staged, flash, run, link, call, newest, promised, unsaved>>
      /\ excused' = (excused \/ pc[t] = "saveGp") /\ Leave(t, "failed")
  BY DEF Fails
<1>2. /\ pc' \in [Threads -> Labels] /\ LockInv' /\ CallInv' /\ SaveInv'
      /\ \A u \in Threads \ {t} : pc[u] # "saveGp"
  BY <1>1, LeaveKeeps
<1>3. TypeInv'
  BY <1>1, <1>2 DEF IInv, TypeInv
<1>4. StoredInv' /\ StagedInv' /\ EffectiveKept'
  BY <1>1 DEF IInv, StoredInv, StagedInv, EffectiveKept, Effective, Encoded
<1>5. SectionsTogether'
  BY <1>1, <1>2 DEF IInv, SectionsTogether
<1> QED  BY <1>2, <1>3, <1>4, <1>5 DEF IInv

\* A write that took effect without the program hearing of it: what was
\* staged still is, and says the same as the flash.
LEMMA AnswerLostKeeps == ASSUME IInv, NEW t \in Threads, AnswerLost(t) PROVE IInv'
<1>1. /\ pc[t] \in {"writeFlash", "save", "saveGp"} /\ excused' = TRUE /\ Leave(t, "failed")
      /\ UNCHANGED <<staged, run, link, call, newest, unsaved>>
  BY DEF AnswerLost
<1>2. CASE pc[t] = "writeFlash"
  BY <1>1, <1>2, WriteRawKeeps DEF AnswerLost
<1>3. CASE pc[t] = "save" \/ pc[t] = "saveGp"
  <2>1. /\ promised' = promised
        /\ flash'.usb \in {flash.usb, promised}
        /\ flash' \in [usb : [Fields -> Amounts], chip : Versions, gp : Versions]
    <3>1. CASE pc[t] = "save"
      BY <3>1, ChipWritten DEF AnswerLost, WriteChip
    <3>2. CASE pc[t] = "saveGp"
      <4>1. promised' = promised /\ flash' = [flash EXCEPT !.gp = run.gp]
        BY <3>2 DEF AnswerLost, WriteGp
      <4> QED  BY <4>1 DEF IInv, TypeInv
    <3> QED  BY <1>3, <3>1, <3>2
  <2>2. pc' \in [Threads -> Labels] /\ LockInv' /\ CallInv' /\ SaveInv'
    BY <1>1, LeaveKeeps DEF Inside
  <2>3. TypeInv'
    BY <1>1, <2>1, <2>2 DEF IInv, TypeInv
  <2>4. StoredInv' /\ StagedInv'
    BY <1>1, <2>1 DEF IInv, StoredInv, StagedInv, Encoded
  <2>5. EffectiveKept' /\ SectionsTogether'
    BY <1>1, <2>1 DEF IInv, EffectiveKept, Effective, SectionsTogether
  <2> QED  BY <2>2, <2>3, <2>4, <2>5 DEF IInv
<1> QED  BY <1>1, <1>2, <1>3

-----------------------------------------------------------------------------
(* The chip and the program restart *)

LEMMA UnplugKeeps == ASSUME IInv, Unplug PROVE IInv'
<1>1. /\ UNCHANGED <<staged, flash, holder, pc, call, newest, promised, unsaved>>
      /\ link' = "dead" /\ run' = [chip |-> flash.chip, gp |-> flash.gp]
      /\ excused' = (excused \/ \E t \in Threads : pc[t] = "saveGp")
  BY DEF Unplug
<1>2. TypeInv'
  BY <1>1 DEF IInv, TypeInv
<1>3. LockInv' /\ CallInv' /\ SaveInv' /\ SectionsTogether'
  BY <1>1 DEF IInv, LockInv, CallInv, SaveInv, SectionsTogether, Accepts
<1>4. StoredInv' /\ StagedInv' /\ EffectiveKept'
  BY <1>1 DEF IInv, StoredInv, StagedInv, EffectiveKept, Effective, Encoded
<1> QED  BY <1>2, <1>3, <1>4 DEF IInv

LEMMA ReopenKeeps == ASSUME IInv, Reopen PROVE IInv'
<1>1. /\ UNCHANGED <<flash, run, holder, pc, call, newest, excused>> /\ link' = "open"
      /\ staged' = [f \in Fields |-> None] /\ unsaved' = {} /\ \A t \in Threads : pc[t] = "idle"
      /\ promised' = [f \in Fields |-> IF f \in unsaved THEN flash.usb[f] ELSE promised[f]]
  BY DEF Reopen
<1>2. TypeInv'
  BY <1>1 DEF IInv, TypeInv
<1>3. LockInv' /\ CallInv' /\ SaveInv' /\ SectionsTogether'
  BY <1>1 DEF IInv, LockInv, CallInv, SaveInv, SectionsTogether, Accepts
<1>4. StoredInv' /\ StagedInv' /\ EffectiveKept'
  BY <1>1 DEF IInv, StoredInv, StagedInv, EffectiveKept, Effective, Encoded
<1> QED  BY <1>2, <1>3, <1>4 DEF IInv

LEMMA StutterKeeps == ASSUME IInv, UNCHANGED vars PROVE IInv'
<1>1. TypeInv' /\ LockInv' /\ CallInv' /\ SaveInv' /\ SectionsTogether'
  BY DEF IInv, vars, TypeInv, LockInv, CallInv, SaveInv, SectionsTogether, Accepts
<1>2. StoredInv' /\ StagedInv' /\ EffectiveKept'
  BY DEF IInv, vars, StoredInv, StagedInv, EffectiveKept, Effective, Encoded
<1> QED  BY <1>1, <1>2 DEF IInv

LEMMA NextKeeps == IInv /\ [Next]_vars => IInv'
  BY OutsideKeeps, LockKeeps, StageKeeps, ReadOrConfigureKeeps, WriteFlashKeeps, SaveChipKeeps,
     SaveGpKeeps, FailsKeeps, AnswerLostKeeps, UnplugKeeps, ReopenKeeps, StutterKeeps DEF Next

\* The inductive invariant holds in every reachable state.
THEOREM StagingInvariant == Spec => []IInv
  BY Initially, NextKeeps, PTL DEF Spec

\* Every variable keeps its type, the mutex is held exactly inside the
\* library, and what was accepted can be stored in the chip's 2 mA steps.
THEOREM StagingTypes == Spec => []TypeOK
<1>1. IInv => TypeOK
  <2> SUFFICES ASSUME IInv PROVE TypeOK
    OBVIOUS
  <2>1. \A f \in Fields : /\ staged[f] # None => staged[f] \in 0..MaxUsbCurrentMa
                          /\ flash.usb[f] \in 0..MaxUsbCurrentMa
                          /\ promised[f] \in Nat /\ Encoded(f, promised[f]) = promised[f]
    <3> SUFFICES ASSUME NEW f \in Fields
                 PROVE  /\ staged[f] # None => staged[f] \in 0..MaxUsbCurrentMa
                        /\ flash.usb[f] \in 0..MaxUsbCurrentMa
                        /\ promised[f] \in Nat /\ Encoded(f, promised[f]) = promised[f]
      OBVIOUS
    <3>1. /\ staged[f] \in Amounts \cup {None} /\ flash.usb[f] \in Amounts
          /\ promised[f] \in Amounts /\ Encoded(f, promised[f]) = promised[f]
      BY DEF IInv, TypeInv, StoredInv
    <3> QED  BY <3>1 DEF Amounts, MaxUsbCurrentMa
  <2>2. {flash.chip, flash.gp, run.chip, run.gp, newest} \subseteq 0..MaxVersion
    BY DEF IInv, TypeInv, Versions
  <2>3. \A t \in Threads : /\ pc[t] \in Labels /\ call[t] \in Calls \cup {None}
                           /\ (call[t] = None <=> pc[t] = "idle")
                           /\ holder = t <=> pc[t] \in Inside
    BY DEF IInv, TypeInv, LockInv, CallInv
  <2> QED  BY <2>1, <2>2, <2>3 DEF TypeOK, IInv, TypeInv, Labels
<1> QED  BY <1>1, StagingInvariant, PTL

\* The getters return what was staged last, through saves that succeed, fail
\* or are cut, whatever the threads do at the same time.
THEOREM StagedValuesKept == Spec => []EffectiveKept
  BY StagingInvariant, PTL DEF IInv

\* The two flash sections part only for the reasons Device.h names.
THEOREM SectionsStayTogether == Spec => []SectionsTogether
  BY StagingInvariant, PTL DEF IInv
=============================================================================
