# A TLA+ model of libeasymcp2221++

libeasymcp2221++ is a C++17 adapter over the C library libeasymcp2221, which drives the
MCP2221 USB-to-I2C/GPIO bridge. The C library does the protocol; the C++ layer adds
ownership, a mutex per device, checked arguments, typed values, exceptions and an optional
Qt layer. These modules model that layer: what it does with handles, locks, objects and
events, in every order in which threads and event receivers can use it.

Paths below are relative to the repository (`src/` of the library and so on).

## 1. The system

| Component | State | Operations | Hard behaviour |
|---|---|---|---|
| `Device` (`src/Device.cpp`, `src/detail/DeviceState.*`) | `shared_ptr<DeviceState>`; the state holds the native handle and a mutex | construct, close, move, destroy, factories for children, about forty locked operations | last-owner close across threads, failing constructors, exceptions under the lock |
| `I2cDevice`, `SmbusDevice` | `shared_ptr` to a child state: a share of the device and a C struct with a raw handle pointer | copy, move, destroy, locked transfers | copies share one struct; `mcp2221_smbus_close` runs outside the mutex |
| `GpioPoller` (`src/GpioPoller.cpp`) | `unique_ptr` to a child state: a share of the device, the last snapshot, the filter | move, `setFilter`, `poll`, `pollEvents` | each successful poll advances the snapshot, also when its events are discarded or refused |
| `qt::GpioMonitor` (`src/qt/GpioMonitor.cpp`) | a timer, a poller, an event limit | `start`, `stop`, `pollOnce`, setters; signals | signals are direct calls: receivers may call back, poll again or use the device |
| Runtime configuration (`src/Device.cpp`, `Types.h`) | the chip's SRAM | ten methods that change part of it | what a caller left out must survive two threads' read-merge-write cycles |
| I2C transfers (`Device`, `I2cDevice`, `SmbusDevice`) | the bus and its targets | transfers of one and of two parts | raw two-call sequences can be cut by another thread |
| Flash and USB settings (`src/Device.cpp`) | staged values in the C context, flash | stage, get, save, write | a save is two writes; unplugging; saves racing with staging |
| Error translation (`src/Error.cpp`) | none | code to exception | which failures throw before, under and after the lock; one ErrorCode per C code |
| Value translation (`src/Device.cpp`, `Types.h`) | none | enums, sentinels, ranges | boundary values, a KEEP for every disengaged field |
| Qt byte wrappers (`src/qt/I2c.cpp`, `Smbus.cpp`) | none | size checks | integer widths, null pointers for empty arrays |

Interactions: every public operation goes `requireOpen`/`requireState`, argument checks, lock,
one native call, unlock, result or exception. All objects made from one `Device` share one
`DeviceState`, so one mutex and one handle. The monitor calls its poller, the poller locks the
device, and the monitor's receivers may call any of them.

Correct means, for each part:

* **Device and children**: one native call at a time per handle; no call, lock or wait on a
  closed handle; each handle closed exactly once, when its last owner goes; no object reaches a
  half-initialised device; every lock is released on every path.
* **Poller and monitor**: no event is lost, doubled or reordered except for the documented
  reasons; receivers run without the lock; the loop comes back; errors do not end monitoring.
* **Runtime configuration**: a call is a partial update. It sets what it names to what the
  caller means by it, in one step, and nothing else; it is refused without effect exactly when
  a value does not exist.
* **I2C transfers**: a register read returns that register's value whatever other threads do;
  a raw NoStop / RepeatedStart pair does so unless another call came between.
* **Flash and USB settings**: a staged value is in force until it is saved or the Device is
  closed; the two flash sections agree except for the documented reasons.
* **Arguments and errors**: nothing that passes the checks is cut on its way to the chip, a
  refusal means that nothing was sent, and an exception tells which failure it was.

## 2. Modules

| Module | Role |
|---|---|
| `SerializedHandle` | abstract: the life a native handle is promised (opened, guarded, held, released, closed; one call at a time) |
| `DeviceLifetime` | detailed: threads, objects, shared states, the mutex and the native calls; refines `SerializedHandle` |
| `DeviceLifetimeProofs` | the inductive invariant of `DeviceLifetime` and its safety theorems |
| `DeviceRefinementProofs` | the proof that `DeviceLifetime` implements `SerializedHandle` |
| `GpioPolling` | the poller: snapshot, filter, the batches a poll may return |
| `GpioMonitor` | the monitor in its event loop, on top of `GpioPolling`, with a competing thread |
| `GpioChanges` | `GpioPoller::poll()` with several threads on one poller, on top of `GpioPolling` |
| `PartialUpdates` | abstract: what configuring something promises (named settings change at one moment, the rest stays) |
| `SramSettings` | detailed: the configuring methods, their translations, the C library's read-merge-write; refines `PartialUpdates` |
| `I2cTransfers` | detailed: adapters and raw transfers of several threads on one target; refines `PartialUpdates` |
| `FlashStaging` | staged USB settings, saves, raw flash writes, unplugging and reopening |
| `Requests` | one call through the API: Qt conversions, argument checks, protocol fields, answers, exceptions |
| `GpioMonitorProofs`, `GpioChangesProofs` | the inductive invariants of `GpioMonitor` and `GpioChanges` and their theorems |
| `SramSettingsProofs`, `I2cTransfersProofs` | the inductive invariants of `SramSettings` and `I2cTransfers`, and that both implement `PartialUpdates` |
| `FlashStagingProofs` | the inductive invariant of `FlashStaging` and its theorems |
| `RequestsProofs` | the inductive invariant of `Requests` and its theorems |
| `MC*` | small instances for TLC |

Definitions whose comment begins with `Mutant:` are deliberately wrong versions of the
definition that follows. Nothing uses them; substituted for the right one, each makes a
property fail, which shows that the property depends on that piece of code.

### DeviceLifetime

State: `opened`, `closes` (the C library's view of each handle), `mutex`, `setup` (how far the
constructor got), `root[o]` (`Device::state_`), `adapter[a]` (the `state_` of an I2cDevice,
SmbusDevice or GpioPoller), `kind`, `device`, `mcp` (a child state: its class, its
`shared_ptr<DeviceState>` and the raw pointer in the C struct), and per thread `pc`, `obj`,
`dev`, `kid`, `tgt`. A `DeviceState`'s use count is not a counter: `Owners(d)` is the set of
those that hold it (Devices, children, a constructor's local), and "the last one" is
`Owners(d) = {x}`; likewise `Holders(c)` for children. Testing and giving up a share is one
step because `shared_ptr` decrements atomically.

One action per step between which another thread may run:

* constructor: `Open` (handleGuard owns the handle), `AllocFails` or `Adopt`, `CtorLock`,
  `SafeSpeed`, `TargetSpeed`; `CtorThrows` and `CtorUnwind` on failure;
* a method: `BeginCall`, `Lock`, `EnterNative`, `LeaveNative`; `RejectLocked` when a conversion
  inside the lock scope throws. The three object classes share them, since they share the
  protocol; `HandleOf` says which pointer each passes;
* factories: `BeginFactory`, then `Lock`, `EnterNative` and `InitOk`, `InitFails` or
  `InitIgnored`; `NewPoller` takes no lock;
* `Copy`, `Move`, `Drop`, `CloseRoot`, `MoveRoot`, and the destructor steps `SmbusClose`,
  `FreeKid`, `CloseNative`.

`Unused(t, o)` is the rule C++ imposes on the program: an object that is assigned, moved from,
closed or destroyed is not in use by another thread at that moment. Concurrent *use* of one
object, and concurrent destruction of different objects that share a device, are allowed.
Handles are never reused (a handle is an identity); child storage is.

`TargetSpeed` makes a Device usable by everybody in the step that ends its constructor, which is
when C++ does; nobody can reach it before. `ReachableIsReady` is therefore about finished objects:
a constructor that returned has applied both speeds. `I2cDevice::address()` is no action. It reads
`slave.addr` without the mutex, but nothing in this library writes that byte after `slave_init`, so it changes no
state and races with nothing; `StructExclusive` speaks of native calls and destruction only.

### GpioPolling and GpioMonitor

`level` is what a read of each pin gives (-1: not a GPIO), `snap` the poller's snapshot,
`filter` its mask. `Batches(limit)` is what one poll may return: the accepted edges, in any
order, cut to `Capacity(limit)`; which ones are kept is the C library's choice and is left open.
`stack` holds the calls of the loop thread: `pollOnce` waiting for the lock or in the native
call, or a signal being emitted. A receiver runs while a signal is on top and may push another
call. `seen` and `heard` are what a receiver of `gpioEvent`, and one of `risingEdge` and
`fallingEdge`, believe. `doubt` is history: the pins on which an edge was filtered, discarded,
refused, overtaken by a nested poll, or not an edge (-1). `PollRefused` may also end a first poll:
then the snapshot exists and no receiver knows of it, so all pins are in doubt until their next edge.

The code can throw only `Error` or `std::exception` from `pollEvents`; exceptions thrown by a
receiver are outside Qt's contract and not modelled.

### PartialUpdates, SramSettings and I2cTransfers

`PartialUpdates` is the promise both share: `Ask`, then `Refuse`, `Apply` or `Fail`, then
`Return`. `Apply` changes everything a call names in one step and nothing else; `Fail` may have
changed some of it. `Latch` is the one change nobody asked for.

In `SramSettings` a chip field is a pair such as `<<"GP0", "direction">>` or `<<"dac", "value">>`.
The translations (`toNativePinFunction`, `applyAdcReference` and so on) are functions from the
enumerators to native constants, which are named by what they mean to the chip; an enumerator
outside the domain is one that no `case` matches, and the code throws. `SramRequest`,
`PinsRequest` and `GpioRequest` build the native structs, with `KEEP` in each disengaged field.
A call goes `Invoke`, `RefuseFirst` or `RefuseLocked`, or `Lock`, `Fetch` (the C library reads),
`Store` or `StoreFails` (it writes everything or a part), `Return`. Reading and writing are
two steps so that the mutex has something to do. The refinement compares that with `Update`, which
says in the terms of `Types.h`, and without the translations, what a call means.

How the C library merges (`Merged`, `Selected`, `PinEffect`, `Writable`) is external and modelled
from the names and the documentation of the calls: fields other than KEEP are written, a GPIO
write to a pin that is no GPIO fails, and the interrupt flag is not written but cleared. Two of these are assumptions that the repository cannot confirm: that the string
`"VDD"` keeps the internal voltage as the struct form does (`Selected`), and that a configuration
which fails leaves each field it names either old or new (`StoreFails`). `Device.h` mentions a
workaround for reference transitions; an intermediate reference it may leave when it fails half-way
is not modelled.

In `I2cTransfers` a target has registers and a register pointer. `BusWrite` sets the pointer,
`BusRead` reads where it points; methods with both parts do them under one lock. At a STOP the
target's pointer may become any register, since targets differ. `selected` and `crossed` are
history: the register a thread's own NoStop write named, and whether another thread has locked
the device since. Registers abstract from byte contents: one value stands for a transfer's data, and
the data that `processCall` and `blockProcessCall` send before they read is left out. Widths and byte
orders that name nothing throw under the lock; that path is `RejectLocked` in `DeviceLifetime`.

### FlashStaging

`staged` is what the C context holds, `flash` the USB settings and, for each of the two
sections, the version of the runtime configuration saved last; `run` the versions the chip runs
with. `Stage`, `Get`, `Configure`, `WriteFlash` and the two steps of a save, `SaveChip` and
`SaveGp`, run under the mutex and may fail (`Fails`). A flash write may also take effect and fail all
the same because its answer is lost (`AnswerLost`). `Unplug` may happen at any moment, also
between the two writes: the chip starts again from flash, and until `Reopen` only what is staged
can be read. `promised`, `unsaved` and `excused` are history. A flash
write happens as a whole or not at all; a section that is half written is not modelled.
The order of the writes, what stays staged, and that a staged value takes precedence are from
`Device.h:373-445`.

### GpioChanges

Up to three threads poll one `GpioPoller`. `PollOk` samples under the mutex; `Deliver` hands the
converted result over after the unlock, so results may overtake each other; `Refused` is the
`Protocol` error, after which the changes are gone. `view` is what a receiver who applies every
change believes; it notices a change that does not start from what it believes. `excused` holds
the pins on which it noticed one, or on which a change was lost. `PollEvents` is the other method
on the same poller, also as the first to take a snapshot.

### Requests

One call at a time: `Ask`; `QtRefuses` or `Convert` (sizes become `size_t`, an empty
`QByteArray` a null pointer for `I2cDevice` and an empty vector for `SmbusDevice`, an interval an
`int`); `Refuse` or `Pass`; `NativeOk` or `NativeFails`, the latter not for `setInterval`, which
only sets a timer. Constructing a Device passes through `Released`, the native call whose failure is
discarded (`Device.cpp:364`); `FailuresTold` is about the calls that the code checks. The
other argument checks are modelled with their methods: transfer kinds in `I2cTransfers`, DAC codes
and enumerators of a configuration in `SramSettings`, the USB current in `FlashStaging`;
`RefusedUntouched` does not speak of those. `sent` is what the protocol carries: `OnWire` and `AddressByte` cut to the width
of the field, so that a check that is too lenient shows. `toErrorCode` is the table of
`Error.cpp`.

## 3. Runs

| Run | Instance | Shows |
|---|---|---|
| `lifetime` | 3 threads, 2 Devices, 3 adapters, 2 handles, 2 children, symmetric | the ten invariants of `DeviceLifetime` |
| `lifetime_refines` | 2 threads, 2 Devices, 2 adapters, 2 handles, 2 children | `DeviceLifetime` implements `SerializedHandle` |
| `lifetime_fair` | the same with 1 child, weak fairness | mutexes are released; handles settle |
| `monitor` | 2 pins with levels -1, 0, 1; limits 1 and 4; no filter, or rising edges of one pin; call-backs one deep; pins symmetric | `InStep`, `NoLockInSignals` |
| `monitor_wide` | 4 pins, levels 0 and 1, limits 4 and 9, no call-backs | the four-event buffer is large enough |
| `monitor_fair` | 1 pin, limits 0 and 4, call-backs one deep, fairness | the loop returns; levels arrive |
| `sram_pins` | 2 threads, 2 pins, nine calls that reach pins, some of them to be refused | pin configuration is a partial update; KEEP never reaches the chip |
| `sram_analog` | 2 threads, nine calls for ADC and DAC or twelve for interrupt, clock and DAC code | the same for references and DAC, and for the flag the chip latches |
| `i2c_transfers` | 2 threads, 2 registers of which one is a status register, all transfer kinds | register calls are atomic; a raw pair is whole unless crossed |
| `flash_staging` | 2 threads, 2 USB settings, two changes of the configuration | staged values are kept; sections agree |
| `gpio_changes` | 3 threads, 1 pin with levels -1, 0, 1 | a receiver is in step or notices |
| `requests` | every method and Qt wrapper, sizes around each limit, all errors | nothing is cut; refusals send nothing; errors are told apart |

Bounds. Two handles let objects move between devices and an address of one be confused with
the other; three threads let one hold, one wait and one destroy; two children let storage be
reused while another child lives; three adapters let two share a child while the third goes.
`MaxDepth` bounds how deeply receivers call back; one level is enough for a nested poll to
overtake an outer batch, and each emission's receiver calls back at most once (`called`).
Two pins are the fewest for one event to wait while another is signalled; four are all there
are. `Finished` is the quiet state in which every handle of the instance was opened and
closed; apart from it TLC checks for deadlock.

Two threads are enough for the newer modules, since each of their hazards is one call coming
between the steps of another; `GpioChanges` has a third so that a result can be overtaken twice.
`MaxVersion` = 2 lets the sections hold two different versions, both other than the first.
`SizeMax` and `IntMax` are narrower than in a program but wider than every limit the code
compares with; the theorems hold for any width. In `gpio_changes` the first result is taken by
one thread alone: it is the state a receiver starts from, not a change. `OneKind` keeps
`sram_analog` small: analog settings and interrupt settings have no field in common, so the
instance changes one kind or the other. The theorem `SramAtomic` has no such limit.

Fairness. `FairSpec` of `DeviceLifetime` has weak fairness for the steps of an operation a
thread has begun: threads are scheduled, native calls return (they have USB timeouts).
Nothing must ever begin, and a waiting thread has no claim on the mutex: `std::mutex` is not
fair, so that a waiter gets it is *not* assumed and not claimed. `FairSpec` of `GpioMonitor`
has weak fairness for the loop's own steps and the other thread's unlock, and strong fairness
for the timer, which Qt's dispatcher serves in every iteration. `LoopReturns` and
`LevelsArrive` are conditional on the other thread leaving the mutex in the end, for the same
reason.

What `InStep` says about nested polls: a receiver that calls `pollOnce()` from inside
`gpioEvent` gets newer events before the rest of the older batch, and may be left with the
wrong level until the next edge of that pin. The model counts this as `doubt`; it is a property
of direct signals a user has to know.

Excuses. Some hazards are behaviour the code has, not behaviour it avoids; the properties except
them by name and show that nothing else goes wrong. `InStep` excepts edges that a small limit, a
refused poll or a nested poll hid; `PairReadsOwn` a pair of raw transfers that another thread
crossed; `RefusedUntouched` the SMBus block of a refused length; `EffectiveKept` and
`SectionsTogether` what `Device.h` warns of. `LevelsArrive` supposes that the monitor stays active
and that polls succeed: it would not show a timer that an error stopped, nor does it exclude that a
waiter starves.

## 4. What is proved

TLAPS proves, for every set of threads, Devices, adapters, handles and children, that
`DeviceLifetime`'s `Spec` implies each invariant of the run `lifetime` (`TypeOK`,
`NativeCallsSerialized`, `LockedDeviceIsCalled`, `NoUseAfterClose`, `HandleOwned`, `ChildOwned`,
`AdapterReachesItsDevice`, `StructExclusive`, `PollerSole`, `ReachableIsReady`; theorems
`TypeCorrect` to `ReachablesReady`) and the property of `lifetime_refines` (`Refinement`:
`Spec => ImplementsHandle`). The only assumption is `SortsDistinct`: threads, Devices,
adapters and children are told apart, and none is the null pointer. Nothing is assumed finite.

The inductive invariant is `IInv`. The properties are not inductive by themselves. For example,
`NativeCallsSerialized` needs that the mutex of a device is held exactly by the thread at a
locked label (`LockInv`) and that the pointer a thread passes is that of the device it locked
(`ThreadInv`, which in turn needs `ChildInv`: the pointer C stored is the child's device).
`NoUseAfterClose` needs that what a call holds on to stays reachable from its object while it
waits (`ThreadInv`), that what is reachable is open (`SharedInv`), and that a destructor is
alone with its handle (`SoleInv`). `HandleOwned` needs `HandleKept`, and that needs
`ChildKept` and `KidInv`: a handle is not lost because its children are not.

| Conjunct | Says |
|---|---|
| `LockInv` | the mutex is held exactly by the thread inside its lock scope |
| `ThreadInv` | what a thread remembers agrees with the objects it works on |
| `CtorInv` | constructors under way construct different objects |
| `SoleInv` | a constructor, guard or destructor is alone with its handle |
| `SharedInv` | what a Device or child reaches is open and set up |
| `ChildInv` | a child in use has a device, and an adapter's child is complete |
| `KidInv` | a child held by a thread is nowhere else |
| `HandleKept`, `ChildKept` | no open handle and no child in use is forgotten |
| `ClosesInv` | a handle is closed at most once, and not before it is opened |

`InitInvariant`, one lemma per action (`OpenPreserves` to `CloseNativePreserves`),
`StartPreserves` and `ContinuePreserves` give `NextPreserves` and with it `Invariant`; a lemma
has one step per conjunct its action can disturb and one for all the others. The refinement
has the same shape: one lemma per action (`OpenMaps` and so on) says which abstract step it is,
in a state that satisfies `IInv`, or that nothing visible changes.

About `Requests`, `RequestsProofs` proves `NothingTruncated`, `RefusedUntouched` and `FailuresTold`
for every set of requests and answers and every width of `size_t` and `int` (theorems
`NoTruncation`, `RefusalsUntouched`, `FailuresIdentified`). The assumption `RequestTypes` gives
the C++ types: addresses are bytes, sizes of direct calls are `size_t`, and Qt's are signed. The
inductive invariant adds to the three properties that conversion keeps the size (`Kept`) and that
whatever is in a native call was accepted; `FitsWire` then says that an accepted size fits its
field, and `CodesApart` that the error table is injective apart from `Generic`.

About `FlashStaging`, `FlashStagingProofs` proves `TypeOK`, `EffectiveKept` and
`SectionsTogether` (theorems `StagingTypes`, `StagedValuesKept`, `SectionsStayTogether`) for every
set of threads, settings and calls and every `MaxVersion`. Assumed are `CallTypes` (a call names
an operation, a setting and a C++ value), `FactoryTypes` (a new chip holds what it can store:
an even current of at most 500 mA), `NoneApart` and `BoundIsNat`. `EffectiveKept` is inductive only with
`StagedInv` (a setting is staged exactly while a save has yet to store it) and `StoredInv`
(what was promised survives the chip's 2 mA steps, which is where the check for odd currents
counts: `EvenStored`). `SectionsTogether` needs `SaveInv`, what the first of a save's two writes
leaves for the second.

About `I2cTransfers`, `I2cTransfersProofs` proves `TypeOK` and `PairReadsOwn` (theorems
`TransfersTypes`, `UncrossedPairs`) and the refinement (`TransfersAtomic`:
`Spec => RegistersAtomic`), for every set of threads, registers, values and calls. Assumed are
`CallTypes`, `NoneApart` and `StatusIsARegister`. The argument is that whoever is on the bus has
crossed everybody else (`CrossedInv`), so the pointer stays where an uncrossed NoStop write put
it (`PointerInv`); and that a register read, alone on the bus, finds the pointer at its own
register (`ExchangeInv`). In the refinement the step that gives the mutex back is the abstract
`Apply` or `Fail`; the lock and the first half of an exchange change nothing visible. `Kinds`
says which transfer kinds `toNativeTransfer` accepts, and so which calls are refused.

About `SramSettings`, `SramSettingsProofs` proves `TypeOK` (`SramTypes`) and the refinement
(`SramAtomic`: `Spec => ImplementsPartialUpdates`), for every set of threads, pins and calls.
Assumed are `SentinelsApart`, `CallsTyped` and `SettingsAllowed`. `CallsTyped` is what C++ lets a
program pass: the fields of the structs in `Types.h`, booleans, unsigned codes, and for each
enumeration one of its own enumerators or a cast number that names none (`OfType`: an enumerator
of another enumeration does not compile). `SettingsAllowed` says that the chip starts with
settings it can have and that `KEEP` is no setting. The proof has two halves:

* about the translations, without any state: `RequestAgrees` says that the native request of a
  call which passes the checks sets exactly the fields the call names, to what the names mean in
  `Types.h` (`Agree`), with one lemma per method; `RefusesUnknown` says that the checks before
  the lock and the conversions under it refuse exactly the calls with a value that does not
  exist. These are where a wrong table entry, a forgotten KEEP or a missing range check would show;
* about the steps: `BaseInv` (what the C library read is still what the chip has, apart from the
  flag) is inductive because `LockInv` keeps everybody else out, and the flag is not written
  back (`MergedIs`). `MergedUpdates` then says that a write back of all or part of a request is
  `Override` with all or part of the update. `Store` and `StoreFails` are the abstract
  `Apply` and `Fail`; `Lock` and `Fetch` change nothing visible.

About `GpioMonitor`, `GpioMonitorProofs` proves `TypeOK`, `NoLockInSignals`, `InStep` and
`NothingDiscarded` (`MonitorTypes`, `MonitorLock`, `MonitorInStep`, `MonitorDiscardsNothing`) for
any filters and limits, any levels and any `MaxDepth` of receivers calling back. Assumed are
`PollingConstants` and `MonitorConstants` (the types of the constants), and `PinsFit`: there are
at most four pins, as `enum class Pin` in `Types.h` has it. `PinsFit` is what makes the four-event array
large enough. `InStep` is not inductive: it says nothing of the batches on the stack. `NewsInv`
does. An event still to be signalled, by whichever call on the stack, tells the snapshot's
level of its pin, unless a nested poll put the pin in `doubt`; so the receiver that hears it is
in step again. It needs that a batch has each pin once, that every call below the innermost is
emitting a signal (`StackInv`), and that there are no events before the first snapshot (`FirstInv`).

About `GpioChanges`, `GpioChangesProofs` proves `ChangesInStep` (`ChangesArrive`) for any number of
threads, with the assumption `ChangesConstants`. `BalanceInv` is the argument: results may be
delivered in any order, so no order can be an invariant, but a number can. For each pin and
level, the changes under way that leave the level, plus one if the snapshot has it, are as many as
those that reach it, plus one if the receiver believes it. A delivery that starts from what the
receiver believes keeps the balance; any other is noticed, and excused. When nothing is under way
the balance says that the receiver believes the snapshot.

Only model-checked are the liveness properties `MutexReleased`, `HandleSettles`, `LoopReturns` and
`LevelsArrive`, which rest on fairness and `ENABLED`, out of the prover's reach. Every other
property of every run is also a theorem.

## 5. What is not modelled, and the plan

Not modelled:

* what is inside the C library: its USB protocol, its retries and timeouts, how it drives the bus
  speed per target, and what it does with a register number wider than its width. The library
  is not in this repository;
* methods that pass one number on without a check or a translation: `setI2cSpeed`, `setVdd`,
  `vdd`, the ADC reads, `writeDacNormalized`, `writeDacVolts`, `sendFlashPassword`. What they
  have in common, the lock and the error path, is in `DeviceLifetime`;
* `i2cStatus`, `flashInfo` and `flashSettings`, which copy a struct field by field, and the
  effect of `rawCommand` on the chip, which may be anything;
* byte contents, message texts, `GpioEvent::id`, time stamps, timer periods;
* `Interop.h`, build, packaging and examples.

What is left to prove are safety facts that no run states yet: the step-by-step part of the
liveness arguments (which steps a lock holder still has before it, and that nothing takes them
away), and what `PartialUpdates` and `SerializedHandle` themselves guarantee their users.
