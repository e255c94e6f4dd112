--------------------------- MODULE DeviceLifetime ---------------------------
(***************************************************************************)
(* The life of native MCP2221 handles under the C++ objects that share     *)
(* them.  A Device (a "root") owns a DeviceState by shared_ptr; an         *)
(* I2cDevice, SmbusDevice or GpioPoller (an "adapter") owns a child state, *)
(* and the child state owns the DeviceState.  Every method locks the       *)
(* DeviceState's mutex around its native call.  Threads make, copy, move,  *)
(* use and destroy these objects concurrently.                             *)
(*                                                                         *)
(* A thread moves between labels (pc).  A label is a place where another   *)
(* thread may run: before the mutex, while it is held, inside the native   *)
(* call, and between the steps of a destructor or of stack unwinding.      *)
(* Failures that change nothing (a validation error, a bad_alloc before    *)
(* anything is acquired, a failing open) are the stuttering steps.         *)
(***************************************************************************)
EXTENDS Integers, FiniteSets

CONSTANTS
  Thread,    \* the program's threads
  Root,      \* Device objects
  Adapter,   \* I2cDevice, SmbusDevice and GpioPoller objects
  State,     \* DeviceState objects, one per native handle ever opened
  Child,     \* storage of the adapters' shared states, reused once freed
  Nil        \* the null pointer

\* The five sorts are different things and none of them is a null pointer.
ASSUME SortsDistinct ==
  /\ Nil \notin Thread \cup Root \cup Adapter \cup State \cup Child
  /\ Root \cap Adapter = {}
  /\ Root \cap Child = {}
  /\ Root \cap Thread = {}
  /\ Child \cap Thread = {}

VARIABLES
  opened,    \* the handles mcp2221_open_scan has returned
  closes,    \* closes[d]: how often mcp2221_close was called on d
  mutex,     \* mutex[d]: the thread holding DeviceState::mutex_
  setup,     \* setup[d]: how far the constructor's I2C set-up has come
  root,      \* root[o]: Device::state_
  adapter,   \* adapter[a]: the child an adapter's state_ points to
  kind,      \* kind[c]: which child state class lives in c, or "free"
  device,    \* device[c]: the child's shared_ptr<DeviceState>
  mcp,       \* mcp[c]: the raw handle pointer inside slave / bus
  pc,        \* pc[t]: where thread t is
  obj,       \* obj[t]: the object whose method t runs
  dev,       \* dev[t]: the DeviceState t refers to
  kid,       \* kid[t]: the child t alone holds (a local, or being destroyed)
  tgt        \* tgt[t]: the handle passed to the native call

handles  == <<opened, closes, mutex, setup>>
children == <<kind, device, mcp>>
threads  == <<pc, obj, dev, kid, tgt>>
vars     == <<handles, root, adapter, children, threads>>

Object == Root \cup Adapter
Kinds  == {"i2c", "smbus", "poller"}

\* The labels at which the thread is inside a lock_guard's scope.
LockedLabels == {"ctorSafe", "ctorTarget", "locked", "native"}
\* The labels at which the constructor's local shared_ptr owns the state.
CtorLabels   == {"ctorLock", "ctorSafe", "ctorTarget", "unwind"}
\* The labels at which a public method or factory is under way.
CallLabels   == {"lock", "locked", "native"}
Labels       == {"idle", "guarded", "dtorKid", "freeKid", "dtor"}
                  \cup CtorLabels \cup CallLabels

-----------------------------------------------------------------------------
\* The shared_ptrs that own d: its control block's use count as a set.
Owners(d) == {o \in Root : root[o] = d}
               \cup {c \in Child : device[c] = d}
               \cup {t \in Thread : pc[t] \in CtorLabels /\ dev[t] = d}

\* The adapters that own child c.
Holders(c) == {a \in Adapter : adapter[a] = c}

\* What an object's state_ leads to; Nil when requireOpen/requireState throw.
DeviceOf(o) == IF o \in Root THEN root[o]
               ELSE IF adapter[o] = Nil THEN Nil ELSE device[adapter[o]]

\* Which class of object o is.
ClassOf(o) == IF o \in Root THEN "device" ELSE kind[adapter[o]]

\* The handle a method of o passes to the C library: Device and GpioPoller
\* pass DeviceState::handle(), the others the pointer stored by ..._init.
HandleOf(o) ==
  IF ClassOf(o) \in {"device", "poller"} THEN DeviceOf(o) ELSE mcp[adapter[o]]

\* C++'s rule for objects without a lock of their own: one that is assigned,
\* moved from, closed or destroyed is not in use by another thread.
Unused(t, o) == \A u \in Thread \ {t} : obj[u] # o

Goto(t, label) == pc' = [pc EXCEPT ![t] = label]
Return(t) == /\ Goto(t, "idle")
             /\ obj' = [obj EXCEPT ![t] = Nil]
             /\ dev' = [dev EXCEPT ![t] = Nil]
Unlock(t) == mutex' = [mutex EXCEPT ![dev[t]] = Nil]

-----------------------------------------------------------------------------
(* Device::Device *)

\* mcp2221_open_scan succeeded: handleGuard, a unique_ptr, owns the handle.
Open(t, o, d) ==
  /\ pc[t] = "idle" /\ root[o] = Nil /\ Unused(t, o) /\ d \notin opened
  /\ opened' = opened \cup {d}
  /\ Goto(t, "guarded")
  /\ obj' = [obj EXCEPT ![t] = o]
  /\ dev' = [dev EXCEPT ![t] = d]
  /\ UNCHANGED <<closes, mutex, setup, root, adapter, children, kid, tgt>>

\* Mutant: no guard, so the handle is forgotten.
AllocFailsLeak(t) ==
  /\ pc[t] = "guarded"
  /\ Return(t)
  /\ UNCHANGED <<handles, root, adapter, children, kid, tgt>>

\* make_shared<DeviceState> threw: the guard closes the handle.
AllocFails(t) ==
  /\ pc[t] = "guarded"
  /\ closes' = [closes EXCEPT ![dev[t]] = @ + 1]
  /\ Return(t)
  /\ UNCHANGED <<opened, mutex, setup, root, adapter, children, kid, tgt>>

\* The DeviceState exists and the guard has let go of the handle.
Adopt(t) ==
  /\ pc[t] = "guarded"
  /\ Goto(t, "ctorLock")
  /\ UNCHANGED <<handles, root, adapter, children, obj, dev, kid, tgt>>

CtorLock(t) ==
  /\ pc[t] = "ctorLock" /\ mutex[dev[t]] = Nil
  /\ mutex' = [mutex EXCEPT ![dev[t]] = t]
  /\ Goto(t, "ctorSafe")
  /\ UNCHANGED <<opened, closes, setup, root, adapter, children, obj, dev, kid, tgt>>

\* Mutant: the constructor ends without applying the requested speed.
SafeSpeedEnds(t) ==
  /\ pc[t] = "ctorSafe"
  /\ setup' = [setup EXCEPT ![dev[t]] = "safe"]
  /\ root' = [root EXCEPT ![obj[t]] = dev[t]]
  /\ Unlock(t)
  /\ Return(t)
  /\ UNCHANGED <<opened, closes, adapter, children, kid, tgt>>

\* Stale I2C state was released (best effort) and 100 kHz accepted.
SafeSpeed(t) ==
  /\ pc[t] = "ctorSafe"
  /\ setup' = [setup EXCEPT ![dev[t]] = "safe"]
  /\ Goto(t, "ctorTarget")
  /\ UNCHANGED <<opened, closes, mutex, root, adapter, children, obj, dev, kid, tgt>>

\* The requested speed is in force (it may be 100 kHz itself); the lock
\* scope ends, the local shared_ptr moves into state_ and the constructor
\* returns, so that others may use the object.
TargetSpeed(t) ==
  /\ pc[t] = "ctorTarget"
  /\ setup' = [setup EXCEPT ![dev[t]] = "target"]
  /\ root' = [root EXCEPT ![obj[t]] = dev[t]]
  /\ Unlock(t)
  /\ Return(t)
  /\ UNCHANGED <<opened, closes, adapter, children, kid, tgt>>

\* A set_speed failed: checkError throws and the lock_guard unlocks.
CtorThrows(t) ==
  /\ pc[t] \in {"ctorSafe", "ctorTarget"}
  /\ Unlock(t)
  /\ Goto(t, "unwind")
  /\ UNCHANGED <<opened, closes, setup, root, adapter, children, obj, dev, kid, tgt>>

\* Mutant: the unwinding frame does not own the state.
CtorUnwindLeak(t) ==
  /\ pc[t] = "unwind"
  /\ Return(t)
  /\ UNCHANGED <<handles, root, adapter, children, kid, tgt>>

\* The local shared_ptr, the only owner, is destroyed with the frame.
CtorUnwind(t) ==
  /\ pc[t] = "unwind"
  /\ Goto(t, "dtor")
  /\ obj' = [obj EXCEPT ![t] = Nil]
  /\ UNCHANGED <<handles, root, adapter, children, dev, kid, tgt>>

-----------------------------------------------------------------------------
(* Methods: requireOpen or requireState, lock, native call, checkError *)

\* Mutant: requireOpen / requireState is missing.
BeginCallUnchecked(t, o) ==
  /\ pc[t] = "idle"
  /\ Goto(t, "lock")
  /\ obj' = [obj EXCEPT ![t] = o]
  /\ dev' = [dev EXCEPT ![t] = DeviceOf(o)]
  /\ UNCHANGED <<handles, root, adapter, children, kid, tgt>>

\* state_ is non-null, the arguments passed validation, and state_->mutex()
\* has been evaluated: the thread waits for that mutex.  I2cDevice::address(),
\* which takes no lock, reads a byte that nothing writes after the set-up and
\* is no action here.
BeginCall(t, o) ==
  /\ pc[t] = "idle" /\ DeviceOf(o) # Nil
  /\ Goto(t, "lock")
  /\ obj' = [obj EXCEPT ![t] = o]
  /\ dev' = [dev EXCEPT ![t] = DeviceOf(o)]
  /\ UNCHANGED <<handles, root, adapter, children, kid, tgt>>

\* Mutant: the lock_guard is missing.
LockMissing(t) ==
  /\ pc[t] = "lock"
  /\ Goto(t, "locked")
  /\ UNCHANGED <<handles, root, adapter, children, obj, dev, kid, tgt>>

Lock(t) ==
  /\ pc[t] = "lock" /\ mutex[dev[t]] = Nil
  /\ mutex' = [mutex EXCEPT ![dev[t]] = t]
  /\ Goto(t, "locked")
  /\ UNCHANGED <<opened, closes, setup, root, adapter, children, obj, dev, kid, tgt>>

\* state_ is read again, now under the lock, for the handle to pass.
EnterNative(t) ==
  /\ pc[t] = "locked"
  /\ tgt' = [tgt EXCEPT ![t] = HandleOf(obj[t])]
  /\ Goto(t, "native")
  /\ UNCHANGED <<handles, root, adapter, children, obj, dev, kid>>

\* The call returned; whether checkError throws or not, the lock ends.
LeaveNative(t) ==
  /\ pc[t] = "native" /\ kid[t] = Nil
  /\ tgt' = [tgt EXCEPT ![t] = Nil]
  /\ Unlock(t)
  /\ Return(t)
  /\ UNCHANGED <<opened, closes, setup, root, adapter, children, kid>>

\* Mutant: a manual lock that the throwing path does not unlock.
RejectLockedKeeps(t) ==
  /\ pc[t] = "locked" /\ kid[t] = Nil
  /\ ClassOf(obj[t]) \in {"device", "i2c"}
  /\ Return(t)
  /\ UNCHANGED <<handles, root, adapter, children, kid, tgt>>

\* An argument conversion made inside the lock scope throws Invalid; Device
\* and I2cDevice have such conversions.
RejectLocked(t) ==
  /\ pc[t] = "locked" /\ kid[t] = Nil
  /\ ClassOf(obj[t]) \in {"device", "i2c"}
  /\ Unlock(t)
  /\ Return(t)
  /\ UNCHANGED <<opened, closes, setup, root, adapter, children, kid, tgt>>

-----------------------------------------------------------------------------
(* Device::i2cDevice, smbusDevice and gpioPoller *)

\* SmbusDeviceState's destructor body runs before its members go.
DestroyLabel(c) == IF kind[c] = "smbus" THEN "dtorKid" ELSE "freeKid"

\* The child is built, and takes its share of the device, before the lock.
BeginFactory(t, o, c, k) ==
  /\ pc[t] = "idle" /\ root[o] # Nil /\ kind[c] = "free" /\ k # "poller"
  /\ kind' = [kind EXCEPT ![c] = k]
  /\ device' = [device EXCEPT ![c] = root[o]]
  /\ Goto(t, "lock")
  /\ obj' = [obj EXCEPT ![t] = o]
  /\ dev' = [dev EXCEPT ![t] = root[o]]
  /\ kid' = [kid EXCEPT ![t] = c]
  /\ UNCHANGED <<handles, root, adapter, mcp, tgt>>

\* Mutant: the result of ..._init is not checked, so the child may be blank.
InitOkUnchecked(t, a) ==
  /\ pc[t] = "native" /\ kid[t] # Nil
  /\ adapter[a] = Nil /\ Unused(t, a)
  /\ adapter' = [adapter EXCEPT ![a] = kid[t]]
  /\ kid' = [kid EXCEPT ![t] = Nil]
  /\ tgt' = [tgt EXCEPT ![t] = Nil]
  /\ Unlock(t)
  /\ Return(t)
  /\ UNCHANGED <<opened, closes, setup, root, children>>

\* ..._init stored the handle; the child moves into the returned object a.
InitOk(t, a) ==
  /\ pc[t] = "native" /\ kid[t] # Nil
  /\ adapter[a] = Nil /\ Unused(t, a)
  /\ adapter' = [adapter EXCEPT ![a] = kid[t]]
  /\ mcp' = [mcp EXCEPT ![kid[t]] = tgt[t]]
  /\ kid' = [kid EXCEPT ![t] = Nil]
  /\ tgt' = [tgt EXCEPT ![t] = Nil]
  /\ Unlock(t)
  /\ Return(t)
  /\ UNCHANGED <<opened, closes, setup, root, kind, device>>

\* Mutant: the child is a raw pointer that the throwing path does not delete.
DiscardLeak(t) ==
  /\ Unlock(t)
  /\ Return(t)
  /\ kid' = [kid EXCEPT ![t] = Nil]
  /\ tgt' = [tgt EXCEPT ![t] = Nil]
  /\ UNCHANGED <<opened, closes, setup, root, adapter, kind, device>>

\* The frame is left without an object that holds the child: the lock_guard,
\* declared last, unlocks first, and the child dies after it.
Discard(t) ==
  /\ Unlock(t)
  /\ Goto(t, DestroyLabel(kid[t]))
  /\ obj' = [obj EXCEPT ![t] = Nil]
  /\ tgt' = [tgt EXCEPT ![t] = Nil]
  /\ UNCHANGED <<opened, closes, setup, root, adapter, kind, device, dev, kid>>

\* ..._init failed, or i2cDevice's conversions threw before it ran.
InitFails(t) ==
  /\ kid[t] # Nil
  /\ \/ pc[t] = "native"
     \/ pc[t] = "locked" /\ kind[kid[t]] = "i2c"
  /\ UNCHANGED mcp
  /\ Discard(t)

\* ..._init succeeded and the caller ignores the result.
InitIgnored(t) ==
  /\ pc[t] = "native" /\ kid[t] # Nil
  /\ mcp' = [mcp EXCEPT ![kid[t]] = tgt[t]]
  /\ Discard(t)

\* Mutant: the poller's child does not share the device.
NewPollerBorrows(t, o, c, a) ==
  /\ pc[t] = "idle" /\ root[o] # Nil /\ kind[c] = "free"
  /\ adapter[a] = Nil /\ Unused(t, a)
  /\ kind' = [kind EXCEPT ![c] = "poller"]
  /\ adapter' = [adapter EXCEPT ![a] = c]
  /\ UNCHANGED <<handles, root, device, mcp, threads>>

\* mcp2221_gpio_poll_init touches no device, so no lock is taken.
NewPoller(t, o, c, a) ==
  /\ pc[t] = "idle" /\ root[o] # Nil /\ kind[c] = "free"
  /\ adapter[a] = Nil /\ Unused(t, a)
  /\ kind' = [kind EXCEPT ![c] = "poller"]
  /\ device' = [device EXCEPT ![c] = root[o]]
  /\ adapter' = [adapter EXCEPT ![a] = c]
  /\ UNCHANGED <<handles, root, mcp, threads>>

-----------------------------------------------------------------------------
(* Copy, move, close and destruction of the objects *)

\* Mutant: every adapter destroys its child, shared or not.
ResetAlways(t, a) ==
  IF adapter[a] # Nil
  THEN /\ Goto(t, DestroyLabel(adapter[a]))
       /\ kid' = [kid EXCEPT ![t] = adapter[a]]
       /\ dev' = [dev EXCEPT ![t] = device[adapter[a]]]
       /\ UNCHANGED <<handles, root, children, obj, tgt>>
  ELSE UNCHANGED <<handles, root, children, threads>>

\* Adapter a gives up the child it points to, which dies with its last
\* adapter.
Reset(t, a) ==
  IF adapter[a] # Nil /\ Holders(adapter[a]) = {a}
  THEN /\ Goto(t, DestroyLabel(adapter[a]))
       /\ kid' = [kid EXCEPT ![t] = adapter[a]]
       /\ dev' = [dev EXCEPT ![t] = device[adapter[a]]]
       /\ UNCHANGED <<handles, root, children, obj, tgt>>
  ELSE UNCHANGED <<handles, root, children, threads>>

\* The C++ classes keep objects of different kinds apart.
SameClass(a, b) == adapter[b] # Nil => kind[adapter[b]] = kind[adapter[a]]

\* Mutant: a poller can be copied too.
CopyAny(t, a, b) ==
  /\ pc[t] = "idle" /\ Unused(t, b)
  /\ adapter[a] \notin {Nil, adapter[b]}
  /\ SameClass(a, b)
  /\ adapter' = [adapter EXCEPT ![b] = adapter[a]]
  /\ Reset(t, b)

\* b = a for I2cDevice and SmbusDevice; a GpioPoller is move-only.
Copy(t, a, b) ==
  /\ pc[t] = "idle" /\ Unused(t, b)
  /\ adapter[a] \notin {Nil, adapter[b]} /\ kind[adapter[a]] # "poller"
  /\ SameClass(a, b)
  /\ adapter' = [adapter EXCEPT ![b] = adapter[a]]
  /\ Reset(t, b)

\* b = std::move(a)
Move(t, a, b) ==
  /\ pc[t] = "idle" /\ a # b /\ Unused(t, a) /\ Unused(t, b)
  /\ adapter[a] # Nil /\ SameClass(a, b)
  /\ adapter' = [adapter EXCEPT ![a] = Nil, ![b] = adapter[a]]
  /\ Reset(t, b)

\* An adapter is destroyed.
Drop(t, a) ==
  /\ pc[t] = "idle" /\ Unused(t, a) /\ adapter[a] # Nil
  /\ adapter' = [adapter EXCEPT ![a] = Nil]
  /\ Reset(t, a)

\* Mutant: the first owner to go takes the handle with it.
ReleaseAlways(t, x, d) ==
  /\ obj' = [obj EXCEPT ![t] = Nil]
  /\ Goto(t, "dtor")
  /\ dev' = [dev EXCEPT ![t] = d]

\* Owner x gives up d, which dies with its last owner.
Release(t, x, d) ==
  /\ obj' = [obj EXCEPT ![t] = Nil]
  /\ IF Owners(d) = {x}
     THEN Goto(t, "dtor") /\ dev' = [dev EXCEPT ![t] = d]
     ELSE Goto(t, "idle") /\ dev' = [dev EXCEPT ![t] = Nil]

\* Mutant: close() closes the handle whatever else holds it.
CloseRootEager(t, o) ==
  /\ pc[t] = "idle" /\ Unused(t, o) /\ root[o] # Nil
  /\ root' = [root EXCEPT ![o] = Nil]
  /\ closes' = [closes EXCEPT ![root[o]] = @ + 1]
  /\ UNCHANGED <<opened, mutex, setup, adapter, children, threads>>

\* Device::close and ~Device
CloseRoot(t, o) ==
  /\ pc[t] = "idle" /\ Unused(t, o) /\ root[o] # Nil
  /\ root' = [root EXCEPT ![o] = Nil]
  /\ Release(t, o, root[o])
  /\ UNCHANGED <<handles, adapter, children, kid, tgt>>

\* p = std::move(o) for Devices; what p held is released.
MoveRoot(t, o, p) ==
  /\ pc[t] = "idle" /\ o # p /\ Unused(t, o) /\ Unused(t, p) /\ root[o] # Nil
  /\ root' = [root EXCEPT ![o] = Nil, ![p] = root[o]]
  /\ IF root[p] = Nil THEN UNCHANGED threads
                      ELSE Release(t, p, root[p]) /\ UNCHANGED <<kid, tgt>>
  /\ UNCHANGED <<handles, adapter, children>>

\* ~SmbusDeviceState's body: mcp2221_smbus_close(&bus), without the mutex.
SmbusClose(t) ==
  /\ pc[t] = "dtorKid"
  /\ mcp' = [mcp EXCEPT ![kid[t]] = Nil]
  /\ Goto(t, "freeKid")
  /\ UNCHANGED <<handles, root, adapter, kind, device, obj, dev, kid, tgt>>

\* The child's members go, its shared_ptr<DeviceState> among them.
FreeKid(t) ==
  /\ pc[t] = "freeKid"
  /\ kind' = [kind EXCEPT ![kid[t]] = "free"]
  /\ device' = [device EXCEPT ![kid[t]] = Nil]
  /\ mcp' = [mcp EXCEPT ![kid[t]] = Nil]
  /\ kid' = [kid EXCEPT ![t] = Nil]
  /\ Release(t, kid[t], dev[t])
  /\ UNCHANGED <<handles, root, adapter, tgt>>

\* ~DeviceState: mcp2221_close(handle_).
CloseNative(t) ==
  /\ pc[t] = "dtor"
  /\ closes' = [closes EXCEPT ![dev[t]] = @ + 1]
  /\ Return(t)
  /\ UNCHANGED <<opened, mutex, setup, root, adapter, children, kid, tgt>>

-----------------------------------------------------------------------------
Init ==
  /\ opened = {}
  /\ closes = [d \in State |-> 0]
  /\ mutex = [d \in State |-> Nil]
  /\ setup = [d \in State |-> "stale"]
  /\ root = [o \in Root |-> Nil]
  /\ adapter = [a \in Adapter |-> Nil]
  /\ kind = [c \in Child |-> "free"]
  /\ device = [c \in Child |-> Nil]
  /\ mcp = [c \in Child |-> Nil]
  /\ pc = [t \in Thread |-> "idle"]
  /\ obj = [t \in Thread |-> Nil]
  /\ dev = [t \in Thread |-> Nil]
  /\ kid = [t \in Thread |-> Nil]
  /\ tgt = [t \in Thread |-> Nil]

\* What the program may ask of an idle thread.
Start(t) ==
  \/ \E o \in Root, d \in State : Open(t, o, d)
  \/ \E o \in Object : BeginCall(t, o)
  \/ \E o \in Root, c \in Child, k \in Kinds : BeginFactory(t, o, c, k)
  \/ \E o \in Root, c \in Child, a \in Adapter : NewPoller(t, o, c, a)
  \/ \E a, b \in Adapter : Copy(t, a, b) \/ Move(t, a, b)
  \/ \E a \in Adapter : Drop(t, a)
  \/ \E o \in Root : CloseRoot(t, o)
  \/ \E o, p \in Root : MoveRoot(t, o, p)

\* The steps of an operation that has begun.
Continue(t) ==
  \/ AllocFails(t) \/ Adopt(t)
  \/ CtorLock(t) \/ SafeSpeed(t) \/ TargetSpeed(t) \/ CtorThrows(t) \/ CtorUnwind(t)
  \/ Lock(t) \/ EnterNative(t) \/ LeaveNative(t) \/ RejectLocked(t)
  \/ \E a \in Adapter : InitOk(t, a)
  \/ InitFails(t) \/ InitIgnored(t)
  \/ SmbusClose(t) \/ FreeKid(t) \/ CloseNative(t)

\* Every handle of the model was opened and closed, and all is quiet.
Finished ==
  /\ \A d \in State : closes[d] > 0
  /\ \A t \in Thread : pc[t] = "idle"
  /\ UNCHANGED vars

Next == (\E t \in Thread : Start(t) \/ Continue(t)) \/ Finished

Spec == Init /\ [][Next]_vars

\* A thread that has begun an operation goes on with it; std::mutex promises
\* no order among waiters, and nobody has to begin anything.
FairSpec == Spec /\ \A t \in Thread : WF_vars(Continue(t))

-----------------------------------------------------------------------------
(* What must hold *)

Alive(d) == d \in opened /\ closes[d] = 0

\* Thread t is inside a call of the C library on handle d.
Calling(t, d) == \/ pc[t] = "native" /\ tgt[t] = d
                 \/ pc[t] \in {"ctorSafe", "ctorTarget"} /\ dev[t] = d

\* Thread t is inside C code, or a destructor, that uses the struct of c.
Touching(t, c) ==
  \/ kid[t] = c /\ pc[t] \in {"native", "dtorKid", "freeKid"}
  \/ pc[t] = "native" /\ obj[t] \in Adapter /\ adapter[obj[t]] = c

\* Thread t alone will close d: a unique_ptr or a running ~DeviceState.
Guardian(t, d) == pc[t] \in {"guarded", "dtor"} /\ dev[t] = d

\* Every variable has its type, and a thread that runs something has the
\* device it runs on (requireOpen, requireState).
TypeOK ==
  /\ opened \subseteq State
  /\ closes \in [State -> Nat]
  /\ mutex \in [State -> Thread \cup {Nil}]
  /\ setup \in [State -> {"stale", "safe", "target"}]
  /\ root \in [Root -> State \cup {Nil}]
  /\ adapter \in [Adapter -> Child \cup {Nil}]
  /\ kind \in [Child -> Kinds \cup {"free"}]
  /\ device \in [Child -> State \cup {Nil}]
  /\ mcp \in [Child -> State \cup {Nil}]
  /\ pc \in [Thread -> Labels]
  /\ obj \in [Thread -> Object \cup {Nil}]
  /\ dev \in [Thread -> State \cup {Nil}]
  /\ kid \in [Thread -> Child \cup {Nil}]
  /\ tgt \in [Thread -> State \cup {Nil}]
  /\ \A t \in Thread : pc[t] # "idle" => dev[t] \in State

\* Native calls on one handle are made one at a time, whichever objects and
\* threads they come from (DeviceState.h, "the same operation mutex").
NativeCallsSerialized ==
  \A d \in State : \A t, u \in Thread :
    Calling(t, d) /\ Calling(u, d) => t = u

\* A native call is made on the device whose mutex the caller holds: the
\* raw pointer inside slave or bus never names another handle.
LockedDeviceIsCalled ==
  \A t \in Thread : pc[t] = "native" => tgt[t] = dev[t] /\ mutex[tgt[t]] = t

\* Nothing that is under way, waiting for the mutex included, refers to a
\* handle that was closed; so no handle is closed twice either.
NoUseAfterClose ==
  \A t \in Thread : pc[t] # "idle" => Alive(dev[t])

\* An open handle has owners, or else exactly one thread that is to close it;
\* it is never forgotten and never has two closers.
HandleOwned ==
  \A d \in State : /\ closes[d] <= 1
                   /\ Alive(d) /\ Owners(d) = {} => \E t \in Thread : Guardian(t, d)
                   /\ \A t, u \in Thread : Guardian(t, d) /\ Guardian(u, d) => t = u
                   /\ \A t \in Thread : Guardian(t, d) => Owners(d) = {}

\* A child state is in use by adapters or in the hands of one thread, never
\* both, and is neither leaked nor freed twice.
ChildOwned ==
  \A c \in Child : /\ kind[c] = "free" => Holders(c) = {}
                   /\ kind[c] # "free" /\ Holders(c) = {} => \E t \in Thread : kid[t] = c
                   /\ \A t \in Thread : kid[t] = c => Holders(c) = {} /\ kind[c] # "free"
                   /\ \A t, u \in Thread : kid[t] = c /\ kid[u] = c => t = u

\* What an adapter can reach is open and, where C stored the pointer, set to
\* the very handle the child keeps alive.
AdapterReachesItsDevice ==
  \A a \in Adapter : adapter[a] # Nil =>
    LET c == adapter[a] IN
      /\ device[c] # Nil /\ Alive(device[c])
      /\ kind[c] # "poller" => mcp[c] = device[c]

\* No two threads are at a time in native calls on, or destructors of, the C
\* struct of one child, although mcp2221_smbus_close runs outside the mutex.
StructExclusive ==
  \A c \in Child : \A t, u \in Thread :
    Touching(t, c) /\ Touching(u, c) => t = u

\* Polling history has one owner: two adapters never share a poller's state.
PollerSole ==
  \A a, b \in Adapter :
    adapter[a] = adapter[b] /\ adapter[a] # Nil /\ kind[adapter[a]] = "poller" => a = b

\* A Device whose constructor returned, and every object made from it, is one
\* whose whole I2C set-up succeeded: a failing step leaves no such object.
ReachableIsReady ==
  \A o \in Object : DeviceOf(o) # Nil => setup[DeviceOf(o)] = "target"

\* A thread that took the mutex gives it back, on every path.
MutexReleased ==
  \A d \in State : \A t \in Thread : mutex[d] = t ~> mutex[d] # t

Reachable(d) == \E o \in Object : DeviceOf(o) = d

\* A handle no object reaches any more is closed in the end, or reached
\* again (it was still being set up).
HandleSettles ==
  \A d \in State : Alive(d) /\ ~Reachable(d) ~> ~Alive(d) \/ Reachable(d)

-----------------------------------------------------------------------------
(* The promise to the outside *)

HandlePhase(d) ==
  IF closes[d] > 0 THEN "closed"
  ELSE IF d \notin opened THEN "absent"
  ELSE IF \E t \in Thread : pc[t] = "guarded" /\ dev[t] = d THEN "guarded"
  ELSE IF Owners(d) # {} THEN "held"
  ELSE "released"

Callers(d) == {t \in Thread : Calling(t, d)}

Handle == INSTANCE SerializedHandle
            WITH phase <- [d \in State |-> HandlePhase(d)],
                 using <- [d \in State |-> Callers(d)]

\* Every handle lives the serialized life that SerializedHandle describes.
ImplementsHandle == Handle!Spec
=============================================================================
