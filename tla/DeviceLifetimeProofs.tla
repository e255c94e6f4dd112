------------------------ MODULE DeviceLifetimeProofs ------------------------
(***************************************************************************)
(* The safety properties of DeviceLifetime, proved for every set of        *)
(* threads, objects, handles and children.                                 *)
(*                                                                         *)
(* They all follow from one inductive invariant, IInv.  Its core is that   *)
(* a handle is in exactly one of three situations: shared by Devices and   *)
(* children; in the hands of a single thread (a constructor, a guard or a  *)
(* destructor), with no other owner; or closed.                            *)
(***************************************************************************)
EXTENDS DeviceLifetime, TLAPS

\* The labels of a constructor, from the open handle on.
BuildLabels == {"guarded"} \cup CtorLabels
\* The labels at which one thread has the handle for itself.
SoleLabels == {"dtor"} \cup BuildLabels
\* The labels at which a thread may hold a child for itself.
KidLabels  == {"dtorKid", "freeKid"} \cup CallLabels

\* The mutex is held exactly by the thread inside its lock scope.
LockInv ==
  /\ \A t \in Thread : pc[t] \in LockedLabels => mutex[dev[t]] = t
  /\ \A d \in State : mutex[d] # Nil =>
       pc[mutex[d]] \in LockedLabels /\ dev[mutex[d]] = d

\* What a thread remembers agrees with the objects it works on.
ThreadInv ==
  \A t \in Thread :
    /\ pc[t] \notin CallLabels \cup BuildLabels => obj[t] = Nil
    /\ pc[t] \in CallLabels => obj[t] \in Object /\ DeviceOf(obj[t]) = dev[t]
    /\ pc[t] \in BuildLabels => obj[t] \in Root /\ root[obj[t]] = Nil
    /\ pc[t] \notin KidLabels => kid[t] = Nil
    /\ pc[t] \in {"dtorKid", "freeKid"} => kid[t] # Nil
    /\ kid[t] # Nil => device[kid[t]] = dev[t]
    /\ kid[t] # Nil /\ pc[t] \in CallLabels => obj[t] \in Root
    /\ tgt[t] = IF pc[t] = "native" THEN dev[t] ELSE Nil

\* Constructors under way construct different objects.
CtorInv ==
  \A t, u \in Thread : pc[t] \in BuildLabels /\ obj[u] = obj[t] => t = u

\* A thread that has a handle for itself is alone with it.
SoleInv ==
  \A t \in Thread : pc[t] \in SoleLabels =>
    /\ Alive(dev[t])
    /\ \A o \in Root : root[o] # dev[t]
    /\ \A c \in Child : device[c] # dev[t]
    /\ \A u \in Thread : pc[u] \in SoleLabels /\ dev[u] = dev[t] => u = t

\* A shared handle is open and set up.
SharedInv ==
  /\ \A o \in Root : root[o] # Nil =>
       Alive(root[o]) /\ setup[root[o]] = "target"
  /\ \A c \in Child : device[c] # Nil =>
       Alive(device[c]) /\ setup[device[c]] = "target"

\* A child in use has a device, and an adapter's child is complete.
ChildInv ==
  /\ \A c \in Child : kind[c] = "free" <=> device[c] = Nil
  /\ \A a \in Adapter : adapter[a] # Nil =>
       /\ kind[adapter[a]] # "free"
       /\ kind[adapter[a]] # "poller" => mcp[adapter[a]] = device[adapter[a]]

\* A child in the hands of a thread is nowhere else.
KidInv ==
  \A t \in Thread : kid[t] # Nil =>
    /\ kind[kid[t]] # "free"
    /\ \A a \in Adapter : adapter[a] # kid[t]
    /\ \A u \in Thread : kid[u] = kid[t] => u = t

\* No open handle is forgotten: somebody owns it or is about to close it.
HandleKept ==
  \A d \in State : Alive(d) =>
    \/ \E o \in Root : root[o] = d
    \/ \E c \in Child : device[c] = d
    \/ \E t \in Thread : pc[t] \in SoleLabels /\ dev[t] = d

\* No child is forgotten: an adapter points to it or a thread holds it.
ChildKept ==
  \A c \in Child : kind[c] # "free" =>
    (\E a \in Adapter : adapter[a] = c) \/ (\E t \in Thread : kid[t] = c)

\* No handle is closed before it is opened, and none is closed twice.
ClosesInv ==
  \A d \in State : closes[d] <= 1 /\ (d \notin opened => closes[d] = 0)

\* The inductive invariant.
IInv == /\ TypeOK
        /\ LockInv
        /\ ThreadInv
        /\ CtorInv
        /\ SoleInv
        /\ SharedInv
        /\ ChildInv
        /\ KidInv
        /\ HandleKept
        /\ ChildKept
        /\ ClosesInv
        /\ PollerSole

-----------------------------------------------------------------------------
\* A freshly opened handle has a single guard: nobody else knows it yet.
LEMMA OpenPreserves ==
  ASSUME IInv, NEW t \in Thread, NEW o \in Root, NEW d \in State,
         Open(t, o, d)
  PROVE  IInv'
<1>1. TypeOK'
  BY DEF Open, Goto, IInv, TypeOK, Object, Labels, children
<1>2. LockInv'
  BY DEF Open, Goto, IInv, LockInv, LockedLabels
<1>3. ThreadInv'
  BY DEF Open, Goto, DeviceOf, IInv, TypeOK, ThreadInv, CallLabels,
      BuildLabels, KidLabels, children
<1>4. CtorInv'
  BY DEF Open, Goto, Unused, IInv, TypeOK, CtorInv
<1>5. SoleInv'
  BY SortsDistinct DEF Open, Goto, IInv, TypeOK, SoleInv, SharedInv,
      ClosesInv, Alive, children
<1>6. HandleKept'
  BY DEF Open, Goto, IInv, TypeOK, HandleKept, Alive, CtorLabels,
      BuildLabels, SoleLabels, children
<1>7. SharedInv' /\ ChildInv' /\ KidInv' /\ ChildKept' /\ ClosesInv' /\
    PollerSole'
  BY DEF Open, IInv, SharedInv, ChildInv, KidInv, ChildKept, ClosesInv,
      PollerSole, Alive, children
<1> QED  BY <1>1, <1>2, <1>3, <1>4, <1>5, <1>6, <1>7 DEF IInv

\* A guard that closes its handle leaves nothing behind.
LEMMA AllocFailsPreserves ==
  ASSUME IInv, NEW t \in Thread, AllocFails(t)
  PROVE  IInv'
<1>1. TypeOK'
  BY DEF AllocFails, Goto, Return, IInv, TypeOK, Labels, children
<1>2. LockInv'
  BY DEF AllocFails, Goto, Return, IInv, LockInv, LockedLabels
<1>3. ThreadInv'
  BY DEF AllocFails, Goto, Return, DeviceOf, IInv, TypeOK, ThreadInv,
      CtorLabels, CallLabels, BuildLabels, KidLabels, children
<1>4. CtorInv'
  BY SortsDistinct DEF AllocFails, Goto, Return, IInv, TypeOK, ThreadInv,
      CtorInv, CtorLabels, BuildLabels
<1>5. SoleInv'
  BY DEF AllocFails, Goto, Return, IInv, TypeOK, SoleInv, Alive, CtorLabels,
      BuildLabels, SoleLabels, children
<1>6. SharedInv'
  BY DEF AllocFails, IInv, SoleInv, SharedInv, Alive, BuildLabels,
      SoleLabels, children
<1>7. HandleKept'
  BY DEF AllocFails, Goto, Return, IInv, TypeOK, HandleKept, Alive, children
<1>8. ClosesInv'
  BY DEF AllocFails, IInv, SoleInv, ClosesInv, Alive, BuildLabels, SoleLabels
<1>9. ChildInv' /\ KidInv' /\ ChildKept' /\ PollerSole'
  BY DEF AllocFails, IInv, ChildInv, KidInv, ChildKept, PollerSole, children
<1> QED  BY <1>1, <1>2, <1>3, <1>4, <1>5, <1>6, <1>7, <1>8, <1>9 DEF IInv

\* The constructor takes the handle over from its guard.
LEMMA AdoptPreserves ==
  ASSUME IInv, NEW t \in Thread, Adopt(t)
  PROVE  IInv'
<1>1. TypeOK'
  BY DEF Adopt, Goto, IInv, TypeOK, Labels, CtorLabels, handles, children
<1>2. LockInv'
  BY DEF Adopt, Goto, IInv, LockInv, LockedLabels, handles
<1>3. ThreadInv'
  BY DEF Adopt, Goto, DeviceOf, IInv, ThreadInv, CtorLabels, CallLabels,
      BuildLabels, KidLabels, children
<1>4. CtorInv'
  BY DEF Adopt, Goto, IInv, CtorInv, BuildLabels
<1>5. SoleInv'
  BY DEF Adopt, Goto, IInv, SoleInv, Alive, BuildLabels, SoleLabels, handles,
      children
<1>6. HandleKept'
  BY DEF Adopt, Goto, IInv, HandleKept, Alive, CtorLabels, BuildLabels,
      SoleLabels, handles, children
<1>7. SharedInv' /\ ChildInv' /\ KidInv' /\ ChildKept' /\ ClosesInv' /\
    PollerSole'
  BY DEF Adopt, IInv, SharedInv, ChildInv, KidInv, ChildKept, ClosesInv,
      PollerSole, Alive, handles, children
<1> QED  BY <1>1, <1>2, <1>3, <1>4, <1>5, <1>6, <1>7 DEF IInv

\* A constructor locks a mutex nobody else can reach.
LEMMA CtorLockPreserves ==
  ASSUME IInv, NEW t \in Thread, CtorLock(t)
  PROVE  IInv'
<1>1. TypeOK'
  BY DEF CtorLock, Goto, IInv, TypeOK, Labels, CtorLabels, children
<1>2. LockInv'
  BY SortsDistinct DEF CtorLock, Goto, IInv, TypeOK, LockInv, LockedLabels
<1>3. ThreadInv'
  BY DEF CtorLock, Goto, DeviceOf, IInv, ThreadInv, CtorLabels, CallLabels,
      BuildLabels, KidLabels, children
<1>4. CtorInv'
  BY DEF CtorLock, Goto, IInv, CtorInv, CtorLabels, BuildLabels
<1>5. SoleInv'
  BY DEF CtorLock, Goto, IInv, SoleInv, Alive, CtorLabels, BuildLabels,
      SoleLabels, children
<1>6. HandleKept'
  BY DEF CtorLock, Goto, IInv, HandleKept, Alive, CtorLabels, BuildLabels,
      SoleLabels, children
<1>7. SharedInv' /\ ChildInv' /\ KidInv' /\ ChildKept' /\ ClosesInv' /\
    PollerSole'
  BY DEF CtorLock, IInv, SharedInv, ChildInv, KidInv, ChildKept, ClosesInv,
      PollerSole, Alive, children
<1> QED  BY <1>1, <1>2, <1>3, <1>4, <1>5, <1>6, <1>7 DEF IInv

\* Accepting 100 kHz changes nothing but how far the set-up has come.
LEMMA SafeSpeedPreserves ==
  ASSUME IInv, NEW t \in Thread, SafeSpeed(t)
  PROVE  IInv'
<1>1. TypeOK'
  BY DEF SafeSpeed, Goto, IInv, TypeOK, Labels, CtorLabels, children
<1>2. LockInv'
  BY DEF SafeSpeed, Goto, IInv, LockInv, LockedLabels
<1>3. ThreadInv'
  BY DEF SafeSpeed, Goto, DeviceOf, IInv, ThreadInv, CtorLabels, CallLabels,
      BuildLabels, KidLabels, children
<1>4. CtorInv'
  BY DEF SafeSpeed, Goto, IInv, CtorInv, CtorLabels, BuildLabels
<1>5. SoleInv'
  BY DEF SafeSpeed, Goto, IInv, SoleInv, Alive, CtorLabels, BuildLabels,
      SoleLabels, children
<1>6. SharedInv'
  BY DEF SafeSpeed, IInv, SoleInv, SharedInv, Alive, CtorLabels, BuildLabels,
      SoleLabels, children
<1>7. HandleKept'
  BY DEF SafeSpeed, Goto, IInv, HandleKept, Alive, CtorLabels, BuildLabels,
      SoleLabels, children
<1>8. ChildInv' /\ KidInv' /\ ChildKept' /\ ClosesInv' /\ PollerSole'
  BY DEF SafeSpeed, IInv, ChildInv, KidInv, ChildKept, ClosesInv, PollerSole,
      children
<1> QED  BY <1>1, <1>2, <1>3, <1>4, <1>5, <1>6, <1>7, <1>8 DEF IInv

\* Publishing a device makes it shared after its whole set-up, in an object
\* no other constructor is filling.
LEMMA TargetSpeedPreserves ==
  ASSUME IInv, NEW t \in Thread, TargetSpeed(t)
  PROVE  IInv'
<1>1. TypeOK'
  BY DEF TargetSpeed, Goto, Return, Unlock, IInv, TypeOK, ThreadInv, Labels,
      CtorLabels, BuildLabels, children
<1>2. LockInv'
  BY DEF TargetSpeed, Goto, Return, Unlock, IInv, TypeOK, LockInv,
      LockedLabels
<1>3. ThreadInv'
  BY DEF TargetSpeed, Goto, Return, DeviceOf, IInv, TypeOK, ThreadInv,
      CtorInv, CtorLabels, CallLabels, BuildLabels, KidLabels, children
<1>4. CtorInv'
  BY SortsDistinct DEF TargetSpeed, Goto, Return, IInv, TypeOK, ThreadInv,
      CtorInv, CtorLabels, BuildLabels
<1>5. SoleInv'
  BY DEF TargetSpeed, Goto, Return, IInv, TypeOK, SoleInv, Alive, CtorLabels,
      BuildLabels, SoleLabels, children
<1>6. SharedInv'
  BY DEF TargetSpeed, IInv, TypeOK, SoleInv, SharedInv, Alive, CtorLabels,
      BuildLabels, SoleLabels, children
<1>7. HandleKept'
  BY SortsDistinct DEF TargetSpeed, Goto, Return, IInv, TypeOK, ThreadInv,
      HandleKept, Alive, CtorLabels, BuildLabels, children
<1>8. ChildInv' /\ KidInv' /\ ChildKept' /\ ClosesInv' /\ PollerSole'
  BY DEF TargetSpeed, IInv, ChildInv, KidInv, ChildKept, ClosesInv,
      PollerSole, children
<1> QED  BY <1>1, <1>2, <1>3, <1>4, <1>5, <1>6, <1>7, <1>8 DEF IInv

\* A constructor that throws unlocks and still has the handle for itself.
LEMMA CtorThrowsPreserves ==
  ASSUME IInv, NEW t \in Thread, CtorThrows(t)
  PROVE  IInv'
<1>1. TypeOK'
  BY DEF CtorThrows, Goto, Unlock, IInv, TypeOK, Labels, CtorLabels, children
<1>2. LockInv'
  BY DEF CtorThrows, Goto, Unlock, IInv, TypeOK, LockInv, LockedLabels
<1>3. ThreadInv'
  BY DEF CtorThrows, Goto, DeviceOf, IInv, ThreadInv, CtorLabels, CallLabels,
      BuildLabels, KidLabels, children
<1>4. CtorInv'
  BY DEF CtorThrows, Goto, IInv, CtorInv, CtorLabels, BuildLabels
<1>5. SoleInv'
  BY DEF CtorThrows, Goto, IInv, SoleInv, Alive, CtorLabels, BuildLabels,
      SoleLabels, children
<1>6. HandleKept'
  BY DEF CtorThrows, Goto, IInv, HandleKept, Alive, CtorLabels, BuildLabels,
      SoleLabels, children
<1>7. SharedInv' /\ ChildInv' /\ KidInv' /\ ChildKept' /\ ClosesInv' /\
    PollerSole'
  BY DEF CtorThrows, IInv, SharedInv, ChildInv, KidInv, ChildKept, ClosesInv,
      PollerSole, Alive, children
<1> QED  BY <1>1, <1>2, <1>3, <1>4, <1>5, <1>6, <1>7 DEF IInv

\* Unwinding hands the handle to the destructor of its state.
LEMMA CtorUnwindPreserves ==
  ASSUME IInv, NEW t \in Thread, CtorUnwind(t)
  PROVE  IInv'
<1>1. TypeOK'
  BY DEF CtorUnwind, Goto, IInv, TypeOK, Labels, handles, children
<1>2. LockInv'
  BY DEF CtorUnwind, Goto, IInv, LockInv, LockedLabels, handles
<1>3. ThreadInv'
  BY DEF CtorUnwind, Goto, DeviceOf, IInv, TypeOK, ThreadInv, CtorLabels,
      CallLabels, BuildLabels, KidLabels, children
<1>4. CtorInv'
  BY SortsDistinct DEF CtorUnwind, Goto, IInv, TypeOK, ThreadInv, CtorInv,
      CtorLabels, BuildLabels
<1>5. SoleInv'
  BY DEF CtorUnwind, Goto, IInv, SoleInv, Alive, CtorLabels, BuildLabels,
      SoleLabels, handles, children
<1>6. HandleKept'
  BY DEF CtorUnwind, Goto, IInv, HandleKept, Alive, SoleLabels, handles,
      children
<1>7. SharedInv' /\ ChildInv' /\ KidInv' /\ ChildKept' /\ ClosesInv' /\
    PollerSole'
  BY DEF CtorUnwind, IInv, SharedInv, ChildInv, KidInv, ChildKept, ClosesInv,
      PollerSole, Alive, handles, children
<1> QED  BY <1>1, <1>2, <1>3, <1>4, <1>5, <1>6, <1>7 DEF IInv

\* A call begins on a device that is open, because its object reaches it.
LEMMA BeginCallPreserves ==
  ASSUME IInv, NEW t \in Thread, NEW o \in Object, BeginCall(t, o)
  PROVE  IInv'
<1>1. TypeOK'
  BY DEF BeginCall, Goto, DeviceOf, IInv, TypeOK, Object, Labels, CallLabels,
      handles, children
<1>2. LockInv'
  BY DEF BeginCall, Goto, IInv, LockInv, LockedLabels, handles
<1>3. ThreadInv'
  BY DEF BeginCall, Goto, DeviceOf, IInv, TypeOK, ThreadInv, CtorLabels,
      CallLabels, BuildLabels, KidLabels, children
<1>4. CtorInv'
  BY DEF BeginCall, Goto, DeviceOf, IInv, ThreadInv, CtorInv, CtorLabels,
      BuildLabels
<1>5. SoleInv'
  BY DEF BeginCall, Goto, IInv, SoleInv, Alive, CtorLabels, BuildLabels,
      SoleLabels, handles, children
<1>6. HandleKept'
  BY DEF BeginCall, Goto, IInv, HandleKept, Alive, CtorLabels, BuildLabels,
      SoleLabels, handles, children
<1>7. SharedInv' /\ ChildInv' /\ KidInv' /\ ChildKept' /\ ClosesInv' /\
    PollerSole'
  BY DEF BeginCall, IInv, SharedInv, ChildInv, KidInv, ChildKept, ClosesInv,
      PollerSole, Alive, handles, children
<1> QED  BY <1>1, <1>2, <1>3, <1>4, <1>5, <1>6, <1>7 DEF IInv

\* A mutex is taken by one thread at a time.
LEMMA LockPreserves ==
  ASSUME IInv, NEW t \in Thread, Lock(t)
  PROVE  IInv'
<1>1. TypeOK'
  BY DEF Lock, Goto, IInv, TypeOK, Labels, CallLabels, children
<1>2. LockInv'
  BY SortsDistinct DEF Lock, Goto, IInv, TypeOK, LockInv, LockedLabels
<1>3. ThreadInv'
  BY DEF Lock, Goto, DeviceOf, IInv, ThreadInv, CtorLabels, CallLabels,
      BuildLabels, KidLabels, children
<1>4. CtorInv'
  BY DEF Lock, Goto, IInv, CtorInv, CtorLabels, BuildLabels
<1>5. SoleInv'
  BY DEF Lock, Goto, IInv, SoleInv, Alive, CtorLabels, BuildLabels,
      SoleLabels, children
<1>6. HandleKept'
  BY DEF Lock, Goto, IInv, HandleKept, Alive, CtorLabels, BuildLabels,
      SoleLabels, children
<1>7. SharedInv' /\ ChildInv' /\ KidInv' /\ ChildKept' /\ ClosesInv' /\
    PollerSole'
  BY DEF Lock, IInv, SharedInv, ChildInv, KidInv, ChildKept, ClosesInv,
      PollerSole, Alive, children
<1> QED  BY <1>1, <1>2, <1>3, <1>4, <1>5, <1>6, <1>7 DEF IInv

\* The handle read under the lock is the handle that was locked, through
\* whichever pointer it was reached.
LEMMA EnterNativePreserves ==
  ASSUME IInv, NEW t \in Thread, EnterNative(t)
  PROVE  IInv'
<1>1. TypeOK'
  BY SortsDistinct DEF EnterNative, Goto, HandleOf, ClassOf, DeviceOf, IInv,
      TypeOK, ThreadInv, Object, Labels, CallLabels, handles, children
<1>2. LockInv'
  BY DEF EnterNative, Goto, ClassOf, IInv, LockInv, LockedLabels, handles
<1>3. ThreadInv'
  BY SortsDistinct DEF EnterNative, Goto, HandleOf, ClassOf, DeviceOf, IInv,
      TypeOK, ThreadInv, ChildInv, Object, CtorLabels, CallLabels,
      BuildLabels, KidLabels, children
<1>4. CtorInv'
  BY DEF EnterNative, Goto, ClassOf, IInv, CtorInv, CtorLabels, BuildLabels
<1>5. SoleInv'
  BY DEF EnterNative, Goto, ClassOf, IInv, SoleInv, Alive, CtorLabels,
      BuildLabels, SoleLabels, handles, children
<1>6. SharedInv'
  BY DEF EnterNative, ClassOf, IInv, SharedInv, Alive, handles, children
<1>7. ChildInv'
  BY DEF EnterNative, ClassOf, IInv, ChildInv, children
<1>8. KidInv'
  BY DEF EnterNative, ClassOf, IInv, KidInv, children
<1>9. HandleKept'
  BY DEF EnterNative, Goto, ClassOf, IInv, HandleKept, Alive, CtorLabels,
      BuildLabels, SoleLabels, handles, children
<1>10. ClosesInv'
  BY DEF EnterNative, ClassOf, IInv, ClosesInv, handles
<1>11. PollerSole'
  BY DEF EnterNative, ClassOf, IInv, PollerSole, children
<1>12. ChildKept'
  BY DEF EnterNative, IInv, ChildKept, children
<1> QED  BY <1>1, <1>2, <1>3, <1>4, <1>5, <1>6, <1>7, <1>8, <1>9, <1>10,
    <1>11, <1>12 DEF IInv

\* A call that returns gives the mutex back.
LEMMA LeaveNativePreserves ==
  ASSUME IInv, NEW t \in Thread, LeaveNative(t)
  PROVE  IInv'
<1>1. TypeOK'
  BY DEF LeaveNative, Goto, Return, Unlock, IInv, TypeOK, Labels, children
<1>2. LockInv'
  BY DEF LeaveNative, Goto, Return, Unlock, IInv, TypeOK, LockInv,
      LockedLabels
<1>3. ThreadInv'
  BY DEF LeaveNative, Goto, Return, DeviceOf, IInv, TypeOK, ThreadInv,
      CtorLabels, CallLabels, BuildLabels, children
<1>4. CtorInv'
  BY SortsDistinct DEF LeaveNative, Goto, Return, IInv, ThreadInv, CtorInv,
      CtorLabels, BuildLabels
<1>5. SoleInv'
  BY DEF LeaveNative, Goto, Return, IInv, SoleInv, Alive, CtorLabels,
      BuildLabels, SoleLabels, children
<1>6. HandleKept'
  BY DEF LeaveNative, Goto, Return, IInv, HandleKept, Alive, CtorLabels,
      BuildLabels, SoleLabels, children
<1>7. SharedInv' /\ ChildInv' /\ KidInv' /\ ChildKept' /\ ClosesInv' /\
    PollerSole'
  BY DEF LeaveNative, IInv, SharedInv, ChildInv, KidInv, ChildKept,
      ClosesInv, PollerSole, Alive, children
<1> QED  BY <1>1, <1>2, <1>3, <1>4, <1>5, <1>6, <1>7 DEF IInv

\* A call rejected under the lock gives the mutex back too.
LEMMA RejectLockedPreserves ==
  ASSUME IInv, NEW t \in Thread, RejectLocked(t)
  PROVE  IInv'
<1>1. TypeOK'
  BY DEF RejectLocked, Goto, Return, Unlock, IInv, TypeOK, Labels, children
<1>2. LockInv'
  BY DEF RejectLocked, Goto, Return, Unlock, IInv, TypeOK, LockInv,
      LockedLabels
<1>3. ThreadInv'
  BY DEF RejectLocked, Goto, Return, DeviceOf, IInv, TypeOK, ThreadInv,
      CtorLabels, CallLabels, BuildLabels, children
<1>4. CtorInv'
  BY SortsDistinct DEF RejectLocked, Goto, Return, IInv, ThreadInv, CtorInv,
      CtorLabels, BuildLabels
<1>5. SoleInv'
  BY DEF RejectLocked, Goto, Return, IInv, SoleInv, Alive, CtorLabels,
      BuildLabels, SoleLabels, children
<1>6. HandleKept'
  BY DEF RejectLocked, Goto, Return, IInv, HandleKept, Alive, CtorLabels,
      BuildLabels, SoleLabels, children
<1>7. SharedInv' /\ ChildInv' /\ KidInv' /\ ChildKept' /\ ClosesInv' /\
    PollerSole'
  BY DEF RejectLocked, IInv, SharedInv, ChildInv, KidInv, ChildKept,
      ClosesInv, PollerSole, Alive, children
<1> QED  BY <1>1, <1>2, <1>3, <1>4, <1>5, <1>6, <1>7 DEF IInv

\* A new child shares the device of its maker and is held by one thread.
LEMMA BeginFactoryPreserves ==
  ASSUME IInv, NEW t \in Thread, NEW o \in Root, NEW c \in Child,
         NEW k \in Kinds, BeginFactory(t, o, c, k)
  PROVE  IInv'
<1>1. TypeOK'
  BY DEF BeginFactory, Goto, IInv, TypeOK, Object, Labels, CallLabels,
      handles
<1>2. LockInv'
  BY DEF BeginFactory, Goto, IInv, LockInv, LockedLabels, handles
<1>3. ThreadInv'
  BY SortsDistinct DEF BeginFactory, Goto, DeviceOf, IInv, TypeOK, ThreadInv,
      ChildInv, Object, CtorLabels, CallLabels, BuildLabels, KidLabels
<1>4. CtorInv'
  BY DEF BeginFactory, Goto, IInv, ThreadInv, CtorInv, CtorLabels,
      BuildLabels
<1>5. SoleInv'
  BY DEF BeginFactory, Goto, IInv, SoleInv, Alive, CtorLabels, BuildLabels,
      SoleLabels, handles
<1>6. ChildInv'
  BY DEF BeginFactory, IInv, TypeOK, ChildInv, Kinds
<1>7. KidInv'
  BY DEF BeginFactory, IInv, TypeOK, ChildInv, KidInv, Kinds
<1>8. HandleKept'
  BY SortsDistinct DEF BeginFactory, Goto, IInv, ChildInv, HandleKept, Alive,
      CtorLabels, BuildLabels, SoleLabels, handles
<1>9. ChildKept'
  BY SortsDistinct DEF BeginFactory, IInv, TypeOK, ThreadInv, ChildKept,
      CallLabels, KidLabels
<1>10. SharedInv' /\ ClosesInv' /\ PollerSole'
  BY DEF BeginFactory, IInv, SharedInv, ClosesInv, PollerSole, Alive, handles
<1> QED  BY <1>1, <1>2, <1>3, <1>4, <1>5, <1>6, <1>7, <1>8, <1>9, <1>10 DEF
    IInv

\* A finished child, complete with its handle pointer, passes from the
\* thread to one adapter.
LEMMA InitOkPreserves ==
  ASSUME IInv, NEW t \in Thread, NEW a \in Adapter, InitOk(t, a)
  PROVE  IInv'
<1>1. TypeOK'
  BY DEF InitOk, Goto, Return, Unlock, IInv, TypeOK, Labels
<1>2. LockInv'
  BY DEF InitOk, Goto, Return, Unlock, IInv, TypeOK, LockInv, LockedLabels
<1>3. ThreadInv'
  BY DEF InitOk, Goto, Return, Unused, DeviceOf, IInv, TypeOK, ThreadInv,
      CtorLabels, CallLabels, BuildLabels
<1>4. CtorInv'
  BY SortsDistinct DEF InitOk, Goto, Return, IInv, ThreadInv, CtorInv,
      CtorLabels, BuildLabels
<1>5. SoleInv'
  BY DEF InitOk, Goto, Return, IInv, SoleInv, Alive, CtorLabels, BuildLabels,
      SoleLabels
<1>6. ChildInv'
  BY SortsDistinct DEF InitOk, IInv, TypeOK, ThreadInv, ChildInv
<1>7. KidInv'
  BY DEF InitOk, IInv, TypeOK, KidInv
<1>8. HandleKept'
  BY DEF InitOk, Goto, Return, IInv, TypeOK, HandleKept, Alive, CtorLabels,
      BuildLabels, SoleLabels
<1>9. ChildKept'
  BY DEF InitOk, IInv, TypeOK, ChildKept
<1>10. PollerSole'
  BY DEF InitOk, IInv, KidInv, PollerSole
<1>11. SharedInv' /\ ClosesInv'
  BY DEF InitOk, IInv, SharedInv, ClosesInv, Alive
<1> QED  BY <1>1, <1>2, <1>3, <1>4, <1>5, <1>6, <1>7, <1>8, <1>9, <1>10,
    <1>11 DEF IInv

\* A failed factory gives the mutex back and still holds its child.
LEMMA InitFailsPreserves ==
  ASSUME IInv, NEW t \in Thread, InitFails(t)
  PROVE  IInv'
<1>1. TypeOK'
  BY DEF InitFails, Discard, DestroyLabel, Goto, Unlock, IInv, TypeOK, Labels
<1>2. LockInv'
  BY DEF InitFails, Discard, DestroyLabel, Goto, Unlock, IInv, TypeOK,
      LockInv, LockedLabels
<1>3. ThreadInv'
  BY DEF InitFails, Discard, DestroyLabel, Goto, DeviceOf, IInv, TypeOK,
      ThreadInv, CtorLabels, CallLabels, BuildLabels, KidLabels
<1>4. CtorInv'
  BY SortsDistinct DEF InitFails, Discard, DestroyLabel, Goto, IInv,
      ThreadInv, CtorInv, CtorLabels, BuildLabels
<1>5. SoleInv'
  BY DEF InitFails, Discard, DestroyLabel, Goto, IInv, SoleInv, Alive,
      CtorLabels, BuildLabels, SoleLabels
<1>6. HandleKept'
  BY DEF InitFails, Discard, Goto, IInv, HandleKept, Alive, CtorLabels,
      BuildLabels, SoleLabels
<1>7. SharedInv' /\ ChildInv' /\ KidInv' /\ ChildKept' /\ ClosesInv' /\
    PollerSole'
  BY DEF InitFails, Discard, IInv, SharedInv, ChildInv, KidInv, ChildKept,
      ClosesInv, PollerSole, Alive
<1> QED  BY <1>1, <1>2, <1>3, <1>4, <1>5, <1>6, <1>7 DEF IInv

\* An ignored result is destroyed by the thread that made it.
LEMMA InitIgnoredPreserves ==
  ASSUME IInv, NEW t \in Thread, InitIgnored(t)
  PROVE  IInv'
<1>1. TypeOK'
  BY DEF InitIgnored, Discard, DestroyLabel, Goto, Unlock, IInv, TypeOK,
      Labels
<1>2. LockInv'
  BY DEF InitIgnored, Discard, DestroyLabel, Goto, Unlock, IInv, TypeOK,
      LockInv, LockedLabels
<1>3. ThreadInv'
  BY DEF InitIgnored, Discard, DestroyLabel, Goto, DeviceOf, IInv, TypeOK,
      ThreadInv, CtorLabels, CallLabels, BuildLabels, KidLabels
<1>4. CtorInv'
  BY SortsDistinct DEF InitIgnored, Discard, DestroyLabel, Goto, IInv,
      ThreadInv, CtorInv, CtorLabels, BuildLabels
<1>5. SoleInv'
  BY DEF InitIgnored, Discard, DestroyLabel, Goto, IInv, SoleInv, Alive,
      CtorLabels, BuildLabels, SoleLabels
<1>6. ChildInv'
  BY DEF InitIgnored, Discard, IInv, ChildInv, KidInv
<1>7. HandleKept'
  BY DEF InitIgnored, Discard, Goto, IInv, HandleKept, Alive, CtorLabels,
      BuildLabels, SoleLabels
<1>8. SharedInv' /\ KidInv' /\ ChildKept' /\ ClosesInv' /\ PollerSole'
  BY DEF InitIgnored, Discard, IInv, SharedInv, KidInv, ChildKept, ClosesInv,
      PollerSole, Alive
<1> QED  BY <1>1, <1>2, <1>3, <1>4, <1>5, <1>6, <1>7, <1>8 DEF IInv

\* A new poller's child has one adapter and a share of the device.
LEMMA NewPollerPreserves ==
  ASSUME IInv, NEW t \in Thread, NEW o \in Root, NEW c \in Child,
         NEW a \in Adapter, NewPoller(t, o, c, a)
  PROVE  IInv'
<1>1. TypeOK'
  BY DEF NewPoller, IInv, TypeOK, Kinds, handles, threads
<1>2. ThreadInv'
  BY DEF NewPoller, Unused, DeviceOf, IInv, ThreadInv, ChildInv, KidInv,
      Object, CallLabels, threads
<1>3. ChildInv'
  BY DEF NewPoller, IInv, TypeOK, ChildInv
<1>4. HandleKept'
  BY SortsDistinct DEF NewPoller, IInv, TypeOK, ChildInv, HandleKept, Alive,
      handles, threads
<1>5. ChildKept'
  BY SortsDistinct DEF NewPoller, IInv, TypeOK, ChildKept, threads
<1>6. PollerSole'
  BY DEF NewPoller, IInv, ChildInv, PollerSole
<1>7. LockInv' /\ CtorInv' /\ SoleInv' /\ SharedInv' /\ KidInv' /\ ClosesInv'
  BY DEF NewPoller, IInv, LockInv, CtorInv, SoleInv, SharedInv, KidInv,
      ClosesInv, Alive, handles, threads
<1> QED  BY <1>1, <1>2, <1>3, <1>4, <1>5, <1>6, <1>7 DEF IInv

\* A copied adapter shares its child; what it replaced dies with its last
\* adapter.
LEMMA CopyPreserves ==
  ASSUME IInv, NEW t \in Thread, NEW a \in Adapter, NEW b \in Adapter,
         Copy(t, a, b)
  PROVE  IInv'
<1>1. TypeOK'
  BY DEF Copy, Reset, DestroyLabel, Goto, IInv, TypeOK, ThreadInv, SoleInv,
      ChildInv, Labels, handles, children, threads
<1>2. LockInv'
  BY DEF Copy, Reset, DestroyLabel, Goto, IInv, TypeOK, LockInv,
      LockedLabels, handles, threads
<1>3. ThreadInv'
  BY DEF Copy, Reset, DestroyLabel, Goto, Unused, DeviceOf, IInv, TypeOK,
      ThreadInv, CtorLabels, CallLabels, BuildLabels, KidLabels, children,
      threads
<1>4. CtorInv'
  BY DEF Copy, Reset, DestroyLabel, Goto, IInv, TypeOK, CtorInv, CtorLabels,
      BuildLabels, threads
<1>5. SoleInv'
  BY DEF Copy, Reset, DestroyLabel, Goto, IInv, TypeOK, SoleInv, Alive,
      CtorLabels, BuildLabels, SoleLabels, handles, children, threads
<1>6. KidInv'
  BY DEF Copy, Reset, Holders, IInv, TypeOK, ChildInv, KidInv, children,
      threads
<1>7. HandleKept'
  BY DEF Copy, Reset, Goto, IInv, TypeOK, HandleKept, Alive, CtorLabels,
      BuildLabels, SoleLabels, handles, children, threads
<1>8. ChildKept'
  BY SortsDistinct DEF Copy, Reset, Holders, IInv, TypeOK, ThreadInv,
      ChildKept, CallLabels, KidLabels, children, threads
<1>9. SharedInv' /\ ChildInv' /\ ClosesInv' /\ PollerSole'
  BY DEF Copy, Reset, IInv, SharedInv, ChildInv, ClosesInv, PollerSole,
      Alive, handles, children
<1> QED  BY <1>1, <1>2, <1>3, <1>4, <1>5, <1>6, <1>7, <1>8, <1>9 DEF IInv

\* A moved adapter passes its child on; what it replaced dies with its last
\* adapter.
LEMMA MovePreserves ==
  ASSUME IInv, NEW t \in Thread, NEW a \in Adapter, NEW b \in Adapter,
         Move(t, a, b)
  PROVE  IInv'
<1>1. TypeOK'
  BY DEF Move, Reset, DestroyLabel, Goto, IInv, TypeOK, ThreadInv, ChildInv,
      Labels, handles, children, threads
<1>2. LockInv'
  BY DEF Move, Reset, DestroyLabel, Goto, IInv, TypeOK, LockInv,
      LockedLabels, handles, threads
<1>3. ThreadInv'
  BY DEF Move, Reset, DestroyLabel, Goto, Unused, DeviceOf, IInv, TypeOK,
      ThreadInv, Object, CtorLabels, CallLabels, BuildLabels, KidLabels,
      children, threads
<1>4. CtorInv'
  BY DEF Move, Reset, DestroyLabel, Goto, IInv, TypeOK, CtorInv, CtorLabels,
      BuildLabels, threads
<1>5. SoleInv'
  BY DEF Move, Reset, DestroyLabel, Goto, IInv, TypeOK, SoleInv, Alive,
      CtorLabels, BuildLabels, SoleLabels, handles, children, threads
<1>6. ChildInv'
  BY DEF Move, Reset, IInv, TypeOK, ChildInv, children
<1>7. KidInv'
  BY DEF Move, Reset, Holders, IInv, TypeOK, ChildInv, KidInv, children,
      threads
<1>8. HandleKept'
  BY DEF Move, Reset, Goto, IInv, TypeOK, HandleKept, Alive, CtorLabels,
      BuildLabels, SoleLabels, handles, children, threads
<1>9. ChildKept'
  BY DEF Move, Reset, Holders, IInv, TypeOK, ThreadInv, ChildKept,
      CallLabels, KidLabels, children, threads
<1>10. PollerSole'
  BY DEF Move, Reset, IInv, TypeOK, PollerSole, children
<1>11. SharedInv' /\ ClosesInv'
  BY DEF Move, Reset, IInv, SharedInv, ClosesInv, Alive, handles, children
<1> QED  BY <1>1, <1>2, <1>3, <1>4, <1>5, <1>6, <1>7, <1>8, <1>9, <1>10,
    <1>11 DEF IInv

\* A dropped adapter frees its child only when it is the last one.
LEMMA DropPreserves ==
  ASSUME IInv, NEW t \in Thread, NEW a \in Adapter, Drop(t, a)
  PROVE  IInv'
<1>1. TypeOK'
  BY DEF Drop, Reset, DestroyLabel, Goto, IInv, TypeOK, ChildInv, Labels,
      handles, children, threads
<1>2. LockInv'
  BY DEF Drop, Reset, DestroyLabel, Goto, IInv, TypeOK, LockInv,
      LockedLabels, handles, threads
<1>3. ThreadInv'
  BY DEF Drop, Reset, DestroyLabel, Goto, Unused, DeviceOf, IInv, TypeOK,
      ThreadInv, CtorLabels, CallLabels, BuildLabels, KidLabels, children,
      threads
<1>4. CtorInv'
  BY DEF Drop, Reset, DestroyLabel, Goto, IInv, TypeOK, CtorInv, CtorLabels,
      BuildLabels, threads
<1>5. SoleInv'
  BY DEF Drop, Reset, DestroyLabel, Goto, IInv, TypeOK, SoleInv, Alive,
      CtorLabels, BuildLabels, SoleLabels, handles, children, threads
<1>6. KidInv'
  BY DEF Drop, Reset, Holders, IInv, TypeOK, ChildInv, KidInv, children,
      threads
<1>7. HandleKept'
  BY DEF Drop, Reset, Goto, IInv, TypeOK, HandleKept, Alive, CtorLabels,
      BuildLabels, SoleLabels, handles, children, threads
<1>8. ChildKept'
  BY DEF Drop, Reset, Holders, IInv, TypeOK, ThreadInv, ChildKept,
      CallLabels, KidLabels, children, threads
<1>9. SharedInv' /\ ChildInv' /\ ClosesInv' /\ PollerSole'
  BY DEF Drop, Reset, IInv, SharedInv, ChildInv, ClosesInv, PollerSole,
      Alive, handles, children
<1> QED  BY <1>1, <1>2, <1>3, <1>4, <1>5, <1>6, <1>7, <1>8, <1>9 DEF IInv

\* Closing a Device closes the handle only when it is the last owner.
LEMMA CloseRootPreserves ==
  ASSUME IInv, NEW t \in Thread, NEW o \in Root, CloseRoot(t, o)
  PROVE  IInv'
<1>1. TypeOK'
  BY DEF CloseRoot, Release, Goto, IInv, TypeOK, Labels, handles, children
<1>2. LockInv'
  BY DEF CloseRoot, Release, Goto, IInv, TypeOK, LockInv, LockedLabels,
      handles
<1>3. ThreadInv'
  BY DEF CloseRoot, Release, Goto, Unused, DeviceOf, IInv, TypeOK, ThreadInv,
      CtorLabels, CallLabels, BuildLabels, KidLabels, children
<1>4. CtorInv'
  BY DEF CloseRoot, Release, Goto, IInv, TypeOK, ThreadInv, CtorInv,
      CtorLabels, CallLabels, BuildLabels
<1>5. SoleInv'
  BY SortsDistinct DEF CloseRoot, Release, Goto, Owners, IInv, TypeOK,
      SoleInv, SharedInv, Alive, CtorLabels, BuildLabels, SoleLabels,
      handles, children
<1>6. HandleKept'
  BY DEF CloseRoot, Release, Goto, Owners, IInv, TypeOK, HandleKept, Alive,
      CtorLabels, BuildLabels, SoleLabels, handles, children
<1>7. SharedInv' /\ ChildInv' /\ KidInv' /\ ChildKept' /\ ClosesInv' /\
    PollerSole'
  BY DEF CloseRoot, IInv, SharedInv, ChildInv, KidInv, ChildKept, ClosesInv,
      PollerSole, Alive, handles, children
<1> QED  BY <1>1, <1>2, <1>3, <1>4, <1>5, <1>6, <1>7 DEF IInv

\* Moving a Device passes its share on, and gives up what the target had.
LEMMA MoveRootPreserves ==
  ASSUME IInv, NEW t \in Thread, NEW o \in Root, NEW p \in Root,
         MoveRoot(t, o, p)
  PROVE  IInv'
<1>1. TypeOK'
  BY DEF MoveRoot, Release, Goto, IInv, TypeOK, LockInv, ThreadInv, CtorInv,
      ChildInv, Labels, handles, children, threads
<1>2. LockInv'
  BY DEF MoveRoot, Release, Goto, IInv, TypeOK, LockInv, LockedLabels,
      handles, threads
<1>3. ThreadInv'
  BY DEF MoveRoot, Release, Goto, Unused, DeviceOf, IInv, TypeOK, ThreadInv,
      CtorLabels, CallLabels, BuildLabels, KidLabels, children, threads
<1>4. CtorInv'
  BY DEF MoveRoot, Release, Goto, IInv, TypeOK, ThreadInv, CtorInv,
      CtorLabels, CallLabels, BuildLabels, threads
<1>5. SoleInv'
  BY SortsDistinct DEF MoveRoot, Release, Goto, Owners, IInv, TypeOK,
      SoleInv, SharedInv, Alive, CtorLabels, BuildLabels, SoleLabels,
      handles, children, threads
<1>6. SharedInv'
  BY DEF MoveRoot, IInv, TypeOK, SharedInv, Alive, handles, children
<1>7. HandleKept'
  BY DEF MoveRoot, Release, Goto, Owners, IInv, TypeOK, HandleKept, Alive,
      CtorLabels, BuildLabels, SoleLabels, handles, children, threads
<1>8. ChildInv' /\ KidInv' /\ ChildKept' /\ ClosesInv' /\ PollerSole'
  BY DEF MoveRoot, IInv, ChildInv, KidInv, ChildKept, ClosesInv, PollerSole,
      handles, children, threads
<1> QED  BY <1>1, <1>2, <1>3, <1>4, <1>5, <1>6, <1>7, <1>8 DEF IInv

\* Detaching the bus touches a child that no adapter can reach.
LEMMA SmbusClosePreserves ==
  ASSUME IInv, NEW t \in Thread, SmbusClose(t)
  PROVE  IInv'
<1>1. TypeOK'
  BY DEF SmbusClose, Goto, IInv, TypeOK, ThreadInv, Labels, handles
<1>2. LockInv'
  BY DEF SmbusClose, Goto, IInv, LockInv, LockedLabels, handles
<1>3. ThreadInv'
  BY DEF SmbusClose, Goto, DeviceOf, IInv, ThreadInv, CtorLabels, CallLabels,
      BuildLabels, KidLabels
<1>4. CtorInv'
  BY DEF SmbusClose, Goto, IInv, CtorInv, CtorLabels, BuildLabels
<1>5. SoleInv'
  BY DEF SmbusClose, Goto, IInv, SoleInv, Alive, CtorLabels, BuildLabels,
      SoleLabels, handles
<1>6. ChildInv'
  BY DEF SmbusClose, IInv, ChildInv, KidInv
<1>7. HandleKept'
  BY DEF SmbusClose, Goto, IInv, HandleKept, Alive, CtorLabels, BuildLabels,
      SoleLabels, handles
<1>8. SharedInv' /\ KidInv' /\ ChildKept' /\ ClosesInv' /\ PollerSole'
  BY DEF SmbusClose, IInv, SharedInv, KidInv, ChildKept, ClosesInv,
      PollerSole, Alive, handles
<1> QED  BY <1>1, <1>2, <1>3, <1>4, <1>5, <1>6, <1>7, <1>8 DEF IInv

\* A freed child gives up its share, and the handle when it is the last.
LEMMA FreeKidPreserves ==
  ASSUME IInv, NEW t \in Thread, FreeKid(t)
  PROVE  IInv'
<1>1. TypeOK'
  BY DEF FreeKid, Release, Goto, IInv, TypeOK, ThreadInv, Labels, handles
<1>2. LockInv'
  BY DEF FreeKid, Release, Goto, IInv, TypeOK, LockInv, LockedLabels, handles
<1>3. ThreadInv'
  BY DEF FreeKid, Release, Goto, DeviceOf, IInv, TypeOK, ThreadInv, KidInv,
      Object, CtorLabels, CallLabels, BuildLabels
<1>4. CtorInv'
  BY DEF FreeKid, Release, Goto, IInv, TypeOK, ThreadInv, CtorInv,
      CtorLabels, CallLabels, BuildLabels
<1>5. SoleInv'
  BY SortsDistinct DEF FreeKid, Release, Goto, Owners, IInv, TypeOK, SoleInv,
      SharedInv, Alive, CtorLabels, BuildLabels, SoleLabels, handles
<1>6. ChildInv'
  BY DEF FreeKid, IInv, TypeOK, ChildInv, KidInv
<1>7. KidInv'
  BY DEF FreeKid, IInv, TypeOK, KidInv
<1>8. HandleKept'
  BY DEF FreeKid, Release, Goto, Owners, IInv, TypeOK, ThreadInv, HandleKept,
      Alive, CtorLabels, BuildLabels, SoleLabels, handles
<1>9. ChildKept'
  BY DEF FreeKid, IInv, TypeOK, ChildKept
<1>10. SharedInv' /\ ClosesInv' /\ PollerSole'
  BY DEF FreeKid, IInv, SharedInv, ClosesInv, PollerSole, Alive, handles
<1> QED  BY <1>1, <1>2, <1>3, <1>4, <1>5, <1>6, <1>7, <1>8, <1>9, <1>10 DEF
    IInv

\* A handle is closed by the one thread that has it, and by no other.
LEMMA CloseNativePreserves ==
  ASSUME IInv, NEW t \in Thread, CloseNative(t)
  PROVE  IInv'
<1>1. TypeOK'
  BY DEF CloseNative, Goto, Return, IInv, TypeOK, Labels, children
<1>2. LockInv'
  BY DEF CloseNative, Goto, Return, IInv, LockInv, LockedLabels
<1>3. ThreadInv'
  BY DEF CloseNative, Goto, Return, DeviceOf, IInv, ThreadInv, CtorLabels,
      CallLabels, BuildLabels, KidLabels, children
<1>4. CtorInv'
  BY DEF CloseNative, Goto, Return, IInv, ThreadInv, CtorInv, CtorLabels,
      CallLabels, BuildLabels
<1>5. SoleInv'
  BY DEF CloseNative, Goto, Return, IInv, TypeOK, SoleInv, Alive, CtorLabels,
      BuildLabels, SoleLabels, children
<1>6. SharedInv'
  BY DEF CloseNative, IInv, SoleInv, SharedInv, Alive, SoleLabels, children
<1>7. HandleKept'
  BY DEF CloseNative, Goto, Return, IInv, TypeOK, ThreadInv, HandleKept,
      Alive, children
<1>8. ClosesInv'
  BY DEF CloseNative, IInv, SoleInv, ClosesInv, Alive, SoleLabels
<1>9. ChildInv' /\ KidInv' /\ ChildKept' /\ PollerSole'
  BY DEF CloseNative, IInv, ChildInv, KidInv, ChildKept, PollerSole, children
<1> QED  BY <1>1, <1>2, <1>3, <1>4, <1>5, <1>6, <1>7, <1>8, <1>9 DEF IInv
-----------------------------------------------------------------------------
\* The invariant holds before anything was done.
LEMMA InitInvariant == Init => IInv
<1> SUFFICES ASSUME Init PROVE IInv
  OBVIOUS
<1> USE SortsDistinct DEF Init
<1>1. TypeOK /\ PollerSole
  BY DEF TypeOK, PollerSole, Labels, Object
<1>2. LockInv /\ ThreadInv /\ CtorInv /\ SoleInv
  BY DEF LockInv, ThreadInv, CtorInv, SoleInv, LockedLabels, CtorLabels,
      CallLabels, BuildLabels, SoleLabels, KidLabels
<1>3. SharedInv /\ ChildInv /\ KidInv
  BY DEF SharedInv, ChildInv, KidInv
<1>4. HandleKept /\ ChildKept /\ ClosesInv
  BY DEF HandleKept, ChildKept, ClosesInv, Alive
<1> QED  BY <1>1, <1>2, <1>3, <1>4 DEF IInv

\* Whatever an idle thread begins preserves the invariant.
LEMMA StartPreserves ==
  ASSUME IInv, NEW t \in Thread, Start(t)
  PROVE  IInv'
<1>1. CASE \E o \in Root, d \in State : Open(t, o, d)
  BY <1>1, OpenPreserves
<1>2. CASE \E o \in Object : BeginCall(t, o)
  BY <1>2, BeginCallPreserves
<1>3. CASE \E o \in Root, c \in Child, k \in Kinds : BeginFactory(t, o, c, k)
  BY <1>3, BeginFactoryPreserves
<1>4. CASE \E o \in Root, c \in Child, a \in Adapter : NewPoller(t, o, c, a)
  BY <1>4, NewPollerPreserves
<1>5. CASE \E a, b \in Adapter : Copy(t, a, b) \/ Move(t, a, b)
  BY <1>5, CopyPreserves, MovePreserves
<1>6. CASE \E a \in Adapter : Drop(t, a)
  BY <1>6, DropPreserves
<1>7. CASE \E o \in Root : CloseRoot(t, o)
  BY <1>7, CloseRootPreserves
<1>8. CASE \E o, p \in Root : MoveRoot(t, o, p)
  BY <1>8, MoveRootPreserves
<1> QED
  BY <1>1, <1>2, <1>3, <1>4, <1>5, <1>6, <1>7, <1>8 DEF Start

\* Every step of an operation that has begun preserves the invariant.
LEMMA ContinuePreserves ==
  ASSUME IInv, NEW t \in Thread, Continue(t)
  PROVE  IInv'
<1>1. CASE AllocFails(t) \/ Adopt(t)
  BY <1>1, AllocFailsPreserves, AdoptPreserves
<1>2. CASE \/ CtorLock(t) \/ SafeSpeed(t) \/ TargetSpeed(t)
           \/ CtorThrows(t) \/ CtorUnwind(t)
  BY <1>2, CtorLockPreserves, SafeSpeedPreserves, TargetSpeedPreserves,
      CtorThrowsPreserves, CtorUnwindPreserves
<1>3. CASE Lock(t) \/ EnterNative(t) \/ LeaveNative(t) \/ RejectLocked(t)
  BY <1>3, LockPreserves, EnterNativePreserves, LeaveNativePreserves,
      RejectLockedPreserves
<1>4. CASE \E a \in Adapter : InitOk(t, a)
  BY <1>4, InitOkPreserves
<1>5. CASE InitFails(t) \/ InitIgnored(t)
  BY <1>5, InitFailsPreserves, InitIgnoredPreserves
<1>6. CASE SmbusClose(t) \/ FreeKid(t) \/ CloseNative(t)
  BY <1>6, SmbusClosePreserves, FreeKidPreserves, CloseNativePreserves
<1> QED
  BY <1>1, <1>2, <1>3, <1>4, <1>5, <1>6 DEF Continue

\* A step that changes no variable preserves the invariant.
LEMMA StutterPreserves ==
  ASSUME IInv, UNCHANGED vars
  PROVE  IInv'
<1> USE DEF vars, handles, children, threads
<1>1. TypeOK' /\ PollerSole' /\ ClosesInv' /\ CtorInv'
  BY DEF IInv, TypeOK, PollerSole, ClosesInv, CtorInv
<1>2. LockInv' /\ ThreadInv' /\ ChildInv' /\ KidInv'
  BY DEF IInv, LockInv, ThreadInv, ChildInv, KidInv, DeviceOf
<1>3. SoleInv' /\ SharedInv' /\ HandleKept' /\ ChildKept'
  BY DEF IInv, SoleInv, SharedInv, HandleKept, ChildKept, Alive
<1> QED  BY <1>1, <1>2, <1>3 DEF IInv

\* Every step preserves the invariant.
LEMMA NextPreserves == IInv /\ [Next]_vars => IInv'
<1> SUFFICES ASSUME IInv, [Next]_vars PROVE IInv'
  OBVIOUS
<1>1. CASE \E t \in Thread : Start(t) \/ Continue(t)
  BY <1>1, StartPreserves, ContinuePreserves
<1>2. CASE Finished
  BY <1>2, StutterPreserves DEF Finished
<1>3. CASE UNCHANGED vars
  BY <1>3, StutterPreserves
<1> QED  BY <1>1, <1>2, <1>3 DEF Next

\* The invariant holds in every state the program reaches, whatever the
\* number of threads, objects and handles.
THEOREM Invariant == Spec => []IInv
<1>1. Init => IInv
  BY InitInvariant
<1>2. IInv /\ [Next]_vars => IInv'
  BY NextPreserves
<1> QED  BY <1>1, <1>2, PTL DEF Spec

-----------------------------------------------------------------------------
(* What the invariant gives to a user of the library *)

\* Every variable keeps its type, and whoever runs something has a device:
\* the null checks of requireOpen and requireState are enough.
THEOREM TypeCorrect == Spec => []TypeOK
<1>1. IInv => TypeOK
  BY DEF IInv
<1> QED  BY <1>1, Invariant, PTL

\* Native calls on one handle never overlap, whichever objects they come
\* from: the constructor and every method lock the one mutex of the device.
THEOREM CallsSerialized == Spec => []NativeCallsSerialized
<1>1. IInv => NativeCallsSerialized
  BY DEF IInv, TypeOK, LockInv, ThreadInv, NativeCallsSerialized, Calling,
      LockedLabels
<1> QED  BY <1>1, Invariant, PTL

\* The pointer that slave or bus remembers is always that of the device whose
\* mutex the caller holds.
THEOREM LockedIsCalled == Spec => []LockedDeviceIsCalled
<1>1. IInv => LockedDeviceIsCalled
  BY DEF IInv, LockInv, ThreadInv, LockedDeviceIsCalled, LockedLabels
<1> QED  BY <1>1, Invariant, PTL

\* No call, waiting or under way, refers to a handle that was closed.
THEOREM NoneUsedAfterClose == Spec => []NoUseAfterClose
<1>1. ASSUME IInv, NEW t \in Thread, pc[t] # "idle"
      PROVE  Alive(dev[t])
  <2>1. CASE pc[t] \in SoleLabels
    BY <1>1, <2>1 DEF IInv, SoleInv
  <2>2. CASE pc[t] \in CallLabels
    BY <1>1, <2>2, SortsDistinct
    DEF IInv, TypeOK, ThreadInv, SharedInv, DeviceOf, Object
  <2>3. CASE pc[t] \in {"dtorKid", "freeKid"}
    BY <1>1, <2>3, SortsDistinct DEF IInv, TypeOK, ThreadInv, SharedInv
  <2> QED
    BY <1>1, <2>1, <2>2, <2>3
    DEF IInv, TypeOK, Labels, CtorLabels, CallLabels, BuildLabels, SoleLabels
<1>2. IInv => NoUseAfterClose
  BY <1>1 DEF NoUseAfterClose
<1> QED  BY <1>2, Invariant, PTL

\* A handle is closed at most once, and while it is open it has owners or
\* exactly one thread that will close it: none leaks.
THEOREM HandlesOwned == Spec => []HandleOwned
<1>1. ASSUME IInv, NEW d \in State
      PROVE  /\ closes[d] <= 1
             /\ Alive(d) /\ Owners(d) = {} => \E t \in Thread : Guardian(t, d)
             /\ \A t, u \in Thread : Guardian(t, d) /\ Guardian(u, d) => t = u
             /\ \A t \in Thread : Guardian(t, d) => Owners(d) = {}
  <2>1. closes[d] <= 1
    BY <1>1 DEF IInv, ClosesInv
  <2>2. Alive(d) /\ Owners(d) = {} => \E t \in Thread : Guardian(t, d)
    BY <1>1 DEF IInv, HandleKept, Owners, Guardian, SoleLabels, BuildLabels
  <2>3. \A t, u \in Thread : Guardian(t, d) /\ Guardian(u, d) => t = u
    BY <1>1 DEF IInv, SoleInv, Guardian, SoleLabels, BuildLabels
  <2>4. \A t \in Thread : Guardian(t, d) => Owners(d) = {}
    BY <1>1 DEF IInv, SoleInv, Owners, Guardian, SoleLabels, BuildLabels,
        CtorLabels
  <2> QED  BY <2>1, <2>2, <2>3, <2>4
<1>2. IInv => HandleOwned
  BY <1>1 DEF HandleOwned
<1> QED  BY <1>2, Invariant, PTL

\* A child is used by adapters or held by one thread, never both: none leaks
\* and none is freed twice.
THEOREM ChildrenOwned == Spec => []ChildOwned
<1>1. IInv => ChildOwned
  BY SortsDistinct
  DEF IInv, ChildInv, KidInv, ChildKept, ChildOwned, Holders
<1> QED  BY <1>1, Invariant, PTL

\* Whatever an adapter can reach is open, and the handle C remembers is the
\* one the child keeps alive.
THEOREM AdaptersReachTheirDevice == Spec => []AdapterReachesItsDevice
<1>1. IInv => AdapterReachesItsDevice
  BY SortsDistinct
  DEF IInv, TypeOK, SharedInv, ChildInv, AdapterReachesItsDevice
<1> QED  BY <1>1, Invariant, PTL

\* Native calls on the C struct inside a child and its destruction never
\* overlap, though the destructor runs without the mutex.
THEOREM StructsExclusive == Spec => []StructExclusive
<1>1. ASSUME IInv, NEW c \in Child, NEW t \in Thread, NEW u \in Thread,
             Touching(t, c), Touching(u, c)
      PROVE  t = u
  <2>1. CASE kid[t] = c \/ kid[u] = c
    \* The child has no adapter to be touched through.
    <3>1. \A a \in Adapter : adapter[a] # c
      BY <1>1, <2>1, SortsDistinct DEF IInv, KidInv
    <3>2. kid[t] = c /\ kid[u] = c
      BY <1>1, <3>1 DEF Touching
    <3> QED  BY <1>1, <3>2, SortsDistinct DEF IInv, KidInv
  <2>2. CASE kid[t] # c /\ kid[u] # c
    \* Both are inside native calls, under the mutex of the child's device.
    <3>1. /\ pc[t] = "native" /\ obj[t] \in Adapter /\ adapter[obj[t]] = c
          /\ pc[u] = "native" /\ obj[u] \in Adapter /\ adapter[obj[u]] = c
      BY <1>1, <2>2 DEF Touching
    <3>2. dev[t] = device[c] /\ dev[u] = device[c]
      BY <1>1, <3>1, SortsDistinct DEF IInv, ThreadInv, DeviceOf, CallLabels
    <3> QED  BY <1>1, <3>1, <3>2 DEF IInv, LockInv, LockedLabels
  <2> QED  BY <2>1, <2>2
<1>2. IInv => StructExclusive
  BY <1>1 DEF StructExclusive
<1> QED  BY <1>2, Invariant, PTL

\* The change history of a poller has one owner.
THEOREM PollersSole == Spec => []PollerSole
<1>1. IInv => PollerSole
  BY DEF IInv
<1> QED  BY <1>1, Invariant, PTL

\* A finished Device, and what was made from it, has had its whole I2C set-up.
THEOREM ReachablesReady == Spec => []ReachableIsReady
<1>1. IInv => ReachableIsReady
  BY SortsDistinct
  DEF IInv, TypeOK, SharedInv, ReachableIsReady, DeviceOf, Object
<1> QED  BY <1>1, Invariant, PTL
=============================================================================
