----------------------- MODULE DeviceRefinementProofs -----------------------
(***************************************************************************)
(* DeviceLifetime implements SerializedHandle: under the mapping of        *)
(* DeviceLifetime!Handle, every step is a step in the life of one handle   *)
(* or changes nothing the outside can see.  Each action is examined in a   *)
(* state that satisfies the inductive invariant.                           *)
(***************************************************************************)
EXTENDS DeviceLifetimeProofs

\* A step that moves one handle to another phase and leaves the callers of
\* all alone is a Become step of the abstract handle.
LEMMA BecomeMaps ==
  ASSUME NEW d \in State, NEW from, NEW to,
         HandlePhase(d) = from, HandlePhase(d)' = to,
         \A e \in State \ {d} : HandlePhase(e)' = HandlePhase(e),
         \A e \in State : Callers(e)' = Callers(e)
  PROVE  Handle!Become(d, from, to)
  BY DEF Handle!Become

\* A step that changes neither phases nor callers is invisible.
LEMMA StutterMaps ==
  ASSUME \A e \in State : HandlePhase(e)' = HandlePhase(e),
         \A e \in State : Callers(e)' = Callers(e)
  PROVE  UNCHANGED Handle!vars
  BY DEF Handle!vars

\* A step that makes t the only caller of a held, unused handle enters it.
LEMMA EnterMaps ==
  ASSUME NEW t \in Thread, NEW d \in State,
         HandlePhase(d) = "held", Callers(d) = {}, Callers(d)' = {t},
         \A e \in State \ {d} : Callers(e)' = Callers(e),
         \A e \in State : HandlePhase(e)' = HandlePhase(e)
  PROVE  Handle!Enter(t, d)
  BY DEF Handle!Enter

\* A step after which the only caller t of a handle is gone leaves it.
LEMMA LeaveMaps ==
  ASSUME NEW t \in Thread, NEW d \in State,
         Callers(d) = {t}, Callers(d)' = {},
         \A e \in State \ {d} : Callers(e)' = Callers(e),
         \A e \in State : HandlePhase(e)' = HandlePhase(e)
  PROVE  Handle!Leave(t, d)
  BY DEF Handle!Leave

-----------------------------------------------------------------------------
\* A successful scan opens a handle that was absent.
LEMMA OpenMaps ==
  ASSUME IInv, NEW t \in Thread, NEW o \in Root, NEW d \in State,
         Open(t, o, d)
  PROVE  Handle!Next \/ UNCHANGED Handle!vars
<1>1. d \in State
  BY DEF Open
<1>2. HandlePhase(d) = "absent"
  BY SortsDistinct DEF Open, IInv, ClosesInv, HandlePhase
<1>3. \A e \in State :
       HandlePhase(e)' = IF e = d THEN "guarded" ELSE HandlePhase(e)
  BY SortsDistinct DEF Open, Goto, IInv, TypeOK, ClosesInv, HandlePhase,
      Owners, CtorLabels, children
<1>4. \A e \in State : Callers(e)' = Callers(e)
  BY DEF Open, Goto, Callers, Calling
<1>5. Handle!Become(d, "absent", "guarded")
  BY <1>1, <1>2, <1>3, <1>4, BecomeMaps
<1> QED  BY <1>1, <1>5 DEF Handle!Next, Handle!Open, Handle!Adopt,
    Handle!Abandon, Handle!Close

\* A failed allocation abandons the handle to its guard.
LEMMA AllocFailsMaps ==
  ASSUME IInv, NEW t \in Thread, AllocFails(t)
  PROVE  Handle!Next \/ UNCHANGED Handle!vars
<1>1. dev[t] \in State
  BY DEF AllocFails, IInv, TypeOK
<1>2. HandlePhase(dev[t]) = "guarded"
  BY DEF AllocFails, IInv, SoleInv, HandlePhase, Alive, BuildLabels,
      SoleLabels
<1>3. \A e \in State :
       HandlePhase(e)' = IF e = dev[t] THEN "closed" ELSE HandlePhase(e)
  BY SortsDistinct DEF AllocFails, Goto, Return, IInv, TypeOK, HandlePhase,
      Owners, children
<1>4. \A e \in State : Callers(e)' = Callers(e)
  BY DEF AllocFails, Goto, Return, Callers, Calling
<1>5. Handle!Become(dev[t], "guarded", "closed")
  BY <1>1, <1>2, <1>3, <1>4, BecomeMaps
<1> QED  BY <1>1, <1>5 DEF Handle!Next, Handle!Open, Handle!Adopt,
    Handle!Abandon, Handle!Close

\* The DeviceState adopts the handle from its guard.
LEMMA AdoptMaps ==
  ASSUME IInv, NEW t \in Thread, Adopt(t)
  PROVE  Handle!Next \/ UNCHANGED Handle!vars
<1>1. dev[t] \in State
  BY DEF Adopt, IInv, TypeOK
<1>2. HandlePhase(dev[t]) = "guarded"
  BY DEF Adopt, IInv, SoleInv, HandlePhase, Alive, BuildLabels, SoleLabels
<1>3. \A e \in State :
       HandlePhase(e)' = IF e = dev[t] THEN "held" ELSE HandlePhase(e)
  BY DEF Adopt, Goto, IInv, TypeOK, SoleInv, HandlePhase, Owners, Alive,
      CtorLabels, BuildLabels, SoleLabels, handles, children
<1>4. \A e \in State : Callers(e)' = Callers(e)
  BY DEF Adopt, Goto, Callers, Calling
<1>5. Handle!Become(dev[t], "guarded", "held")
  BY <1>1, <1>2, <1>3, <1>4, BecomeMaps
<1> QED  BY <1>1, <1>5 DEF Handle!Next, Handle!Open, Handle!Adopt,
    Handle!Abandon, Handle!Close

\* A constructor that locks the mutex enters the first native call.
LEMMA CtorLockMaps ==
  ASSUME IInv, NEW t \in Thread, CtorLock(t)
  PROVE  Handle!Next \/ UNCHANGED Handle!vars
<1>1. dev[t] \in State
  BY DEF CtorLock, IInv, TypeOK
<1>2. \A e \in State : HandlePhase(e)' = HandlePhase(e)
  BY DEF CtorLock, Goto, HandlePhase, Owners, CtorLabels, children
<1>3. HandlePhase(dev[t]) = "held"
  BY DEF CtorLock, IInv, SoleInv, HandlePhase, Owners, Alive, CtorLabels,
      BuildLabels, SoleLabels
<1>4. Callers(dev[t]) = {}
  BY SortsDistinct DEF CtorLock, IInv, LockInv, ThreadInv, Callers, Calling,
      LockedLabels
<1>5. \A e \in State : Callers(e)' = IF e = dev[t] THEN {t} ELSE Callers(e)
  BY DEF CtorLock, Goto, DeviceOf, IInv, TypeOK, ThreadInv, SoleInv, Callers,
      Calling, Object, CtorLabels, CallLabels, BuildLabels, SoleLabels
<1>6. Handle!Enter(t, dev[t])
  BY <1>1, <1>2, <1>3, <1>4, <1>5, EnterMaps
<1> QED  BY <1>1, <1>6 DEF Handle!Next

\* The constructor goes from one native call to the next without leaving.
LEMMA SafeSpeedMaps ==
  ASSUME IInv, NEW t \in Thread, SafeSpeed(t)
  PROVE  Handle!Next \/ UNCHANGED Handle!vars
<1>1. \A e \in State : HandlePhase(e)' = HandlePhase(e)
  BY DEF SafeSpeed, Goto, HandlePhase, Owners, CtorLabels, children
<1>2. \A e \in State : Callers(e)' = Callers(e)
  BY DEF SafeSpeed, Goto, Callers, Calling
<1> QED  BY <1>1, <1>2, StutterMaps

\* A constructor that is done leaves; the handle stays held by its Device.
LEMMA TargetSpeedMaps ==
  ASSUME IInv, NEW t \in Thread, TargetSpeed(t)
  PROVE  Handle!Next \/ UNCHANGED Handle!vars
<1>1. dev[t] \in State
  BY DEF TargetSpeed, IInv, TypeOK
<1>2. \A e \in State : HandlePhase(e)' = HandlePhase(e)
  BY SortsDistinct DEF TargetSpeed, Goto, Return, IInv, TypeOK, ThreadInv,
      HandlePhase, Owners, CtorLabels, BuildLabels, children
<1>3. Callers(dev[t]) = {t}
  BY DEF TargetSpeed, IInv, LockInv, ThreadInv, Callers, Calling,
      LockedLabels
<1>4. \A e \in State : Callers(e)' = IF e = dev[t] THEN {} ELSE Callers(e)
  BY DEF TargetSpeed, Goto, Return, DeviceOf, IInv, TypeOK, ThreadInv,
      SoleInv, Callers, Calling, Object, CtorLabels, CallLabels, BuildLabels,
      SoleLabels
<1>5. Handle!Leave(t, dev[t])
  BY <1>1, <1>2, <1>3, <1>4, LeaveMaps
<1> QED  BY <1>1, <1>5 DEF Handle!Next

\* A constructor that throws leaves, still holding the handle.
LEMMA CtorThrowsMaps ==
  ASSUME IInv, NEW t \in Thread, CtorThrows(t)
  PROVE  Handle!Next \/ UNCHANGED Handle!vars
<1>1. dev[t] \in State
  BY DEF CtorThrows, IInv, TypeOK
<1>2. \A e \in State : HandlePhase(e)' = HandlePhase(e)
  BY DEF CtorThrows, Goto, HandlePhase, Owners, CtorLabels, children
<1>3. Callers(dev[t]) = {t}
  BY DEF CtorThrows, IInv, LockInv, ThreadInv, Callers, Calling, LockedLabels
<1>4. \A e \in State : Callers(e)' = IF e = dev[t] THEN {} ELSE Callers(e)
  BY DEF CtorThrows, Goto, DeviceOf, IInv, TypeOK, ThreadInv, SoleInv,
      Callers, Calling, Object, CtorLabels, CallLabels, BuildLabels,
      SoleLabels
<1>5. Handle!Leave(t, dev[t])
  BY <1>1, <1>2, <1>3, <1>4, LeaveMaps
<1> QED  BY <1>1, <1>5 DEF Handle!Next

\* An unwound constructor was the only owner and lets go of the handle.
LEMMA CtorUnwindMaps ==
  ASSUME IInv, NEW t \in Thread, CtorUnwind(t)
  PROVE  Handle!Next \/ UNCHANGED Handle!vars
<1>1. dev[t] \in State
  BY DEF CtorUnwind, IInv, TypeOK
<1>2. HandlePhase(dev[t]) = "held"
  BY DEF CtorUnwind, IInv, SoleInv, HandlePhase, Owners, Alive,
      CtorLabels, BuildLabels, SoleLabels
<1>3. \A e \in State :
       HandlePhase(e)' = IF e = dev[t] THEN "released" ELSE HandlePhase(e)
  BY DEF CtorUnwind, Goto, IInv, TypeOK, SoleInv, HandlePhase, Owners,
      Alive, CtorLabels, BuildLabels, SoleLabels, handles, children
<1>4. \A e \in State : Callers(e)' = Callers(e)
  BY DEF CtorUnwind, Goto, Callers, Calling
<1>5. Callers(dev[t]) = {}
  BY DEF CtorUnwind, DeviceOf, IInv, TypeOK, ThreadInv, SoleInv,
      Callers, Calling, Object, CtorLabels, CallLabels, BuildLabels,
      SoleLabels
<1>6. Handle!Become(dev[t], "held", "released")
  BY <1>1, <1>2, <1>3, <1>4, BecomeMaps
<1> QED  BY <1>1, <1>5, <1>6 DEF Handle!Next, Handle!LetGo

\* A waiting call is invisible.
LEMMA BeginCallMaps ==
  ASSUME IInv, NEW t \in Thread, NEW o \in Object, BeginCall(t, o)
  PROVE  Handle!Next \/ UNCHANGED Handle!vars
<1>1. \A e \in State : HandlePhase(e)' = HandlePhase(e)
  BY DEF BeginCall, Goto, HandlePhase, Owners, CtorLabels, handles, children
<1>2. \A e \in State : Callers(e)' = Callers(e)
  BY DEF BeginCall, Goto, Callers, Calling
<1> QED  BY <1>1, <1>2, StutterMaps

\* Taking the mutex is invisible.
LEMMA LockMaps ==
  ASSUME IInv, NEW t \in Thread, Lock(t)
  PROVE  Handle!Next \/ UNCHANGED Handle!vars
<1>1. \A e \in State : HandlePhase(e)' = HandlePhase(e)
  BY DEF Lock, Goto, HandlePhase, Owners, CtorLabels, children
<1>2. \A e \in State : Callers(e)' = Callers(e)
  BY DEF Lock, Goto, Callers, Calling
<1> QED  BY <1>1, <1>2, StutterMaps

\* A method enters its native call, on a held handle that nobody is using.
LEMMA EnterNativeMaps ==
  ASSUME IInv, NEW t \in Thread, EnterNative(t)
  PROVE  Handle!Next \/ UNCHANGED Handle!vars
<1>1. dev[t] \in State
  BY DEF EnterNative, IInv, TypeOK
<1>2. \A e \in State : HandlePhase(e)' = HandlePhase(e)
  BY DEF EnterNative, Goto, HandlePhase, Owners, CtorLabels, handles,
      children
<1>3. HandlePhase(dev[t]) = "held"
  BY SortsDistinct DEF EnterNative, DeviceOf, IInv, TypeOK, ThreadInv,
      SoleInv, SharedInv, HandlePhase, Owners, Alive, Object, CallLabels,
      BuildLabels, SoleLabels
<1>4. Callers(dev[t]) = {}
  BY DEF EnterNative, IInv, LockInv, ThreadInv, Callers, Calling,
      LockedLabels
<1>5. \A e \in State : Callers(e)' = IF e = dev[t] THEN {t} ELSE Callers(e)
  BY SortsDistinct DEF EnterNative, Goto, HandleOf, ClassOf, DeviceOf, IInv,
      TypeOK, LockInv, ThreadInv, ChildInv, Callers, Calling, Object,
      LockedLabels, CallLabels
<1>6. Handle!Enter(t, dev[t])
  BY <1>1, <1>2, <1>3, <1>4, <1>5, EnterMaps
<1> QED  BY <1>1, <1>6 DEF Handle!Next

\* A method leaves its native call.
LEMMA LeaveNativeMaps ==
  ASSUME IInv, NEW t \in Thread, LeaveNative(t)
  PROVE  Handle!Next \/ UNCHANGED Handle!vars
<1>1. dev[t] \in State
  BY DEF LeaveNative, IInv, TypeOK
<1>2. \A e \in State : HandlePhase(e)' = HandlePhase(e)
  BY DEF LeaveNative, Goto, Return, HandlePhase, Owners, CtorLabels, children
<1>3. Callers(dev[t]) = {t}
  BY DEF LeaveNative, IInv, LockInv, ThreadInv, Callers, Calling,
      LockedLabels
<1>4. \A e \in State : Callers(e)' = IF e = dev[t] THEN {} ELSE Callers(e)
  BY DEF LeaveNative, Goto, Return, IInv, TypeOK, LockInv, ThreadInv,
      Callers, Calling, LockedLabels
<1>5. Handle!Leave(t, dev[t])
  BY <1>1, <1>2, <1>3, <1>4, LeaveMaps
<1> QED  BY <1>1, <1>5 DEF Handle!Next

\* A rejected call never entered.
LEMMA RejectLockedMaps ==
  ASSUME IInv, NEW t \in Thread, RejectLocked(t)
  PROVE  Handle!Next \/ UNCHANGED Handle!vars
<1>1. \A e \in State : HandlePhase(e)' = HandlePhase(e)
  BY DEF RejectLocked, Goto, Return, HandlePhase, Owners, CtorLabels,
      children
<1>2. \A e \in State : Callers(e)' = Callers(e)
  BY DEF RejectLocked, Goto, Return, Callers, Calling
<1> QED  BY <1>1, <1>2, StutterMaps

\* A child that takes its share of a held handle is invisible.
LEMMA BeginFactoryMaps ==
  ASSUME IInv, NEW t \in Thread, NEW o \in Root, NEW c \in Child,
         NEW k \in Kinds, BeginFactory(t, o, c, k)
  PROVE  Handle!Next \/ UNCHANGED Handle!vars
<1>1. \A e \in State : HandlePhase(e)' = HandlePhase(e)
  BY SortsDistinct DEF BeginFactory, Goto, IInv, ChildInv, HandlePhase,
      Owners, CtorLabels, handles
<1>2. \A e \in State : Callers(e)' = Callers(e)
  BY DEF BeginFactory, Goto, Callers, Calling
<1> QED  BY <1>1, <1>2, StutterMaps

\* A successful factory leaves its native call.
LEMMA InitOkMaps ==
  ASSUME IInv, NEW t \in Thread, NEW a \in Adapter, InitOk(t, a)
  PROVE  Handle!Next \/ UNCHANGED Handle!vars
<1>1. dev[t] \in State
  BY DEF InitOk, IInv, TypeOK
<1>2. \A e \in State : HandlePhase(e)' = HandlePhase(e)
  BY DEF InitOk, Goto, Return, HandlePhase, Owners, CtorLabels
<1>3. Callers(dev[t]) = {t}
  BY DEF InitOk, IInv, LockInv, ThreadInv, Callers, Calling, LockedLabels
<1>4. \A e \in State : Callers(e)' = IF e = dev[t] THEN {} ELSE Callers(e)
  BY DEF InitOk, Goto, Return, IInv, TypeOK, LockInv, ThreadInv, Callers,
      Calling, LockedLabels
<1>5. Handle!Leave(t, dev[t])
  BY <1>1, <1>2, <1>3, <1>4, LeaveMaps
<1> QED  BY <1>1, <1>5 DEF Handle!Next

\* A failed factory leaves its native call, unless it never entered it.
LEMMA InitFailsMaps ==
  ASSUME IInv, NEW t \in Thread, InitFails(t)
  PROVE  Handle!Next \/ UNCHANGED Handle!vars
<1>1. \A e \in State : HandlePhase(e)' = HandlePhase(e)
  BY DEF InitFails, Discard, DestroyLabel, Goto, HandlePhase, Owners,
      CtorLabels
<1>2. CASE pc[t] = "locked"
  <2>1. \A e \in State : Callers(e)' = Callers(e)
    BY <1>2 DEF InitFails, Discard, DestroyLabel, Goto, Callers, Calling
  <2> QED  BY <2>1, <1>1, StutterMaps
<1>3. CASE pc[t] = "native"
  <2>1. dev[t] \in State
    BY <1>3 DEF InitFails, IInv, TypeOK
  <2>2. Callers(dev[t]) = {t}
    BY <1>3 DEF InitFails, IInv, LockInv, ThreadInv, Callers, Calling,
        LockedLabels
  <2>3. \A e \in State : Callers(e)' = IF e = dev[t] THEN {} ELSE Callers(e)
    BY <1>3 DEF InitFails, Discard, DestroyLabel, Goto, IInv, TypeOK,
        LockInv, ThreadInv, Callers, Calling, LockedLabels
  <2>4. Handle!Leave(t, dev[t])
    BY <2>1, <2>2, <2>3, <1>1, LeaveMaps
  <2> QED  BY <2>1, <2>4 DEF Handle!Next
<1> QED  BY <1>2, <1>3 DEF InitFails

\* A factory whose result is ignored leaves its native call.
LEMMA InitIgnoredMaps ==
  ASSUME IInv, NEW t \in Thread, InitIgnored(t)
  PROVE  Handle!Next \/ UNCHANGED Handle!vars
<1>1. dev[t] \in State
  BY DEF InitIgnored, IInv, TypeOK
<1>2. \A e \in State : HandlePhase(e)' = HandlePhase(e)
  BY DEF InitIgnored, Discard, DestroyLabel, Goto, HandlePhase, Owners,
      CtorLabels
<1>3. Callers(dev[t]) = {t}
  BY DEF InitIgnored, IInv, LockInv, ThreadInv, Callers, Calling,
      LockedLabels
<1>4. \A e \in State : Callers(e)' = IF e = dev[t] THEN {} ELSE Callers(e)
  BY DEF InitIgnored, Discard, DestroyLabel, Goto, IInv, TypeOK, LockInv,
      ThreadInv, Callers, Calling, LockedLabels
<1>5. Handle!Leave(t, dev[t])
  BY <1>1, <1>2, <1>3, <1>4, LeaveMaps
<1> QED  BY <1>1, <1>5 DEF Handle!Next

\* A poller that takes its share of a held handle is invisible.
LEMMA NewPollerMaps ==
  ASSUME IInv, NEW t \in Thread, NEW o \in Root, NEW c \in Child,
         NEW a \in Adapter, NewPoller(t, o, c, a)
  PROVE  Handle!Next \/ UNCHANGED Handle!vars
<1>1. \A e \in State : HandlePhase(e)' = HandlePhase(e)
  BY SortsDistinct DEF NewPoller, IInv, ChildInv, HandlePhase, Owners,
      handles, threads
<1>2. \A e \in State : Callers(e)' = Callers(e)
  BY DEF NewPoller, Callers, Calling, threads
<1> QED  BY <1>1, <1>2, StutterMaps

\* Copying adapters does not change who owns a handle.
LEMMA CopyMaps ==
  ASSUME IInv, NEW t \in Thread, NEW a \in Adapter, NEW b \in Adapter,
         Copy(t, a, b)
  PROVE  Handle!Next \/ UNCHANGED Handle!vars
<1>1. \A e \in State : HandlePhase(e)' = HandlePhase(e)
  BY DEF Copy, Reset, DestroyLabel, Goto, IInv, TypeOK, HandlePhase, Owners,
      CtorLabels, handles, children, threads
<1>2. \A e \in State : Callers(e)' = Callers(e)
  BY DEF Copy, Reset, DestroyLabel, Goto, IInv, TypeOK, Callers, Calling,
      threads
<1> QED  BY <1>1, <1>2, StutterMaps

\* Moving adapters does not change who owns a handle.
LEMMA MoveMaps ==
  ASSUME IInv, NEW t \in Thread, NEW a \in Adapter, NEW b \in Adapter,
         Move(t, a, b)
  PROVE  Handle!Next \/ UNCHANGED Handle!vars
<1>1. \A e \in State : HandlePhase(e)' = HandlePhase(e)
  BY DEF Move, Reset, DestroyLabel, Goto, IInv, TypeOK, HandlePhase, Owners,
      CtorLabels, handles, children, threads
<1>2. \A e \in State : Callers(e)' = Callers(e)
  BY DEF Move, Reset, DestroyLabel, Goto, IInv, TypeOK, Callers, Calling,
      threads
<1> QED  BY <1>1, <1>2, StutterMaps

\* Dropping an adapter does not yet change who owns a handle.
LEMMA DropMaps ==
  ASSUME IInv, NEW t \in Thread, NEW a \in Adapter, Drop(t, a)
  PROVE  Handle!Next \/ UNCHANGED Handle!vars
<1>1. \A e \in State : HandlePhase(e)' = HandlePhase(e)
  BY DEF Drop, Reset, DestroyLabel, Goto, IInv, TypeOK, HandlePhase, Owners,
      CtorLabels, handles, children, threads
<1>2. \A e \in State : Callers(e)' = Callers(e)
  BY DEF Drop, Reset, DestroyLabel, Goto, IInv, TypeOK, Callers, Calling,
      threads
<1> QED  BY <1>1, <1>2, StutterMaps

\* Closing a Device lets go of the handle if it was the last owner.
LEMMA CloseRootMaps ==
  ASSUME IInv, NEW t \in Thread, NEW o \in Root, CloseRoot(t, o)
  PROVE  Handle!Next \/ UNCHANGED Handle!vars
<1>1. \A e \in State : Callers(e)' = Callers(e)
  BY DEF CloseRoot, Release, Goto, IInv, TypeOK, Callers, Calling
<1>2. CASE ~(Owners(root[o]) = {o})
  <2>1. \A e \in State : HandlePhase(e)' = HandlePhase(e)
    BY <1>2, SortsDistinct DEF CloseRoot, Release, Goto, IInv, TypeOK,
        HandlePhase, Owners, CtorLabels, handles, children
  <2> QED  BY <2>1, <1>1, StutterMaps
<1>3. CASE Owners(root[o]) = {o}
  <2>1. root[o] \in State
    BY <1>3 DEF CloseRoot, IInv, TypeOK
  <2>2. HandlePhase(root[o]) = "held"
    BY <1>3 DEF CloseRoot, IInv, SoleInv, SharedInv, HandlePhase, Alive,
        BuildLabels, SoleLabels
  <2>3. \A e \in State :
         HandlePhase(e)' = IF e = root[o] THEN "released" ELSE HandlePhase(e)
    BY <1>3, SortsDistinct DEF CloseRoot, Release, Goto, IInv, TypeOK,
        SoleInv, SharedInv, HandlePhase, Owners, Alive, CtorLabels,
        BuildLabels, SoleLabels, handles, children
  <2>4. Callers(root[o]) = {}
    BY <1>3, SortsDistinct DEF CloseRoot, Unused, DeviceOf, IInv, TypeOK,
        ThreadInv, Owners, Callers, Calling, Object, CtorLabels, CallLabels
  <2>5. Handle!Become(root[o], "held", "released")
    BY <2>1, <2>2, <2>3, <1>1, BecomeMaps
  <2> QED  BY <2>1, <2>4, <2>5 DEF Handle!Next, Handle!LetGo
<1> QED  BY <1>2, <1>3

\* Assigning to a Device lets go of what it had, if it was the last owner.
LEMMA MoveRootMaps ==
  ASSUME IInv, NEW t \in Thread, NEW o \in Root, NEW p \in Root,
         MoveRoot(t, o, p)
  PROVE  Handle!Next \/ UNCHANGED Handle!vars
<1>1. \A e \in State : Callers(e)' = Callers(e)
  BY DEF MoveRoot, Release, Goto, IInv, TypeOK, Callers, Calling, threads
<1>2. CASE ~(root[p] # Nil /\ Owners(root[p]) = {p})
  <2>1. \A e \in State : HandlePhase(e)' = HandlePhase(e)
    BY <1>2, SortsDistinct DEF MoveRoot, Release, Goto, IInv, TypeOK,
        HandlePhase, Owners, CtorLabels, handles, children, threads
  <2> QED  BY <2>1, <1>1, StutterMaps
<1>3. CASE root[p] # Nil /\ Owners(root[p]) = {p}
  <2>1. root[p] \in State
    BY <1>3 DEF MoveRoot, IInv, TypeOK
  <2>2. HandlePhase(root[p]) = "held"
    BY <1>3 DEF MoveRoot, IInv, SoleInv, SharedInv, HandlePhase, Alive,
        BuildLabels, SoleLabels
  <2>3. \A e \in State :
         HandlePhase(e)' = IF e = root[p] THEN "released" ELSE HandlePhase(e)
    BY <1>3, SortsDistinct DEF MoveRoot, Release, Goto, IInv, TypeOK,
        SoleInv, SharedInv, HandlePhase, Owners, Alive, CtorLabels,
        BuildLabels, SoleLabels, handles, children
  <2>4. Callers(root[p]) = {}
    BY <1>3, SortsDistinct DEF MoveRoot, Unused, DeviceOf, IInv, TypeOK,
        ThreadInv, Owners, Callers, Calling, Object, CtorLabels, CallLabels
  <2>5. Handle!Become(root[p], "held", "released")
    BY <2>1, <2>2, <2>3, <1>1, BecomeMaps
  <2> QED  BY <2>1, <2>4, <2>5 DEF Handle!Next, Handle!LetGo
<1> QED  BY <1>2, <1>3

\* Detaching the bus is invisible.
LEMMA SmbusCloseMaps ==
  ASSUME IInv, NEW t \in Thread, SmbusClose(t)
  PROVE  Handle!Next \/ UNCHANGED Handle!vars
<1>1. \A e \in State : HandlePhase(e)' = HandlePhase(e)
  BY DEF SmbusClose, Goto, HandlePhase, Owners, CtorLabels, handles
<1>2. \A e \in State : Callers(e)' = Callers(e)
  BY DEF SmbusClose, Goto, Callers, Calling
<1> QED  BY <1>1, <1>2, StutterMaps

\* Freeing a child lets go of its handle if it was the last owner.
LEMMA FreeKidMaps ==
  ASSUME IInv, NEW t \in Thread, FreeKid(t)
  PROVE  Handle!Next \/ UNCHANGED Handle!vars
<1>1. \A e \in State : Callers(e)' = Callers(e)
  BY DEF FreeKid, Release, Goto, IInv, TypeOK, Callers, Calling
<1>2. CASE ~(Owners(dev[t]) = {kid[t]})
  <2>1. \A e \in State : HandlePhase(e)' = HandlePhase(e)
    BY <1>2, SortsDistinct DEF FreeKid, Release, Goto, IInv, TypeOK,
        ThreadInv, HandlePhase, Owners, CtorLabels, handles
  <2> QED  BY <2>1, <1>1, StutterMaps
<1>3. CASE Owners(dev[t]) = {kid[t]}
  <2>1. dev[t] \in State
    BY <1>3 DEF FreeKid, IInv, TypeOK
  <2>2. HandlePhase(dev[t]) = "held"
    BY <1>3, SortsDistinct DEF FreeKid, IInv, TypeOK, SoleInv, SharedInv,
        HandlePhase, Owners, Alive, BuildLabels, SoleLabels
  <2>3. \A e \in State :
         HandlePhase(e)' = IF e = dev[t] THEN "released" ELSE HandlePhase(e)
    BY <1>3, SortsDistinct DEF FreeKid, Release, Goto, IInv, TypeOK, SoleInv,
        SharedInv, HandlePhase, Owners, Alive, CtorLabels, BuildLabels,
        SoleLabels, handles
  <2>4. Callers(dev[t]) = {}
    BY <1>3, SortsDistinct DEF FreeKid, DeviceOf, IInv, TypeOK, ThreadInv,
        KidInv, Owners, Callers, Calling, Object, CtorLabels, CallLabels
  <2>5. Handle!Become(dev[t], "held", "released")
    BY <2>1, <2>2, <2>3, <1>1, BecomeMaps
  <2> QED  BY <2>1, <2>4, <2>5 DEF Handle!Next, Handle!LetGo
<1> QED  BY <1>2, <1>3

\* The destructor closes a handle that was let go of.
LEMMA CloseNativeMaps ==
  ASSUME IInv, NEW t \in Thread, CloseNative(t)
  PROVE  Handle!Next \/ UNCHANGED Handle!vars
<1>1. dev[t] \in State
  BY DEF CloseNative, IInv, TypeOK
<1>2. HandlePhase(dev[t]) = "released"
  BY DEF CloseNative, IInv, SoleInv, HandlePhase, Owners, Alive, CtorLabels,
      BuildLabels, SoleLabels
<1>3. \A e \in State :
       HandlePhase(e)' = IF e = dev[t] THEN "closed" ELSE HandlePhase(e)
  BY SortsDistinct DEF CloseNative, Goto, Return, IInv, TypeOK, HandlePhase,
      Owners, children
<1>4. \A e \in State : Callers(e)' = Callers(e)
  BY DEF CloseNative, Goto, Return, Callers, Calling
<1>5. Handle!Become(dev[t], "released", "closed")
  BY <1>1, <1>2, <1>3, <1>4, BecomeMaps
<1> QED  BY <1>1, <1>5 DEF Handle!Next, Handle!Open, Handle!Adopt,
    Handle!Abandon, Handle!Close

-----------------------------------------------------------------------------
\* No handle has been opened at first, and nobody is inside a call.
LEMMA InitMaps == Init => Handle!Init
<1> SUFFICES ASSUME Init PROVE Handle!Init
  OBVIOUS
<1>1. \A d \in State : HandlePhase(d) = "absent"
  BY DEF Init, HandlePhase
<1>2. \A d \in State : Callers(d) = {}
  BY DEF Init, Callers, Calling
<1> QED  BY <1>1, <1>2 DEF Handle!Init

\* A step of the abstract handle, or none, for whatever a thread begins.
LEMMA StartMaps ==
  ASSUME IInv, NEW t \in Thread, Start(t)
  PROVE  Handle!Next \/ UNCHANGED Handle!vars
<1>1. CASE \E o \in Root, d \in State : Open(t, o, d)
  BY <1>1, OpenMaps
<1>2. CASE \E o \in Object : BeginCall(t, o)
  BY <1>2, BeginCallMaps
<1>3. CASE \E o \in Root, c \in Child, k \in Kinds : BeginFactory(t, o, c, k)
  BY <1>3, BeginFactoryMaps
<1>4. CASE \E o \in Root, c \in Child, a \in Adapter : NewPoller(t, o, c, a)
  BY <1>4, NewPollerMaps
<1>5. CASE \E a, b \in Adapter : Copy(t, a, b) \/ Move(t, a, b)
  BY <1>5, CopyMaps, MoveMaps
<1>6. CASE \E a \in Adapter : Drop(t, a)
  BY <1>6, DropMaps
<1>7. CASE \E o \in Root : CloseRoot(t, o)
  BY <1>7, CloseRootMaps
<1>8. CASE \E o, p \in Root : MoveRoot(t, o, p)
  BY <1>8, MoveRootMaps
<1> QED
  BY <1>1, <1>2, <1>3, <1>4, <1>5, <1>6, <1>7, <1>8 DEF Start

\* The same for every step of an operation that has begun.
LEMMA ContinueMaps ==
  ASSUME IInv, NEW t \in Thread, Continue(t)
  PROVE  Handle!Next \/ UNCHANGED Handle!vars
<1>1. CASE AllocFails(t) \/ Adopt(t)
  BY <1>1, AllocFailsMaps, AdoptMaps
<1>2. CASE \/ CtorLock(t) \/ SafeSpeed(t) \/ TargetSpeed(t)
           \/ CtorThrows(t) \/ CtorUnwind(t)
  BY <1>2, CtorLockMaps, SafeSpeedMaps, TargetSpeedMaps, CtorThrowsMaps,
      CtorUnwindMaps
<1>3. CASE Lock(t) \/ EnterNative(t) \/ LeaveNative(t) \/ RejectLocked(t)
  BY <1>3, LockMaps, EnterNativeMaps, LeaveNativeMaps, RejectLockedMaps
<1>4. CASE \E a \in Adapter : InitOk(t, a)
  BY <1>4, InitOkMaps
<1>5. CASE InitFails(t) \/ InitIgnored(t)
  BY <1>5, InitFailsMaps, InitIgnoredMaps
<1>6. CASE SmbusClose(t) \/ FreeKid(t) \/ CloseNative(t)
  BY <1>6, SmbusCloseMaps, FreeKidMaps, CloseNativeMaps
<1> QED
  BY <1>1, <1>2, <1>3, <1>4, <1>5, <1>6 DEF Continue

\* A step that changes no variable is invisible.
LEMMA UnchangedMaps ==
  ASSUME UNCHANGED vars
  PROVE  UNCHANGED Handle!vars
<1>1. \A e \in State : HandlePhase(e)' = HandlePhase(e)
  BY DEF vars, handles, children, threads, HandlePhase, Owners
<1>2. \A e \in State : Callers(e)' = Callers(e)
  BY DEF vars, threads, Callers, Calling
<1> QED  BY <1>1, <1>2, StutterMaps

\* Threads, shared_ptrs and one mutex per device make every handle live the
\* serialized life that SerializedHandle describes.
THEOREM Refinement == Spec => ImplementsHandle
<1>1. Init => Handle!Init
  BY InitMaps
<1>2. IInv /\ [Next]_vars => [Handle!Next]_(Handle!vars)
  <2> SUFFICES ASSUME IInv, [Next]_vars
               PROVE  Handle!Next \/ UNCHANGED Handle!vars
    OBVIOUS
  <2>1. CASE \E t \in Thread : Start(t) \/ Continue(t)
    BY <2>1, StartMaps, ContinueMaps
  <2>2. CASE Finished
    BY <2>2, UnchangedMaps DEF Finished
  <2>3. CASE UNCHANGED vars
    BY <2>3, UnchangedMaps
  <2> QED  BY <2>1, <2>2, <2>3 DEF Next
<1> QED  BY <1>1, <1>2, Invariant, PTL DEF Spec, ImplementsHandle, Handle!Spec
=============================================================================
