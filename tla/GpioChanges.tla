----------------------------- MODULE GpioChanges -----------------------------
(***************************************************************************)
(* GpioPoller::poll() used by several threads that share a poller.  The    *)
(* native poll runs under the device's mutex; its result is converted and  *)
(* handed over after the unlock, so results may overtake one another, and  *)
(* one that cannot be converted is lost though the snapshot moved on.  A   *)
(* receiver keeps the levels it was told: it applies every change, and     *)
(* notices when a change does not start from the level it has.             *)
(***************************************************************************)
EXTENDS GpioPolling

CONSTANTS Threads, None

ASSUME ChangesConstants ==
  None \notin Threads /\ None \notin [Pin -> {"none", "low", "high"}]

VARIABLES
  mutex,     \* the thread that holds the device's mutex
  pc,        \* "idle", "waiting", "native" or "converting"
  result,    \* what the native poll gave a thread: changes, by pin
  view,      \* the receiver's levels, None before the first result
  excused    \* history: pins whose change was lost, or noticed out of order

vars == <<pollerVars, mutex, pc, result, view, excused>>

To(t, label) == pc' = [pc EXCEPT ![t] = label]

\* Mutant: a pin that is no GPIO reads as low.
toOptionalGpioValueLow(v) == IF v = 1 THEN "high" ELSE "low"

toOptionalGpioValue(v) == CASE v = -1 -> "none" [] v = 0 -> "low" [] v = 1 -> "high"

\* The first poll reports no change.
Changes == [p \in Pin |-> LET old == IF snap = NoSnapshot THEN level[p] ELSE snap[p] IN
              [oldValue |-> toOptionalGpioValue(old), newValue |-> toOptionalGpioValue(level[p]),
               changed |-> old # level[p]]]

\* One thread alone takes the first result.
Begin(t) == /\ pc[t] = "idle" /\ (view = None => \A u \in Threads : pc[u] = "idle")
            /\ To(t, "waiting")
            /\ UNCHANGED <<pollerVars, mutex, result, view, excused>>

PollLock(t) == /\ pc[t] = "waiting" /\ mutex = None
               /\ mutex' = t
               /\ To(t, "native")
               /\ UNCHANGED <<pollerVars, result, view, excused>>

PollOk(t) == /\ pc[t] = "native"
             /\ Sample
             /\ result' = [result EXCEPT ![t] = Changes]
             /\ mutex' = None
             /\ To(t, "converting")
             /\ UNCHANGED <<view, excused>>

\* checkError throws under the lock; nothing was sampled.
PollFails(t) == /\ pc[t] = "native"
                /\ mutex' = None
                /\ To(t, "idle")
                /\ UNCHANGED <<pollerVars, result, view, excused>>

Changed(r) == {p \in Pin : r[p].changed}

\* The result reaches the receiver.
Deliver(t) ==
  LET r == result[t] IN
  /\ pc[t] = "converting"
  /\ view' = [p \in Pin |-> IF view = None \/ r[p].changed THEN r[p].newValue ELSE view[p]]
  /\ LET noticed == {p \in Changed(r) : view # None /\ view[p] # r[p].oldValue}
         last    == \A u \in Threads \ {t} : pc[u] # "converting"
     IN  excused' = {p \in excused \cup noticed : last => view'[p] # toOptionalGpioValue(snap[p])}
  /\ result' = [result EXCEPT ![t] = None]
  /\ To(t, "idle")
  /\ UNCHANGED <<pollerVars, mutex>>

\* A value the C library cannot have meant: Protocol, and the changes are lost.
Refused(t) ==
  /\ pc[t] = "converting"
  /\ excused' = excused \cup Changed(result[t])
  /\ result' = [result EXCEPT ![t] = None]
  /\ To(t, "idle")
  /\ UNCHANGED <<pollerVars, mutex, view>>

\* pollEvents on the same poller takes the changes there were, if any
\* snapshot was there to change.
PollEvents == /\ mutex = None
              /\ Sample
              /\ excused' = excused \cup {p \in Pin : snap # NoSnapshot /\ snap[p] # level[p]}
              /\ UNCHANGED <<mutex, pc, result, view>>

Outside(p, v) == level[p] # v /\ PinChanges(p, v) /\ UNCHANGED <<mutex, pc, result, view, excused>>

Init == /\ PollerInit
        /\ mutex = None
        /\ pc = [t \in Threads |-> "idle"]
        /\ result = [t \in Threads |-> None]
        /\ view = None
        /\ excused = {}

Next == \/ \E t \in Threads : Begin(t) \/ PollLock(t) \/ PollOk(t) \/ PollFails(t) \/ Deliver(t) \/ Refused(t)
        \/ PollEvents
        \/ \E p \in Pin, v \in Level : Outside(p, v)

Spec == Init /\ [][Next]_vars

\* A pin's level as GpioChange names it: no value unless the pin is a GPIO.
Named == [v \in -1..1 |-> IF v = 1 THEN "high" ELSE IF v = 0 THEN "low" ELSE "none"]

\* A receiver that noticed nothing is in step: once every result has arrived
\* it has the levels of the last sample, on every pin of which no change was
\* lost to a refused result or to pollEvents.  Results that overtake one
\* another either fit together or show (GpioPoller.cpp:138-156).
ChangesInStep ==
  view # None /\ (\A t \in Threads : pc[t] # "converting")
  => \A p \in Pin \ excused : view[p] = Named[snap[p]]
=============================================================================
