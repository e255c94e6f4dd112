----------------------------- MODULE GpioMonitor -----------------------------
(***************************************************************************)
(* qt::GpioMonitor: a timer in an event loop drives a GpioPoller and turns *)
(* its events into signals.  Signals are direct calls: a receiver runs     *)
(* inside the emission and may itself start, stop, poll, set the filter or *)
(* use the device, so the loop thread has a stack of calls.  Another       *)
(* thread uses the same device and competes for its mutex.                 *)
(*                                                                         *)
(* seen and heard are what two receivers believe about the pins: one       *)
(* listens to gpioEvent, the other to risingEdge and fallingEdge.  doubt   *)
(* holds the pins of which they cannot know the level: an edge there was   *)
(* filtered out, discarded or overtaken, or the pin was not a GPIO.        *)
(***************************************************************************)
EXTENDS GpioPolling

CONSTANTS
  Levels,    \* the levels the pins take
  MaxDepth   \* bound: how deeply receivers call back into the monitor

ASSUME MonitorConstants == Levels \subseteq Level /\ MaxDepth \in Nat \ {0}

VARIABLES
  active,    \* timer_->isActive()
  limit,     \* maxEventsPerPoll_
  mutex,     \* who holds the device's mutex: "free", "loop" or "other"
  stack,     \* the loop thread's calls, innermost last
  seen,      \* levels as gpioEvent's receiver has them
  heard,     \* levels as risingEdge's and fallingEdge's receiver has them
  doubt      \* pins whose level the receivers cannot know

loopVars == <<active, limit>>
history  == <<seen, heard, doubt>>
vars     == <<pollerVars, loopVars, mutex, stack, history>>

\* The labels at which a signal is being emitted and a receiver may run.
Signals == {"event", "edge", "error", "started", "stopped"}
Waiting == {"pollLock", "filterLock", "deviceLock"}

\* A call under way: where it is, the events it still has to emit, and
\* whether the present receiver has made its one call back (a bound).
Frame == [at : Signals \cup Waiting \cup {"native"}, batch : Seq(Event), called : BOOLEAN]

Top == Last(stack)
Call(label) == [at |-> label, batch |-> <<>>, called |-> FALSE]

\* The event loop may dispatch, or a receiver may call back.
MayCall ==
  IF stack = <<>> THEN TRUE
  ELSE Top.at \in Signals /\ ~Top.called /\ Len(stack) < MaxDepth

Push(frame) ==
  stack' = IF stack = <<>> THEN <<frame>>
           ELSE Append(Front(stack) \o <<[Top EXCEPT !.called = TRUE]>>, frame)
GoOn(label, batch) ==
  stack' = Append(Front(stack), [at |-> label, batch |-> batch, called |-> FALSE])
Pop == stack' = Front(stack)

At(label) == stack # <<>> /\ Top.at = label

\* What a receiver believes after being told of e.
Told(belief, e) == [belief EXCEPT ![e.pin] = IF e.edge = "rise" THEN 1 ELSE 0]

\* The pins a call still has to signal; at "edge" the first is all told.
Untold(f) == {f.batch[i].pin : i \in IF f.at = "edge" THEN 2..Len(f.batch) ELSE DOMAIN f.batch}
UntoldBy(frames) == UNION {Untold(frames[i]) : i \in DOMAIN frames}

-----------------------------------------------------------------------------
\* The timer fires and calls pollOnce.
Timeout == /\ stack = <<>> /\ active
           /\ Push(Call("pollLock"))
           /\ UNCHANGED <<pollerVars, loopVars, mutex, history>>

PollOnce == /\ MayCall
            /\ Push(Call("pollLock"))
            /\ UNCHANGED <<pollerVars, loopVars, mutex, history>>

start == /\ MayCall /\ ~active
         /\ active' = TRUE
         /\ Push(Call("started"))
         /\ UNCHANGED <<pollerVars, limit, mutex, history>>

stop == /\ MayCall /\ active
        /\ active' = FALSE
        /\ Push(Call("stopped"))
        /\ UNCHANGED <<pollerVars, limit, mutex, history>>

setMaxEventsPerPoll(n) == /\ MayCall /\ n # limit
                          /\ limit' = n
                          /\ UNCHANGED <<pollerVars, active, mutex, stack, history>>

setFilter == /\ MayCall
             /\ Push(Call("filterLock"))
             /\ UNCHANGED <<pollerVars, loopVars, mutex, history>>

\* GpioPoller::setFilter has the mutex just for the assignment.
FilterApplied(f) == /\ At("filterLock") /\ mutex = "free"
                    /\ SetMask(f)
                    /\ Pop
                    /\ UNCHANGED <<loopVars, mutex, history>>

\* A receiver, or the loop itself, uses the device through another object.
DeviceCall == /\ MayCall
              /\ Push(Call("deviceLock"))
              /\ UNCHANGED <<pollerVars, loopVars, mutex, history>>

DeviceDone == /\ At("deviceLock") /\ mutex = "free"
              /\ Pop
              /\ UNCHANGED <<pollerVars, loopVars, mutex, history>>

-----------------------------------------------------------------------------
(* GpioPoller::pollEvents and the rest of pollOnce *)

PollLock == /\ At("pollLock") /\ mutex = "free"
            /\ mutex' = "loop"
            /\ GoOn("native", <<>>)
            /\ UNCHANGED <<pollerVars, loopVars, history>>

\* What the receivers cannot know after a sample told by batch: hidden
\* edges, and new edges on pins an outer call has yet to tell of.
Doubt(batch) ==
  LET outer == UntoldBy(Front(stack))
      told  == {batch[i].pin : i \in DOMAIN batch}
  IN  (doubt \ (told \ outer)) \cup Hidden(batch) \cup (told \cap outer)

\* Mutant: the lock_guard lives on through the emissions.
PollOkLocked(batch) ==
  /\ At("native")
  /\ Sample
  /\ doubt' = Doubt(batch)
  /\ IF batch = <<>> THEN Pop /\ mutex' = "free" ELSE GoOn("event", batch) /\ UNCHANGED mutex
  /\ IF snap = NoSnapshot THEN seen' = level /\ heard' = level
     ELSE /\ seen' = IF batch = <<>> THEN seen ELSE Told(seen, Head(batch))
          /\ UNCHANGED heard
  /\ UNCHANGED loopVars

\* The first event of a batch is emitted at once; an empty batch is done.
\* A receiver reads the levels when the snapshot is first taken.
PollOk(batch) ==
  /\ At("native")
  /\ mutex' = "free"
  /\ Sample
  /\ doubt' = Doubt(batch)
  /\ IF batch = <<>> THEN Pop ELSE GoOn("event", batch)
  /\ IF snap = NoSnapshot THEN seen' = level /\ heard' = level
     ELSE /\ seen' = IF batch = <<>> THEN seen ELSE Told(seen, Head(batch))
          /\ UNCHANGED heard
  /\ UNCHANGED loopVars

\* Mutant: the failing path keeps the mutex.
PollFailsLocked == /\ At("native")
                   /\ GoOn("error", <<>>)
                   /\ UNCHANGED <<pollerVars, loopVars, mutex, history>>

\* The read failed: checkError throws, pollOnce emits errorOccurred.
PollFails == /\ At("native")
             /\ mutex' = "free"
             /\ GoOn("error", <<>>)
             /\ UNCHANGED <<pollerVars, loopVars, history>>

\* C returned something pollEvents refuses (too many events, an unknown
\* pin): a Protocol error, but the snapshot has moved on.  Of a first poll
\* that ends so, no receiver learns that there are levels to read.
PollRefused == /\ At("native")
               /\ mutex' = "free"
               /\ Sample
               /\ doubt' = IF snap = NoSnapshot THEN Pin ELSE doubt \cup Hidden(<<>>)
               /\ GoOn("error", <<>>)
               /\ UNCHANGED <<loopVars, seen, heard>>

\* Mutant: risingEdge and fallingEdge are swapped.
EmitEdgeSwapped == /\ At("event")
                   /\ LET e == Head(Top.batch) IN
                        heard' = [heard EXCEPT ![e.pin] = IF e.edge = "rise" THEN 0 ELSE 1]
                   /\ GoOn("edge", Top.batch)
                   /\ UNCHANGED <<pollerVars, loopVars, mutex, seen, doubt>>

\* gpioEvent's receivers are done: risingEdge or fallingEdge is emitted.
EmitEdge == /\ At("event")
            /\ heard' = Told(heard, Head(Top.batch))
            /\ GoOn("edge", Top.batch)
            /\ UNCHANGED <<pollerVars, loopVars, mutex, seen, doubt>>

\* Mutant: only the first event of a batch is emitted.
NextEventStops == /\ At("edge")
                  /\ Pop
                  /\ UNCHANGED <<pollerVars, loopVars, mutex, history>>

\* Mutant: the loop runs one past the last event.
NextEventOverruns ==
  /\ At("edge")
  /\ GoOn("event", Tail(Top.batch))
  /\ seen' = IF Len(Top.batch) = 1 THEN seen ELSE Told(seen, Top.batch[2])
  /\ UNCHANGED <<pollerVars, loopVars, mutex, heard, doubt>>

\* The next event of the batch, or the end of pollOnce.
NextEvent ==
  /\ At("edge")
  /\ IF Len(Top.batch) = 1 THEN Pop /\ UNCHANGED seen
     ELSE /\ GoOn("event", Tail(Top.batch))
          /\ seen' = Told(seen, Top.batch[2])
  /\ UNCHANGED <<pollerVars, loopVars, mutex, heard, doubt>>

\* The receivers of errorOccurred, started or stopped are done.
SignalDone == /\ At("error") \/ At("started") \/ At("stopped")
              /\ Pop
              /\ UNCHANGED <<pollerVars, loopVars, mutex, history>>

-----------------------------------------------------------------------------
(* The other thread, and the pins *)

OtherLock   == mutex = "free" /\ mutex' = "other"
                 /\ UNCHANGED <<pollerVars, loopVars, stack, history>>
OtherUnlock == mutex = "other" /\ mutex' = "free"
                 /\ UNCHANGED <<pollerVars, loopVars, stack, history>>

Outside(p, v) == /\ level[p] # v
                 /\ PinChanges(p, v)
                 /\ UNCHANGED <<loopVars, mutex, stack, history>>

Init ==
  /\ PollerInit
  /\ level \in [Pin -> Levels]
  /\ active = FALSE
  /\ limit = MaxEventsPerPoll
  /\ mutex = "free"
  /\ stack = <<>>
  /\ seen = [p \in Pin |-> -1]
  /\ heard = [p \in Pin |-> -1]
  /\ doubt = {}

\* What the program asks of the monitor, from the loop or from a receiver.
Request ==
  \/ PollOnce \/ start \/ stop \/ setFilter \/ DeviceCall
  \/ \E n \in Limits : setMaxEventsPerPoll(n)

\* The loop thread goes on with what it has begun.
LoopStep ==
  \/ PollLock \/ (\E batch \in Batches(limit) : PollOk(batch))
  \/ PollFails \/ PollRefused
  \/ EmitEdge \/ NextEvent \/ SignalDone
  \/ (\E f \in Filters : FilterApplied(f)) \/ DeviceDone

Next ==
  \/ Timeout \/ Request \/ LoopStep
  \/ OtherLock \/ OtherUnlock
  \/ \E p \in Pin, v \in Levels : Outside(p, v)

Spec == Init /\ [][Next]_vars

\* The loop runs what it has begun, its timer is served however many other
\* events arrive, and whoever holds the mutex lets it go.
FairSpec == /\ Spec
            /\ WF_vars(LoopStep)
            /\ SF_vars(Timeout)
            /\ WF_vars(OtherUnlock)

-----------------------------------------------------------------------------
(* What must hold *)

TypeOK ==
  /\ level \in [Pin -> Levels]
  /\ snap \in [Pin -> Levels] \cup {NoSnapshot}
  /\ filter \in Filters \cup {[rise |-> {}, fall |-> {}]}
  /\ active \in BOOLEAN
  /\ limit \in Limits \cup {MaxEventsPerPoll}
  /\ mutex \in {"free", "loop", "other"}
  /\ Len(stack) <= MaxDepth
  /\ \A i \in DOMAIN stack : LET f == stack[i] IN
       /\ f \in Frame
       /\ Len(f.batch) <= Capacity(MaxEventsPerPoll)
       /\ f.batch # <<>> <=> f.at \in {"event", "edge"}
  /\ seen \in [Pin -> Level] /\ heard \in [Pin -> Level]
  /\ doubt \subseteq Pin

\* Receivers run without the device's mutex: it is the loop's exactly during
\* the native poll, or a receiver that uses the device would wait for itself.
NoLockInSignals == mutex = "loop" <=> At("native")

\* Both receivers know the level of every pin, as of the last successful
\* poll, unless a filter, the limit, a refused batch, a nested poll or a pin
\* that is no GPIO explains why not: pollOnce loses and doubles no event.
InStep ==
  snap # NoSnapshot =>
    \A p \in Pin \ (doubt \cup UntoldBy(stack)) : seen[p] = snap[p] /\ heard[p] = snap[p]

\* With the default limit and no filter the four-event array loses no edge
\* between two GPIO levels, whichever pins change together.
NothingDiscarded ==
  [][\A p \in Pin :
       /\ At("native") /\ mutex' = "free" /\ (stack' = <<>> \/ Last(stack').at = "event")
       /\ limit >= MaxEventsPerPoll /\ filter = [rise |-> {}, fall |-> {}]
       /\ snap # NoSnapshot /\ snap[p] # level[p] /\ -1 \notin {snap[p], level[p]}
       => p \in UntoldBy(stack')]_vars

\* The event loop gets back to itself when other threads leave the device.
LoopReturns == <>[](mutex # "other") => []<>(stack = <<>>)

\* A receiver that does not poll hears of a level that stays: while the
\* monitor is active and polls keep succeeding, it is out of step in the end
\* only about pins it cannot know.
LevelsArrive ==
  \A p \in Pin : \A v \in Levels :
    (/\ <>[](active /\ level[p] = v /\ mutex # "other")
     /\ []<><<At("native") /\ snap' = level>>_vars)
    => []<>(p \in doubt \/ (seen[p] = v /\ heard[p] = v))
=============================================================================
