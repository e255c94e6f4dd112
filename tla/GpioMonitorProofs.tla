-------------------------- MODULE GpioMonitorProofs --------------------------
(***************************************************************************)
(* Proofs about GpioMonitor, for any filters and limits, any levels and    *)
(* any depth of receivers calling back.  IInv is inductive and implies the *)
(* invariants the runs check; NothingDiscarded follows from it and from    *)
(* what GpioPolling's batches contain.                                     *)
(***************************************************************************)
EXTENDS GpioMonitor, FiniteSetTheorems, SequenceTheorems, TLAPS

\* The level an event tells of.
Tells(e) == IF e.edge = "rise" THEN 1 ELSE 0

\* The positions in a call's batch that it has yet to signal.
ToSignal(f) == {j \in DOMAIN f.batch : f.at = "edge" => j > 1}

FrameOK(f) ==
  /\ f \in Frame
  /\ Len(f.batch) <= MaxEventsPerPoll
  /\ f.batch # <<>> <=> f.at \in {"event", "edge"}

TypeInv ==
  /\ level \in [Pin -> Levels]
  /\ snap \in [Pin -> Levels] \cup {NoSnapshot}
  /\ filter \in Filters \cup {[rise |-> {}, fall |-> {}]}
  /\ active \in BOOLEAN
  /\ limit \in Limits \cup {MaxEventsPerPoll}
  /\ mutex \in {"free", "loop", "other"}
  /\ stack \in Seq(Frame) /\ Len(stack) <= MaxDepth
  /\ \A i \in DOMAIN stack : FrameOK(stack[i])
  /\ seen \in [Pin -> Level] /\ heard \in [Pin -> Level]
  /\ doubt \subseteq Pin

\* Every call but the innermost is emitting a signal: its receiver made the
\* next one.
StackInv == \A i \in DOMAIN stack : i < Len(stack) => stack[i].at \in Signals

\* What a call has yet to signal is news of the snapshot, unless a nested
\* poll has cast doubt on the pin; gpioEvent's receiver has heard the event
\* whose edge signal is due.
NewsInv ==
  \A i \in DOMAIN stack : \A j \in ToSignal(stack[i]) :
    LET e == stack[i].batch[j] IN
    e.pin \notin doubt =>
      /\ snap # NoSnapshot /\ snap[e.pin] = Tells(e)
      /\ stack[i].at = "event" /\ j = 1 => seen[e.pin] = Tells(e)

\* Before the first snapshot there are no events.
FirstInv == snap = NoSnapshot => \A i \in DOMAIN stack : stack[i].batch = <<>>

IInv == TypeInv /\ StackInv /\ NewsInv /\ FirstInv /\ NoLockInSignals /\ InStep

-----------------------------------------------------------------------------
(* The stack *)

LEMMA Appended ==
  ASSUME NEW S, NEW s \in Seq(S), NEW e \in S
  PROVE  /\ Append(s, e) \in Seq(S) /\ Append(s, e) # <<>> /\ Len(Append(s, e)) = Len(s) + 1
         /\ Append(s, e) = s \o <<e>>
         /\ \A i \in 1..Len(s) : Append(s, e)[i] = s[i]
         /\ Append(s, e)[Len(s) + 1] = e
  BY AppendProperties, AppendIsConcat

\* What is left of a batch after its first event, and the next event.
LEMMA Shortened ==
  ASSUME NEW S, NEW s \in Seq(S), s # <<>>, Len(s) # 1
  PROVE  /\ Len(s) \in Nat /\ Len(s) > 1 /\ s[2] \in S
         /\ Tail(s) \in Seq(S) /\ Len(Tail(s)) = Len(s) - 1 /\ Tail(s) # <<>>
         /\ \A j \in 1..(Len(s) - 1) : Tail(s)[j] = s[j + 1]
<1>1. Len(s) \in Nat /\ Len(s) > 1
  BY EmptySeq
<1>2. /\ Tail(s) \in Seq(S) /\ Len(Tail(s)) = Len(s) - 1
      /\ \A j \in 1..(Len(s) - 1) : Tail(s)[j] = s[j + 1]
  BY HeadTailProperties
<1>3. s[2] \in S
  BY <1>1, ElementOfSeq
<1>4. Tail(s) # <<>>
  <2> DEFINE t == Tail(s)
  <2>1. t \in Seq(S) /\ Len(t) > 0
    BY <1>1, <1>2
  <2> HIDE DEF t
  <2>2. t # <<>>
    BY <2>1
  <2> QED  BY <2>2 DEF t
<1> QED  BY <1>1, <1>2, <1>3, <1>4

LEMMA EventOf ==
  ASSUME NEW b \in Seq(Event), NEW j \in DOMAIN b
  PROVE  b[j] \in Event /\ b[j].pin \in Pin
<1>1. b[j] \in Event
  BY ElementOfSeq, LenProperties
<1> QED  BY <1>1 DEF Event

LEMMA Positions ==
  ASSUME NEW n \in Nat \ {0}
  PROVE  1..(n - 1) \subseteq 1..n /\ n \in 1..n /\ n \notin 1..(n - 1)
         /\ \A i \in 1..n : i = n \/ i \in 1..(n - 1)
  OBVIOUS

\* A pin is untold exactly if some call has yet to signal an event of it.
LEMMA UntoldIff ==
  ASSUME NEW fs, \A i \in DOMAIN fs : fs[i].batch \in Seq(Event), NEW p
  PROVE  p \in UntoldBy(fs) <=> \E i \in DOMAIN fs : \E j \in ToSignal(fs[i]) : fs[i].batch[j].pin = p
<1>1. ASSUME NEW i \in DOMAIN fs
      PROVE  Untold(fs[i]) = {fs[i].batch[j].pin : j \in ToSignal(fs[i])}
  <2>1. DOMAIN fs[i].batch = 1..Len(fs[i].batch) /\ Len(fs[i].batch) \in Nat
    OBVIOUS
  <2>2. ToSignal(fs[i]) = IF fs[i].at = "edge" THEN 2..Len(fs[i].batch) ELSE DOMAIN fs[i].batch
    BY <2>1 DEF ToSignal
  <2> QED  BY <2>2 DEF Untold
<1> QED  BY <1>1 DEF UntoldBy

\* The innermost call, and the calls around it.
LEMMA StackShape ==
  ASSUME TypeInv, stack # <<>>
  PROVE  /\ Len(stack) \in Nat \ {0} /\ DOMAIN stack = 1..Len(stack)
         /\ Top = stack[Len(stack)] /\ Top \in Frame /\ FrameOK(Top)
         /\ Front(stack) \in Seq(Frame) /\ Len(Front(stack)) = Len(stack) - 1
         /\ \A i \in 1..(Len(stack) - 1) : Front(stack)[i] = stack[i]
<1>1. Len(stack) \in Nat \ {0} /\ DOMAIN stack = 1..Len(stack)
  BY DEF TypeInv
<1>2. Top = stack[Len(stack)] /\ Top \in Frame /\ FrameOK(Top)
  BY <1>1 DEF Top, Last, TypeInv
<1>3. Front(stack) \in Seq(Frame) /\ Len(Front(stack)) = Len(stack) - 1
        /\ \A i \in 1..(Len(stack) - 1) : Front(stack)[i] = stack[i]
  BY <1>1 DEF Front, TypeInv
<1> QED  BY <1>1, <1>2, <1>3

\* The innermost call goes on.
LEMMA GoneOn ==
  ASSUME TypeInv, stack # <<>>, NEW f \in Frame, stack' = Append(Front(stack), f)
  PROVE  /\ stack' \in Seq(Frame) /\ stack' # <<>> /\ Len(stack') = Len(stack)
         /\ DOMAIN stack' = 1..Len(stack) /\ Len(stack) \in Nat \ {0}
         /\ \A i \in 1..(Len(stack) - 1) : stack'[i] = stack[i]
         /\ stack'[Len(stack)] = f /\ Top' = f
         /\ \A i \in 1..Len(stack) : i = Len(stack) \/ i \in 1..(Len(stack) - 1)
<1>1. Len(stack) \in Nat \ {0} /\ Front(stack) \in Seq(Frame) /\ Len(Front(stack)) = Len(stack) - 1
        /\ \A i \in 1..(Len(stack) - 1) : Front(stack)[i] = stack[i]
  BY StackShape
<1>2. /\ stack' \in Seq(Frame) /\ stack' # <<>> /\ Len(stack') = Len(stack)
      /\ \A i \in 1..(Len(stack) - 1) : stack'[i] = Front(stack)[i]
      /\ stack'[Len(stack)] = f
  BY <1>1, Appended
<1> QED  BY <1>1, <1>2 DEF Top, Last

\* The innermost call returns.
LEMMA Popped ==
  ASSUME TypeInv, stack # <<>>, Pop
  PROVE  /\ stack' \in Seq(Frame) /\ Len(stack') = Len(stack) - 1
         /\ DOMAIN stack' = 1..(Len(stack) - 1) /\ Len(stack) \in Nat \ {0}
         /\ \A i \in 1..(Len(stack) - 1) : stack'[i] = stack[i]
         /\ stack' # <<>> => Len(stack) > 1 /\ Top' = stack[Len(stack) - 1]
<1>1. stack' = Front(stack)
  BY DEF Pop
<1>2. /\ stack' \in Seq(Frame) /\ Len(stack') = Len(stack) - 1 /\ Len(stack) \in Nat \ {0}
      /\ \A i \in 1..(Len(stack) - 1) : stack'[i] = stack[i]
  BY <1>1, StackShape
<1>3. DOMAIN stack' = 1..(Len(stack) - 1)
  BY <1>2
<1>4. stack' # <<>> => Len(stack') > 0
  BY <1>2
<1>5. stack' # <<>> => Top' = stack'[Len(stack) - 1]
  BY <1>2 DEF Top, Last
<1> QED  BY <1>2, <1>3, <1>4, <1>5

\* A new call from the loop or from the receiver of the innermost one.
LEMMA Pushed ==
  ASSUME TypeInv, NEW f \in Frame, Push(f)
  PROVE  /\ stack' \in Seq(Frame) /\ stack' # <<>> /\ Len(stack') = Len(stack) + 1
         /\ DOMAIN stack' = 1..(Len(stack) + 1) /\ Len(stack) \in Nat
         /\ \A i \in 1..Len(stack) : /\ stack'[i] \in Frame
                                     /\ stack'[i].at = stack[i].at /\ stack'[i].batch = stack[i].batch
         /\ stack'[Len(stack) + 1] = f /\ Top' = f
<1>1. CASE stack = <<>>
  BY <1>1 DEF Push, Top, Last
<1>2. CASE stack # <<>>
  <2> DEFINE g    == [Top EXCEPT !.called = TRUE]
             base == Append(Front(stack), g)
  <2>1. g \in Frame /\ g.at = Top.at /\ g.batch = Top.batch
    BY <1>2, StackShape DEF Frame
  <2>2. stack' = Append(Front(stack) \o <<g>>, f)
    BY <1>2 DEF Push
  <2>3. Front(stack) \in Seq(Frame) /\ Len(Front(stack)) = Len(stack) - 1 /\ Len(stack) \in Nat \ {0}
    BY <1>2, StackShape
  <2> HIDE DEF g
  <2>4. /\ base \in Seq(Frame) /\ Len(base) = Len(stack) /\ Front(stack) \o <<g>> = base
        /\ \A i \in 1..(Len(stack) - 1) : base[i] = Front(stack)[i]
        /\ base[Len(stack)] = g
    BY <2>1, <2>3, Appended
  <2> HIDE DEF base
  <2>5. /\ stack' \in Seq(Frame) /\ stack' # <<>> /\ Len(stack') = Len(stack) + 1
        /\ \A i \in 1..Len(stack) : stack'[i] = base[i]
        /\ stack'[Len(stack) + 1] = f
    <3>1. stack' = Append(base, f)
      BY <2>2, <2>4
    <3> QED  BY <3>1, <2>3, <2>4, Appended
  <2>6. \A i \in 1..Len(stack) : /\ stack'[i] \in Frame
                                 /\ stack'[i].at = stack[i].at /\ stack'[i].batch = stack[i].batch
    <3> TAKE i \in 1..Len(stack)
    <3>1. CASE i = Len(stack)
      BY <1>2, <3>1, <2>1, <2>4, <2>5, StackShape
    <3>2. CASE i # Len(stack)
      <4>1. i \in 1..(Len(stack) - 1)
        BY <3>2, <2>3
      <4>2. stack'[i] = stack[i]
        BY <4>1, <1>2, <2>4, <2>5, StackShape
      <4>3. stack[i] \in Frame
        BY <4>1, <2>3 DEF TypeInv
      <4> QED  BY <4>2, <4>3
    <3> QED  BY <3>1, <3>2
  <2> QED  BY <1>2, <2>5, <2>6, StackShape DEF Top, Last
<1> QED  BY <1>1, <1>2

-----------------------------------------------------------------------------
(* What the receivers know, by positions in the stack *)

Untells(fs, p) == \E i \in DOMAIN fs : \E j \in ToSignal(fs[i]) : fs[i].batch[j].pin = p

\* InStep, for the state before a step and, in the same words, after it.
LEMMA Informed ==
  ASSUME IInv, snap # NoSnapshot, NEW p \in Pin, p \notin doubt, ~Untells(stack, p)
  PROVE  seen[p] = snap[p] /\ heard[p] = snap[p]
<1>1. \A i \in DOMAIN stack : stack[i].batch \in Seq(Event)
  BY DEF IInv, TypeInv, FrameOK, Frame
<1>2. p \notin UntoldBy(stack)
  BY <1>1, UntoldIff DEF Untells
<1> QED  BY <1>2 DEF IInv, InStep

LEMMA InformedAfter ==
  ASSUME TypeInv',
         \A p \in Pin : snap' # NoSnapshot /\ p \notin doubt' /\ ~Untells(stack', p)
                          => seen'[p] = snap'[p] /\ heard'[p] = snap'[p]
  PROVE  InStep'
<1>1. \A i \in DOMAIN stack' : stack'[i].batch \in Seq(Event)
  BY DEF TypeInv, FrameOK, Frame
<1>2. \A p \in Pin : p \in UntoldBy(stack') <=> Untells(stack', p)
  BY <1>1, UntoldIff DEF Untells
<1>3. UntoldBy(stack)' = UntoldBy(stack')
  BY DEF UntoldBy, Untold
<1> QED  BY <1>2, <1>3 DEF InStep

-----------------------------------------------------------------------------
(* Calls that begin and calls that return *)

LEMMA PushKeeps ==
  ASSUME IInv, MayCall, NEW l \in Waiting \cup {"started", "stopped"}, Push(Call(l)),
         UNCHANGED <<pollerVars, limit, mutex, history>>, active' \in BOOLEAN
  PROVE  IInv'
<1> DEFINE f == Call(l)
           n == Len(stack) + 1
<1>1. f \in Frame /\ f.at = l /\ f.batch = <<>> /\ FrameOK(f)
  BY EmptySeq DEF Call, Frame, FrameOK, Signals, Waiting, MaxEventsPerPoll
<1>2. ToSignal(f) = {}
  BY <1>1 DEF ToSignal
<1> HIDE DEF f
<1>3. Push(f)
  BY DEF f
<1>4. /\ stack' \in Seq(Frame) /\ Len(stack') = n /\ DOMAIN stack' = 1..n /\ Len(stack) \in Nat
      /\ \A i \in 1..Len(stack) : /\ stack'[i] \in Frame
                                  /\ stack'[i].at = stack[i].at /\ stack'[i].batch = stack[i].batch
      /\ stack'[n] = f /\ Top' = f /\ stack' # <<>>
  BY <1>1, <1>3, Pushed DEF IInv
<1>5. /\ DOMAIN stack = 1..Len(stack) /\ Len(stack) < MaxDepth
      /\ Len(stack) > 0 => stack[Len(stack)].at \in Signals /\ Top = stack[Len(stack)]
  BY <1>4, StackShape, MonitorConstants DEF MayCall, IInv, TypeInv
<1>6. \A i \in 1..Len(stack) : ToSignal(stack'[i]) = ToSignal(stack[i])
  BY <1>4 DEF ToSignal
<1>7. TypeInv'
  <2>1. \A i \in 1..n : FrameOK(stack'[i])
    <3> TAKE i \in 1..n
    <3>1. CASE i = n
      BY <1>1, <1>4, <3>1
    <3>2. CASE i # n
      <4>1. i \in 1..Len(stack)
        BY <3>2, <1>4
      <4>2. FrameOK(stack[i])
        BY <4>1, <1>5 DEF IInv, TypeInv
      <4> QED  BY <4>1, <4>2, <1>4 DEF FrameOK
    <3> QED  BY <3>1, <3>2
  <2>2. Len(stack') <= MaxDepth
    BY <1>4, <1>5, MonitorConstants
  <2> QED  BY <1>4, <2>1, <2>2 DEF IInv, TypeInv, pollerVars, history, FrameOK
<1>8. StackInv'
  <2>1. ASSUME NEW i \in 1..n, i < n PROVE stack'[i].at \in Signals
    <3>1. i \in 1..Len(stack)
      BY <2>1, <1>4
    <3>2. stack[i].at \in Signals
      BY <3>1, <1>4, <1>5 DEF IInv, StackInv
    <3> QED  BY <3>1, <3>2, <1>4
  <2> QED  BY <2>1, <1>4 DEF StackInv, Signals
<1>9. NewsInv'
  <2>1. ASSUME NEW i \in 1..n, NEW j \in ToSignal(stack'[i]) PROVE i \in 1..Len(stack)
    BY <2>1, <1>2, <1>4
  <2> QED  BY <2>1, <1>4, <1>5, <1>6 DEF IInv, NewsInv, pollerVars, history, ToSignal, Tells
<1>10. FirstInv'
  BY <1>1, <1>4, <1>5 DEF IInv, FirstInv, pollerVars
<1>11. NoLockInSignals'
  BY <1>1, <1>4 DEF IInv, NoLockInSignals, At, MayCall, Waiting, Signals
<1>12. InStep'
  <2>1. \A p \in Pin : Untells(stack', p) <=> Untells(stack, p)
    BY <1>2, <1>4, <1>5, <1>6 DEF Untells
  <2> QED  BY <1>7, <2>1, Informed, InformedAfter DEF pollerVars, history
<1> QED  BY <1>7, <1>8, <1>9, <1>10, <1>11, <1>12 DEF IInv

\* A call that has signalled everything returns to the receiver that made it.
LEMMA PopKeeps ==
  ASSUME IInv, stack # <<>>, Top.at # "native", ToSignal(Top) = {}, Pop,
         UNCHANGED <<level, snap, loopVars, mutex, history>>,
         filter' \in Filters \cup {[rise |-> {}, fall |-> {}]}
  PROVE  IInv'
<1> DEFINE n == Len(stack) - 1
<1>1. /\ stack' \in Seq(Frame) /\ Len(stack') = n /\ DOMAIN stack' = 1..n
      /\ \A i \in 1..n : stack'[i] = stack[i]
      /\ stack' # <<>> => n > 0 /\ Top' = stack[n]
      /\ DOMAIN stack = 1..Len(stack) /\ Len(stack) \in Nat \ {0}
      /\ Top = stack[Len(stack)]
  BY Popped, StackShape DEF IInv
<1>2. TypeInv'
  <2>1. \A i \in 1..n : FrameOK(stack'[i])
    BY <1>1 DEF IInv, TypeInv
  <2>2. Len(stack') <= MaxDepth
    BY <1>1, MonitorConstants DEF IInv, TypeInv
  <2> QED  BY <1>1, <2>1, <2>2 DEF IInv, TypeInv, loopVars, history, FrameOK
<1>3. StackInv'
  BY <1>1 DEF IInv, StackInv, Signals
<1>4. NewsInv'
  BY <1>1 DEF IInv, NewsInv, history, ToSignal, Tells
<1>5. FirstInv'
  BY <1>1 DEF IInv, FirstInv
<1>6. NoLockInSignals'
  <2>1. mutex # "loop"
    BY DEF IInv, NoLockInSignals, At
  <2>2. stack' # <<>> => Top'.at \in Signals
    BY <1>1 DEF IInv, StackInv
  <2> QED  BY <2>1, <2>2 DEF NoLockInSignals, At, Signals
<1>7. InStep'
  <2>1. \A i \in DOMAIN stack : ToSignal(stack[i]) # {} => i \in 1..n
    BY <1>1
  <2>2. \A p \in Pin : Untells(stack, p) => Untells(stack', p)
    BY <1>1, <2>1 DEF Untells
  <2> QED  BY <1>2, <2>2, Informed, InformedAfter DEF history
<1> QED  BY <1>2, <1>3, <1>4, <1>5, <1>6, <1>7 DEF IInv

-----------------------------------------------------------------------------
(* The batches a poll may return *)

\* An event of a poll tells of the level its pin has now, and a pin has at
\* most one.
LEMMA PendingFacts ==
  ASSUME IInv
  PROVE  /\ Pending \subseteq Event
         /\ \A e \in Pending : level[e.pin] = Tells(e) /\ snap # NoSnapshot
         /\ IsFiniteSet(Pending) /\ Cardinality(Pending) <= Cardinality(Pin)
         /\ Cardinality(Pending) \in Nat /\ Cardinality(Pin) \in Nat
<1>1. Pending \subseteq Event /\ \A e \in Pending : snap # NoSnapshot /\ e \in Edges(snap, level)
  BY DEF Pending, Edges
<1>2. \A e \in Pending : level[e.pin] = Tells(e)
  BY <1>1 DEF Edges, Tells
<1>3. \A d, e \in Pending : d.pin = e.pin => d = e
  <2> SUFFICES ASSUME NEW d \in Pending, NEW e \in Pending, d.pin = e.pin PROVE d = e
    OBVIOUS
  <2>1. d.edge = e.edge
    BY <1>1, <1>2 DEF Edges, Tells, Event
  <2> QED  BY <1>1, <2>1 DEF Event
<1> DEFINE pin == [e \in Pending |-> e.pin]
<1>4. pin \in Injection(Pending, Pin)
  <2>1. pin \in [Pending -> Pin]
    BY <1>1 DEF Event
  <2>2. IsInjective(pin)
    BY <1>3 DEF IsInjective
  <2> QED  BY <2>1, <2>2 DEF Injection
<1>5. IsFiniteSet(Pin)
  BY PollingConstants
<1>6. IsFiniteSet(Pending) /\ Cardinality(Pending) <= Cardinality(Pin)
  BY <1>4, <1>5, FS_Injection
<1>7. Cardinality(Pending) \in Nat /\ Cardinality(Pin) \in Nat
  BY <1>5, <1>6, FS_CardinalityType
<1> QED  BY <1>1, <1>2, <1>6, <1>7

LEMMA MinOfTwo ==
  ASSUME NEW a \in Nat, NEW b \in Nat
  PROVE  /\ Min({a, b}) \in {a, b} /\ Min({a, b}) <= a /\ Min({a, b}) <= b
<1>1. \E x \in {a, b} : \A y \in {a, b} : x =< y
  OBVIOUS
<1> QED  BY <1>1 DEF Min

\* A batch holds pending events, no more than the array has room for.
LEMMA BatchFacts ==
  ASSUME IInv, NEW b \in Batches(limit)
  PROVE  /\ b \in Seq(Event) /\ Len(b) <= MaxEventsPerPoll
         /\ \A i \in DOMAIN b : b[i] \in Pending
<1> DEFINE n == Min({Capacity(limit), Cardinality(Pending)})
<1>1. limit \in Nat
  BY PollingConstants DEF IInv, TypeInv, MaxEventsPerPoll
<1>2. Capacity(limit) \in Nat /\ Capacity(limit) <= MaxEventsPerPoll
  BY <1>1 DEF Capacity, MaxEventsPerPoll
<1>3. n \in Nat /\ n <= MaxEventsPerPoll
  BY <1>2, PendingFacts, MinOfTwo DEF MaxEventsPerPoll
<1>4. PICK s \in kSubset(n, Pending) : b \in SetToSeqs(s)
  BY DEF Batches
<1>5. s \subseteq Pending /\ Cardinality(s) = n
  BY <1>4 DEF kSubset
<1>6. b \in [1..n -> s]
  BY <1>4, <1>5 DEF SetToSeqs
<1>7. b \in [1..n -> Event]
  BY <1>5, <1>6, PendingFacts
<1> HIDE DEF n
<1>8. b \in Seq(Event) /\ Len(b) = n
  BY <1>3, <1>7, SeqDef
<1> QED  BY <1>3, <1>5, <1>6, <1>8

\* With room for four and no filter, every edge is in the batch.
LEMMA BatchComplete ==
  ASSUME IInv, NEW b \in Batches(limit), limit >= MaxEventsPerPoll, NEW e \in Pending
  PROVE  \E i \in DOMAIN b : b[i] = e
<1>1. limit \in Nat
  BY PollingConstants DEF IInv, TypeInv, MaxEventsPerPoll
<1>2. Capacity(limit) = MaxEventsPerPoll
  BY <1>1 DEF Capacity, MaxEventsPerPoll
<1>3. Cardinality(Pending) \in Nat /\ Cardinality(Pending) <= MaxEventsPerPoll
  BY PendingFacts, PinsFit DEF MaxEventsPerPoll
<1> DEFINE n == Cardinality(Pending)
<1>4. Min({Capacity(limit), n}) = n
  BY <1>2, <1>3, MinOfTwo DEF MaxEventsPerPoll
<1>5. PICK s \in kSubset(n, Pending) : b \in SetToSeqs(s)
  BY <1>4 DEF Batches
<1>6. s \subseteq Pending /\ Cardinality(s) = n
  BY <1>5 DEF kSubset
<1>7. s = Pending
  BY <1>6, PendingFacts, FS_Subset
<1>8. b \in [1..n -> Pending] /\ \A i, j \in 1..n : i # j => b[i] # b[j]
  BY <1>5, <1>6, <1>7 DEF SetToSeqs
<1>9. b \in Injection(1..n, Pending)
  BY <1>8 DEF Injection, IsInjective
<1>10. Cardinality(1..n) = n
  BY <1>3, FS_Interval
<1>11. b \in Surjection(1..n, Pending)
  BY <1>9, <1>10, PendingFacts, FS_Injection
<1> QED  BY <1>8, <1>11 DEF Surjection

-----------------------------------------------------------------------------
(* The innermost call goes on *)

\* Types and the calls around, when the innermost call goes on as f.
LEMMA FramesKept ==
  ASSUME IInv, stack # <<>>, NEW f \in Frame, FrameOK(f), stack' = Append(Front(stack), f)
  PROVE  /\ stack' \in Seq(Frame) /\ Len(stack') <= MaxDepth
         /\ \A i \in DOMAIN stack' : FrameOK(stack'[i])
         /\ StackInv'
<1> DEFINE n == Len(stack)
<1>1. /\ stack' \in Seq(Frame) /\ Len(stack') = n /\ DOMAIN stack' = 1..n /\ n \in Nat \ {0}
      /\ \A i \in 1..(n - 1) : stack'[i] = stack[i]
      /\ stack'[n] = f /\ DOMAIN stack = 1..n
  BY GoneOn, StackShape DEF IInv
<1>2. Len(stack') <= MaxDepth
  BY <1>1 DEF IInv, TypeInv
<1>3. ASSUME NEW i \in 1..n PROVE FrameOK(stack'[i])
  <2>1. CASE i = n
    BY <1>1, <2>1
  <2>2. CASE i # n
    BY <1>1, <2>2 DEF IInv, TypeInv
  <2> QED  BY <2>1, <2>2
<1>4. StackInv'
  BY <1>1 DEF IInv, StackInv, Signals
<1> QED  BY <1>1, <1>2, <1>3, <1>4

\* A poll that enters the native call, or fails in it, is no news.
LEMMA EmptyGoesOn ==
  ASSUME IInv, At("pollLock") \/ At("native"), NEW l \in {"native", "error"}, GoOn(l, <<>>),
         UNCHANGED <<pollerVars, loopVars, history>>, mutex' = IF l = "native" THEN "loop" ELSE "free"
  PROVE  IInv'
<1> DEFINE n == Len(stack)
           f == [at |-> l, batch |-> <<>>, called |-> FALSE]
<1>1. stack # <<>> /\ Top.at \in {"pollLock", "native"}
  BY DEF At
<1>2. f \in Frame /\ FrameOK(f) /\ ToSignal(f) = {} /\ stack' = Append(Front(stack), f)
  BY EmptySeq DEF GoOn, Frame, FrameOK, Signals, Waiting, MaxEventsPerPoll, ToSignal
<1>3. f.at = l /\ f.batch = <<>>
  OBVIOUS
<1> HIDE DEF f
<1>4. /\ stack' \in Seq(Frame) /\ DOMAIN stack' = 1..n /\ n \in Nat \ {0}
      /\ \A i \in 1..(n - 1) : stack'[i] = stack[i]
      /\ stack'[n] = f /\ Top' = f /\ stack' # <<>> /\ DOMAIN stack = 1..n /\ Top = stack[n]
      /\ \A i \in 1..n : i = n \/ i \in 1..(n - 1)
  BY <1>1, <1>2, GoneOn, StackShape DEF IInv
<1> HIDE DEF n
<1>5. TypeInv' /\ StackInv'
  BY <1>1, <1>2, FramesKept DEF IInv, TypeInv, pollerVars, loopVars, history
<1>6. ASSUME NEW i \in 1..n, NEW j \in ToSignal(stack'[i]) PROVE i \in 1..(n - 1) /\ stack'[i] = stack[i]
  BY <1>2, <1>4
<1>7. NewsInv'
  BY <1>4, <1>6 DEF IInv, NewsInv, pollerVars, history, ToSignal, Tells
<1>8. FirstInv'
  BY <1>3, <1>4 DEF IInv, FirstInv, pollerVars
<1>9. NoLockInSignals'
  BY <1>3, <1>4 DEF NoLockInSignals, At
<1>10. InStep'
  <2>1. Top.batch = <<>>
    BY <1>1, StackShape DEF IInv, FrameOK
  <2>2. ToSignal(stack[n]) = {}
    BY <2>1, <1>4 DEF ToSignal
  <2>3. \A p \in Pin : Untells(stack, p) => Untells(stack', p)
    BY <1>4, <2>2 DEF Untells
  <2> QED  BY <1>5, <2>3, Informed, InformedAfter DEF pollerVars, history
<1> QED  BY <1>5, <1>7, <1>8, <1>9, <1>10 DEF IInv

\* After gpioEvent comes risingEdge or fallingEdge.
LEMMA EmitEdgeKeeps == ASSUME IInv, EmitEdge PROVE IInv'
<1> DEFINE n == Len(stack)
           b == Top.batch
           e == b[1]
           f == [at |-> "edge", batch |-> b, called |-> FALSE]
<1>1. /\ stack # <<>> /\ Top.at = "event" /\ heard' = Told(heard, Head(b))
      /\ stack' = Append(Front(stack), f)
      /\ UNCHANGED <<pollerVars, loopVars, mutex, seen, doubt>>
  BY DEF EmitEdge, At, GoOn
<1>2. b \in Seq(Event) /\ b # <<>> /\ Len(b) <= MaxEventsPerPoll
  BY <1>1, StackShape DEF IInv, FrameOK, Frame
<1>3. e \in Event /\ Head(b) = e /\ DOMAIN b = 1..Len(b) /\ Len(b) \in Nat \ {0}
  BY <1>2
<1>4. f \in Frame /\ FrameOK(f)
  BY <1>2 DEF Frame, FrameOK, Signals
<1>5. ToSignal(f) = ToSignal(Top) \ {1} /\ 1 \in ToSignal(Top)
  BY <1>1, <1>3 DEF ToSignal
<1>6. f.at = "edge" /\ f.batch = b
  OBVIOUS
<1> HIDE DEF f
<1>7. /\ DOMAIN stack' = 1..n /\ n \in Nat \ {0}
      /\ \A i \in 1..(n - 1) : stack'[i] = stack[i]
      /\ stack'[n] = f /\ Top' = f /\ stack' # <<>> /\ DOMAIN stack = 1..n /\ Top = stack[n]
      /\ \A i \in 1..n : i = n \/ i \in 1..(n - 1)
  BY <1>1, <1>4, GoneOn, StackShape DEF IInv
<1> HIDE DEF n
<1>8. heard' \in [Pin -> Level] /\ heard' = [heard EXCEPT ![e.pin] = Tells(e)]
  BY <1>1, <1>3 DEF Told, Tells, IInv, TypeInv, Level
<1>9. TypeInv' /\ StackInv'
  BY <1>1, <1>4, <1>8, FramesKept DEF IInv, TypeInv, pollerVars, loopVars
<1>10. NewsInv'
  <2> SUFFICES ASSUME NEW i \in 1..n, NEW j \in ToSignal(stack'[i])
               PROVE  LET d == stack'[i].batch[j] IN
                      d.pin \notin doubt =>
                        /\ snap # NoSnapshot /\ snap[d.pin] = Tells(d)
                        /\ stack'[i].at = "event" /\ j = 1 => seen[d.pin] = Tells(d)
    BY <1>1, <1>7 DEF NewsInv, pollerVars, Tells, ToSignal
  <2>1. CASE i = n
    <3>1. j \in ToSignal(stack[n]) /\ stack'[n].batch = stack[n].batch /\ stack'[n].at # "event"
      BY <2>1, <1>5, <1>6, <1>7
    <3> QED  BY <2>1, <3>1, <1>7 DEF IInv, NewsInv
  <2>2. CASE i # n
    <3>1. i \in 1..(n - 1) /\ stack'[i] = stack[i]
      BY <2>2, <1>7
    <3> QED  BY <3>1, <1>7 DEF IInv, NewsInv
  <2> QED  BY <2>1, <2>2
<1>11. FirstInv'
  BY <1>1, <1>2, <1>7 DEF IInv, FirstInv, pollerVars
<1>12. NoLockInSignals'
  BY <1>1, <1>6, <1>7 DEF IInv, NoLockInSignals, At
<1>13. InStep'
  <2> SUFFICES ASSUME NEW p \in Pin, snap # NoSnapshot, p \notin doubt, ~Untells(stack', p)
               PROVE  seen[p] = snap[p] /\ heard'[p] = snap[p]
    BY <1>1, <1>9, InformedAfter DEF pollerVars
  <2>1. CASE Untells(stack, p)
    <3>1. PICK i \in 1..n : \E j \in ToSignal(stack[i]) : stack[i].batch[j].pin = p
      BY <2>1, <1>7 DEF Untells
    <3>2. i = n
      BY <3>1, <1>7 DEF Untells
    <3>3. PICK j \in ToSignal(stack[n]) : stack[n].batch[j].pin = p
      BY <3>1, <3>2
    <3>4. j = 1 /\ e.pin = p
      BY <3>3, <1>5, <1>6, <1>7 DEF Untells
    <3>5. snap[p] = Tells(e) /\ seen[p] = Tells(e)
      BY <3>3, <3>4, <1>1, <1>7 DEF IInv, NewsInv
    <3>6. heard'[p] = Tells(e)
      BY <3>4, <1>8 DEF IInv, TypeInv
    <3> QED  BY <3>5, <3>6
  <2>2. CASE ~Untells(stack, p)
    <3>1. p # e.pin
      BY <2>2, <1>5, <1>7 DEF Untells
    <3>2. heard'[p] = heard[p]
      BY <3>1, <1>8 DEF IInv, TypeInv
    <3> QED  BY <2>2, <3>2, Informed
  <2> QED  BY <2>1, <2>2
<1> QED  BY <1>9, <1>10, <1>11, <1>12, <1>13 DEF IInv

\* The next event of the batch.
LEMMA NextEventGoesOn == ASSUME IInv, NextEvent, Len(Top.batch) # 1 PROVE IInv'
<1> DEFINE n == Len(stack)
           b == Top.batch
           e == b[2]
           f == [at |-> "event", batch |-> Tail(b), called |-> FALSE]
<1>1. /\ stack # <<>> /\ Top.at = "edge" /\ seen' = Told(seen, e)
      /\ stack' = Append(Front(stack), f)
      /\ UNCHANGED <<pollerVars, loopVars, mutex, heard, doubt>>
  BY DEF NextEvent, At, GoOn
<1>2. b \in Seq(Event) /\ b # <<>> /\ Len(b) <= MaxEventsPerPoll
  BY <1>1, StackShape DEF IInv, FrameOK, Frame
<1>3. /\ e \in Event /\ Len(b) \in Nat /\ Len(b) > 1
      /\ Tail(b) \in Seq(Event) /\ Len(Tail(b)) = Len(b) - 1 /\ Tail(b) # <<>>
      /\ \A j \in 1..(Len(b) - 1) : Tail(b)[j] = b[j + 1]
  BY <1>2, Shortened
<1>4. f \in Frame /\ FrameOK(f)
  BY <1>2, <1>3 DEF Frame, FrameOK, Signals, MaxEventsPerPoll
<1>5. /\ ToSignal(f) = 1..(Len(b) - 1)
      /\ \A j \in 1..(Len(b) - 1) : j + 1 \in ToSignal(Top) /\ f.batch[j] = b[j + 1]
  BY <1>1, <1>3 DEF ToSignal
<1>6. f.at = "event" /\ f.batch # <<>> /\ 1 \in ToSignal(f) /\ f.batch[1] = e
  BY <1>3, <1>5
<1> HIDE DEF f
<1>7. /\ DOMAIN stack' = 1..n /\ n \in Nat \ {0}
      /\ \A i \in 1..(n - 1) : stack'[i] = stack[i]
      /\ stack'[n] = f /\ Top' = f /\ stack' # <<>> /\ DOMAIN stack = 1..n /\ Top = stack[n]
      /\ \A i \in 1..n : i = n \/ i \in 1..(n - 1)
  BY <1>1, <1>4, GoneOn, StackShape DEF IInv
<1> HIDE DEF n
<1>8. seen' \in [Pin -> Level] /\ seen' = [seen EXCEPT ![e.pin] = Tells(e)] /\ e.pin \in Pin
  BY <1>1, <1>3 DEF Told, Tells, IInv, TypeInv, Level, Event
<1>9. TypeInv' /\ StackInv'
  BY <1>1, <1>4, <1>8, FramesKept DEF IInv, TypeInv, pollerVars, loopVars
<1>10. e.pin \notin doubt => snap # NoSnapshot /\ snap[e.pin] = Tells(e)
  <2>1. 2 \in ToSignal(stack[n]) /\ stack[n].batch[2] = e
    BY <1>3, <1>5, <1>7
  <2> QED  BY <2>1, <1>7 DEF IInv, NewsInv
<1>11. NewsInv'
  <2> SUFFICES ASSUME NEW i \in 1..n, NEW j \in ToSignal(stack'[i])
               PROVE  LET d == stack'[i].batch[j] IN
                      d.pin \notin doubt =>
                        /\ snap # NoSnapshot /\ snap[d.pin] = Tells(d)
                        /\ stack'[i].at = "event" /\ j = 1 => seen'[d.pin] = Tells(d)
    BY <1>1, <1>7 DEF NewsInv, pollerVars, Tells, ToSignal
  <2>1. CASE i = n
    <3>1. j \in 1..(Len(b) - 1) /\ stack'[i].batch[j] = b[j + 1] /\ j + 1 \in ToSignal(Top)
      BY <2>1, <1>5, <1>7
    <3>2. j = 1 => stack'[i].batch[j] = e
      BY <2>1, <1>6, <1>7
    <3> QED  BY <3>1, <3>2, <1>7, <1>8 DEF IInv, NewsInv, TypeInv
  <2>2. CASE i # n
    <3> DEFINE d == stack[i].batch[j]
    <3>1. i \in 1..(n - 1) /\ stack'[i] = stack[i]
      BY <2>2, <1>7
    <3>2. d.pin \notin doubt =>
            /\ snap # NoSnapshot /\ snap[d.pin] = Tells(d)
            /\ stack[i].at = "event" /\ j = 1 => seen[d.pin] = Tells(d)
      BY <3>1, <1>7 DEF IInv, NewsInv
    <3>3. d.pin = e.pin /\ d.pin \notin doubt => seen'[d.pin] = Tells(d)
      BY <3>2, <1>8, <1>10 DEF IInv, TypeInv
    <3>4. d.pin # e.pin => seen'[d.pin] = seen[d.pin]
      BY <1>8 DEF IInv, TypeInv
    <3> QED  BY <3>1, <3>2, <3>3, <3>4
  <2> QED  BY <2>1, <2>2
<1>12. FirstInv'
  BY <1>1, <1>2, <1>7 DEF IInv, FirstInv, pollerVars
<1>13. NoLockInSignals'
  BY <1>1, <1>6, <1>7 DEF IInv, NoLockInSignals, At
<1>14. InStep'
  <2> SUFFICES ASSUME NEW p \in Pin, snap # NoSnapshot, p \notin doubt, ~Untells(stack', p)
               PROVE  seen'[p] = snap[p] /\ heard[p] = snap[p]
    BY <1>1, <1>9, InformedAfter DEF pollerVars
  <2>1. p # e.pin
    BY <1>6, <1>7 DEF Untells
  <2>2. ~Untells(stack, p)
    <3> SUFFICES ASSUME NEW i \in 1..n, NEW j \in ToSignal(stack[i]), stack[i].batch[j].pin = p
                 PROVE  FALSE
      BY <1>7 DEF Untells
    <3>1. i = n
      BY <1>7 DEF Untells
    <3>2. j \in 2..Len(b) /\ b[j].pin = p
      BY <3>1, <1>1, <1>2, <1>7 DEF ToSignal
    <3>3. j - 1 \in ToSignal(f) /\ f.batch[j - 1] = b[j]
      BY <3>2, <1>3, <1>5
    <3> QED  BY <3>2, <3>3, <1>7 DEF Untells
  <2>3. seen'[p] = seen[p]
    BY <2>1, <1>8 DEF IInv, TypeInv
  <2> QED  BY <2>2, <2>3, Informed
<1> QED  BY <1>9, <1>11, <1>12, <1>13, <1>14 DEF IInv

LEMMA NextEventKeeps == ASSUME IInv, NextEvent PROVE IInv'
<1>1. CASE Len(Top.batch) = 1
  <2>1. /\ stack # <<>> /\ Top.at = "edge" /\ Pop
        /\ UNCHANGED <<pollerVars, loopVars, mutex, history>>
    BY <1>1 DEF NextEvent, At, history
  <2>2. Top.batch \in Seq(Event)
    BY <2>1, StackShape DEF IInv, Frame
  <2>3. ToSignal(Top) = {}
    BY <1>1, <2>1, <2>2 DEF ToSignal
  <2>4. filter' \in Filters \cup {[rise |-> {}, fall |-> {}]}
    BY <2>1 DEF pollerVars, IInv, TypeInv
  <2> QED  BY <2>1, <2>3, <2>4, PopKeeps DEF pollerVars
<1> QED  BY <1>1, NextEventGoesOn

\* Calls that have nothing to signal return.
LEMMA ReturnKeeps ==
  ASSUME IInv, (\E f \in Filters : FilterApplied(f)) \/ DeviceDone \/ SignalDone
  PROVE  IInv'
<1>1. /\ stack # <<>> /\ Top.at \in {"filterLock", "deviceLock", "error", "started", "stopped"} /\ Pop
      /\ UNCHANGED <<level, snap, loopVars, mutex, history>>
      /\ filter' \in Filters \cup {[rise |-> {}, fall |-> {}]}
  BY DEF FilterApplied, DeviceDone, SignalDone, SetMask, At, pollerVars, IInv, TypeInv
<1>2. Top.batch = <<>>
  BY <1>1, StackShape DEF IInv, FrameOK
<1>3. ToSignal(Top) = {}
  BY <1>2 DEF ToSignal
<1> QED  BY <1>1, <1>3, PopKeeps

\* The event loop, or a receiver, calls the monitor or the device.
LEMMA RequestKeeps == ASSUME IInv, Timeout \/ Request PROVE IInv'
<1>1. CASE \E n \in Limits : setMaxEventsPerPoll(n)
  <2>1. /\ UNCHANGED <<pollerVars, active, mutex, stack, history>>
        /\ limit' \in Limits \cup {MaxEventsPerPoll}
    BY <1>1 DEF setMaxEventsPerPoll
  <2>2. TypeInv' /\ StackInv' /\ NewsInv' /\ FirstInv'
    BY <2>1 DEF IInv, TypeInv, StackInv, NewsInv, FirstInv, pollerVars, history, FrameOK, ToSignal, Tells
  <2>3. NoLockInSignals'
    BY <2>1 DEF IInv, NoLockInSignals, At, Top
  <2>4. InStep'
    <3>1. \A p \in Pin : Untells(stack', p) <=> Untells(stack, p)
      BY <2>1
    <3> QED  BY <2>1, <2>2, <3>1, Informed, InformedAfter DEF pollerVars, history
  <2> QED  BY <2>2, <2>3, <2>4 DEF IInv
<1>2. CASE Timeout \/ PollOnce \/ start \/ stop \/ setFilter \/ DeviceCall
  <2>1. MayCall /\ UNCHANGED <<pollerVars, limit, mutex, history>> /\ active' \in BOOLEAN
    BY <1>2 DEF Timeout, PollOnce, start, stop, setFilter, DeviceCall, MayCall, loopVars, IInv, TypeInv
  <2>2. PICK l \in Waiting \cup {"started", "stopped"} : Push(Call(l))
    <3>1. CASE Timeout \/ PollOnce
      BY <3>1 DEF Timeout, PollOnce, Waiting
    <3>2. CASE start \/ stop
      BY <3>2 DEF start, stop
    <3>3. CASE setFilter \/ DeviceCall
      BY <3>3 DEF setFilter, DeviceCall, Waiting
    <3> QED  BY <1>2, <3>1, <3>2, <3>3
  <2> QED  BY <2>1, <2>2, PushKeeps
<1> QED  BY <1>1, <1>2 DEF Request

-----------------------------------------------------------------------------
(* GpioPoller::pollEvents *)

LEMMA PollLockKeeps == ASSUME IInv, PollLock PROVE IInv'
  BY EmptyGoesOn DEF PollLock

LEMMA PollFailsKeeps == ASSUME IInv, PollFails PROVE IInv'
  BY EmptyGoesOn DEF PollFails

\* While the native poll runs, the innermost call has no events.
LEMMA AtNative ==
  ASSUME IInv, At("native")
  PROVE  /\ stack # <<>> /\ Top = stack[Len(stack)] /\ Top.batch = <<>> /\ ToSignal(stack[Len(stack)]) = {}
         /\ DOMAIN stack = 1..Len(stack) /\ Len(stack) \in Nat \ {0}
         /\ \A i \in 1..Len(stack) : i = Len(stack) \/ i \in 1..(Len(stack) - 1)
         /\ \A i \in 1..(Len(stack) - 1) : stack[i].at \in Signals
<1>1. stack # <<>> /\ Top.at = "native"
  BY DEF At
<1>2. Top = stack[Len(stack)] /\ FrameOK(Top) /\ DOMAIN stack = 1..Len(stack) /\ Len(stack) \in Nat \ {0}
  BY <1>1, StackShape DEF IInv
<1>3. Top.batch = <<>>
  BY <1>1, <1>2 DEF FrameOK
<1>4. ToSignal(stack[Len(stack)]) = {}
  BY <1>2, <1>3 DEF ToSignal
<1>5. \A i \in 1..(Len(stack) - 1) : stack[i].at \in Signals
  BY <1>2 DEF IInv, StackInv
<1>6. \A i \in 1..Len(stack) : i = Len(stack) \/ i \in 1..(Len(stack) - 1)
  BY <1>2, Positions
<1> QED  BY <1>1, <1>2, <1>3, <1>4, <1>5, <1>6

\* A new snapshot takes the pins as they are.
LEMMA Sampled ==
  ASSUME IInv, Sample
  PROVE  snap' = level /\ level' = level /\ snap' # NoSnapshot /\ snap' \in [Pin -> Levels]
         /\ level \in [Pin -> Level]
<1>1. level \in [Pin -> Levels] /\ snap' = level /\ level' = level
  BY DEF IInv, TypeInv, Sample
<1>2. Levels \subseteq Level /\ Levels \subseteq -1..1
  BY MonitorConstants DEF Level
<1>3. level \in [Pin -> Level] /\ level \in [Pin -> -1..1]
  BY <1>1, <1>2
<1> QED  BY <1>1, <1>3, PollingConstants

\* Where no doubt is left and the sample's batch says nothing, or an outer
\* call is to speak, the pin has not changed and was not in doubt.
LEMMA Undoubted ==
  ASSUME IInv, At("native"), Sample, snap # NoSnapshot,
         NEW b, doubt' = Doubt(b),
         NEW p \in Pin, p \notin doubt',
         (\A k \in DOMAIN b : b[k].pin # p) \/ p \in UntoldBy(Front(stack))
  PROVE  p \notin doubt /\ (\A k \in DOMAIN b : b[k].pin # p) /\ snap'[p] = snap[p]
<1> DEFINE told  == {b[i].pin : i \in DOMAIN b}
           outer == UntoldBy(Front(stack))
<1>1. doubt' = (doubt \ (told \ outer)) \cup Hidden(b) \cup (told \cap outer)
  BY DEF Doubt
<1>2. (\A k \in DOMAIN b : b[k].pin # p) <=> p \notin told
  OBVIOUS
<1> HIDE DEF told, outer
<1>3. p \notin told /\ p \notin doubt /\ p \notin Hidden(b)
  BY <1>1, <1>2 DEF outer
<1>4. snap[p] = level[p]
  BY <1>2, <1>3 DEF Hidden
<1> QED  BY <1>2, <1>3, <1>4 DEF Sample

\* A successful poll, whether its batch is empty, emitted or refused.
LEMMA SampleKeeps ==
  ASSUME IInv, At("native"), Sample, snap # NoSnapshot,
         NEW b \in Seq(Event), \A k \in DOMAIN b : b[k] \in Pending,
         doubt' = Doubt(b), mutex' = "free", heard' = heard,
         seen' = IF b = <<>> THEN seen ELSE Told(seen, Head(b)),
         TypeInv', StackInv',
         DOMAIN stack' \in {1..(Len(stack) - 1), 1..Len(stack)},
         \A i \in 1..(Len(stack) - 1) : stack'[i] = stack[i],
         Len(stack) \in DOMAIN stack' =>
           stack'[Len(stack)].batch = b /\ stack'[Len(stack)].at \in {"event", "error"},
         b # <<>> => Len(stack) \in DOMAIN stack',
         stack' # <<>> => Top'.at \in Signals
  PROVE  IInv'
<1> DEFINE n == Len(stack)
           e == b[1]
<1>1. /\ ToSignal(stack[n]) = {} /\ DOMAIN stack = 1..n /\ n \in Nat \ {0}
      /\ \A i \in 1..n : i = n \/ i \in 1..(n - 1)
  BY AtNative
<1>2. snap' = level /\ snap' # NoSnapshot
  BY Sampled
<1>3. b # <<>> => e \in Event /\ Head(b) = e /\ 1 \in DOMAIN b
  BY ElementOfSeq
<1>4. b # <<>> => seen' = [seen EXCEPT ![e.pin] = Tells(e)] /\ e.pin \in Pin
  BY <1>3 DEF Told, Tells, Event
<1>5. seen \in [Pin -> Level]
  BY DEF IInv, TypeInv
<1>6. n \in DOMAIN stack' => ToSignal(stack'[n]) = DOMAIN b /\ stack'[n].batch = b
  BY DEF ToSignal
<1>7. DOMAIN b # {} => b # <<>>
  BY EmptySeq
<1> HIDE DEF n
<1>8. \A i \in DOMAIN stack' : i = n \/ (i \in 1..(n - 1) /\ stack'[i] = stack[i])
  <2>1. DOMAIN stack' \subseteq 1..n
    BY <1>1, Positions DEF n
  <2>2. \A i \in 1..(n - 1) : stack'[i] = stack[i]
    BY DEF n
  <2> QED  BY <2>1, <2>2, <1>1
<1>9. \A i \in 1..(n - 1) : i \in DOMAIN stack' /\ stack'[i] = stack[i]
  <2>1. 1..(n - 1) \subseteq DOMAIN stack'
    BY <1>1, Positions DEF n
  <2> QED  BY <2>1 DEF n
<1>10. ASSUME NEW p \in Pin, NEW i \in 1..(n - 1), NEW j \in ToSignal(stack[i]), stack[i].batch[j].pin = p
       PROVE  p \in UntoldBy(Front(stack))
  <2>1. /\ DOMAIN Front(stack) = 1..(n - 1) /\ \A k \in 1..(n - 1) : Front(stack)[k] = stack[k]
    <3>1. stack # <<>> /\ TypeInv
      BY AtNative DEF IInv
    <3>2. /\ Front(stack) \in Seq(Frame) /\ Len(Front(stack)) = n - 1
          /\ \A k \in 1..(n - 1) : Front(stack)[k] = stack[k]
      BY <3>1, StackShape DEF n
    <3> QED  BY <3>2, LenProperties
  <2>2. \A k \in DOMAIN Front(stack) : Front(stack)[k].batch \in Seq(Event)
    <3>1. \A k \in 1..(n - 1) : k \in DOMAIN stack
      BY <1>1
    <3>2. \A k \in DOMAIN stack : stack[k].batch \in Seq(Event)
      BY DEF IInv, TypeInv, FrameOK, Frame
    <3> QED  BY <2>1, <3>1, <3>2
  <2> QED  BY <1>10, <2>1, <2>2, UntoldIff
<1>11. NewsInv'
  <2> SUFFICES ASSUME NEW i \in DOMAIN stack', NEW j \in ToSignal(stack'[i])
               PROVE  LET d == stack'[i].batch[j] IN
                      d.pin \notin doubt' =>
                        /\ snap' # NoSnapshot /\ snap'[d.pin] = Tells(d)
                        /\ stack'[i].at = "event" /\ j = 1 => seen'[d.pin] = Tells(d)
    BY DEF NewsInv, Tells, ToSignal
  <2>1. CASE i = n
    <3> DEFINE d == b[j]
    <3>1. j \in DOMAIN b /\ stack'[i].batch[j] = d /\ d \in Pending
      BY <2>1, <1>6
    <3>2. snap'[d.pin] = Tells(d)
      BY <3>1, <1>2, PendingFacts
    <3>3. j = 1 => seen'[d.pin] = Tells(d)
      BY <3>1, <1>4, <1>5, <1>7
    <3> QED  BY <3>1, <3>2, <3>3, <1>2
  <2>2. CASE i # n
    <3> DEFINE d == stack[i].batch[j]
    <3>1. i \in 1..(n - 1) /\ stack'[i] = stack[i] /\ i \in DOMAIN stack
      BY <2>2, <1>1, <1>8
    <3>2. d \in Event /\ d.pin \in Pin
      <4>1. stack[i].batch \in Seq(Event) /\ j \in DOMAIN stack[i].batch
        BY <3>1 DEF IInv, TypeInv, FrameOK, Frame, ToSignal
      <4> QED  BY <4>1, EventOf
    <3>3. d.pin \notin doubt =>
            /\ snap # NoSnapshot /\ snap[d.pin] = Tells(d)
            /\ stack[i].at = "event" /\ j = 1 => seen[d.pin] = Tells(d)
      BY <3>1 DEF IInv, NewsInv
    <3>4. ASSUME d.pin \notin doubt'
          PROVE  d.pin \notin doubt /\ snap'[d.pin] = snap[d.pin] /\ \A k \in DOMAIN b : b[k].pin # d.pin
      BY <3>1, <3>2, <3>4, <1>10, Undoubted
    <3>5. ASSUME d.pin \notin doubt' PROVE seen'[d.pin] = seen[d.pin]
      BY <3>2, <3>4, <3>5, <1>3, <1>4, <1>5
    <3> QED  BY <3>1, <3>3, <3>4, <3>5, <1>2
  <2> QED  BY <2>1, <2>2
<1>12. InStep'
  <2> SUFFICES ASSUME NEW p \in Pin, p \notin doubt', ~Untells(stack', p)
               PROVE  seen'[p] = snap'[p] /\ heard[p] = snap'[p]
    BY InformedAfter
  <2>1. \A k \in DOMAIN b : b[k].pin # p
    BY <1>6, <1>7 DEF Untells, n
  <2>2. p \notin doubt /\ snap'[p] = snap[p]
    BY <2>1, Undoubted
  <2>3. ~Untells(stack, p)
    BY <1>1, <1>9 DEF Untells
  <2>4. seen[p] = snap[p] /\ heard[p] = snap[p]
    BY <2>2, <2>3, Informed
  <2>5. seen'[p] = seen[p]
    BY <2>1, <1>3, <1>4, <1>5
  <2> QED  BY <2>2, <2>4, <2>5
<1>13. FirstInv'
  BY <1>2 DEF FirstInv
<1>14. NoLockInSignals'
  BY DEF NoLockInSignals, At, Signals
<1> QED  BY <1>11, <1>12, <1>13, <1>14 DEF IInv

\* What every successful poll leaves of the types.
LEMMA SampledTypes ==
  ASSUME IInv, Sample, NEW b, doubt' = Doubt(b), b \in Seq(Event)
  PROVE  /\ level' \in [Pin -> Levels] /\ snap' \in [Pin -> Levels] \cup {NoSnapshot}
         /\ filter' \in Filters \cup {[rise |-> {}, fall |-> {}]}
         /\ doubt' \subseteq Pin
<1>1. Hidden(b) \subseteq Pin
  BY DEF Hidden
<1>2. \A j \in DOMAIN b : b[j].pin \in Pin
  BY EventOf
<1>3. doubt' \subseteq Pin
  BY <1>1, <1>2 DEF Doubt, IInv, TypeInv
<1> QED  BY <1>3, Sampled DEF Sample, IInv, TypeInv

\* C returned what pollEvents refuses: the snapshot moves on and an error is
\* emitted.  Of a first snapshot taken so, nothing is known to the receivers.
LEMMA PollRefusedKeeps == ASSUME IInv, PollRefused PROVE IInv'
<1> DEFINE n == Len(stack)
           f == [at |-> "error", batch |-> <<>>, called |-> FALSE]
<1>1. /\ At("native") /\ mutex' = "free" /\ Sample
      /\ doubt' = IF snap = NoSnapshot THEN Pin ELSE doubt \cup Hidden(<<>>)
      /\ stack' = Append(Front(stack), f)
      /\ UNCHANGED <<loopVars, seen, heard>>
  BY DEF PollRefused, GoOn
<1>2. <<>> \in Seq(Event) /\ DOMAIN <<>> = {}
  BY EmptySeq
<1>3. snap # NoSnapshot => doubt' = Doubt(<<>>)
  BY <1>1 DEF Doubt
<1>4. f \in Frame /\ FrameOK(f) /\ f.at = "error" /\ f.batch = <<>>
  BY <1>2 DEF Frame, FrameOK, Signals, MaxEventsPerPoll
<1> HIDE DEF f
<1>5. /\ stack # <<>> /\ DOMAIN stack' = 1..n /\ stack'[n] = f /\ Top' = f
      /\ \A i \in 1..(n - 1) : stack'[i] = stack[i]
  BY <1>1, <1>4, AtNative, GoneOn DEF IInv
<1>6. /\ stack' \in Seq(Frame) /\ Len(stack') <= MaxDepth
      /\ \A i \in DOMAIN stack' : FrameOK(stack'[i])
      /\ StackInv'
  BY <1>1, <1>4, <1>5, FramesKept
<1>7. Top'.at \in Signals /\ stack'[n].batch = <<>> /\ stack'[n].at \in {"event", "error"}
  BY <1>4, <1>5 DEF Signals
<1>8. CASE snap # NoSnapshot
  <2>1. TypeInv'
    BY <1>1, <1>2, <1>3, <1>6, <1>8, SampledTypes DEF TypeInv, IInv, loopVars
  <2>2. DOMAIN stack' \in {1..(n - 1), 1..n}
    BY <1>5
  <2>3. seen' = seen /\ heard' = heard
    BY <1>1
  <2> QED  BY <1>1, <1>2, <1>3, <1>5, <1>6, <1>7, <1>8, <2>1, <2>2, <2>3, SampleKeeps
<1>9. CASE snap = NoSnapshot
  <2>1. doubt' = Pin /\ snap' = level /\ snap' # NoSnapshot /\ level' \in [Pin -> Levels]
    BY <1>1, <1>9, Sampled DEF Sample, IInv, TypeInv
  <2>2. TypeInv'
    BY <1>1, <1>6, <2>1 DEF TypeInv, IInv, loopVars, Sample
  <2>3. \A i \in DOMAIN stack' : stack'[i].batch = <<>>
    <3>1. \A i \in 1..(n - 1) : stack[i].batch = <<>>
      BY <1>1, <1>9, AtNative, Positions DEF IInv, TypeInv, FirstInv
    <3> QED  BY <1>5, <1>7, <3>1
  <2>4. \A i \in DOMAIN stack' : ToSignal(stack'[i]) = {}
    BY <1>2, <2>3 DEF ToSignal
  <2>5. NewsInv' /\ FirstInv'
    BY <2>3, <2>4 DEF NewsInv, FirstInv, ToSignal
  <2>6. NoLockInSignals'
    BY <1>1, <1>7, <1>5 DEF NoLockInSignals, At, Signals
  <2>7. InStep'
    BY <2>1 DEF InStep
  <2> QED  BY <1>6, <2>2, <2>5, <2>6, <2>7 DEF IInv
<1> QED  BY <1>8, <1>9

\* A poll with events: the first is emitted.
LEMMA PollEmits ==
  ASSUME IInv, NEW b \in Batches(limit), PollOk(b), snap # NoSnapshot, b # <<>>
  PROVE  IInv'
<1> DEFINE n == Len(stack)
           f == [at |-> "event", batch |-> b, called |-> FALSE]
<1>1. /\ At("native") /\ mutex' = "free" /\ Sample /\ doubt' = Doubt(b)
      /\ stack' = Append(Front(stack), f)
      /\ seen' = Told(seen, Head(b)) /\ UNCHANGED <<heard, loopVars>>
  BY DEF PollOk, GoOn
<1>2. b \in Seq(Event) /\ Len(b) <= MaxEventsPerPoll /\ \A i \in DOMAIN b : b[i] \in Pending
  BY BatchFacts
<1>3. f \in Frame /\ FrameOK(f) /\ f.at = "event" /\ f.batch = b
  BY <1>2 DEF Frame, FrameOK, Signals
<1> HIDE DEF f
<1>4. /\ stack # <<>> /\ DOMAIN stack' = 1..n /\ stack'[n] = f /\ Top' = f /\ n \in Nat \ {0}
      /\ \A i \in 1..(n - 1) : stack'[i] = stack[i]
  BY <1>1, <1>3, AtNative, GoneOn DEF IInv
<1>5. /\ stack' \in Seq(Frame) /\ Len(stack') <= MaxDepth
      /\ \A i \in DOMAIN stack' : FrameOK(stack'[i])
      /\ StackInv'
  BY <1>1, <1>3, <1>4, FramesKept
<1>6. seen' \in [Pin -> Level]
  BY <1>1, <1>2, HeadTailProperties DEF Told, Level, IInv, TypeInv
<1>7. TypeInv'
  BY <1>1, <1>2, <1>5, <1>6, SampledTypes DEF TypeInv, IInv, loopVars
<1>8. Top'.at \in Signals /\ stack'[n].batch = b /\ stack'[n].at \in {"event", "error"}
  BY <1>3, <1>4 DEF Signals
<1>9. DOMAIN stack' \in {1..(n - 1), 1..n} /\ n \in DOMAIN stack'
  BY <1>4
<1>10. heard' = heard
  BY <1>1
<1> QED  BY <1>1, <1>2, <1>4, <1>5, <1>7, <1>8, <1>9, <1>10, SampleKeeps

\* An empty batch: pollOnce returns.
LEMMA PollReturns ==
  ASSUME IInv, PollOk(<<>>), snap # NoSnapshot
  PROVE  IInv'
<1> DEFINE n == Len(stack)
<1>1. /\ At("native") /\ mutex' = "free" /\ Sample /\ doubt' = Doubt(<<>>) /\ Pop
      /\ UNCHANGED <<seen, heard, loopVars>>
  BY DEF PollOk
<1>2. <<>> \in Seq(Event) /\ DOMAIN <<>> = {}
  BY EmptySeq
<1>3. /\ stack # <<>> /\ stack' \in Seq(Frame) /\ Len(stack') = n - 1
      /\ DOMAIN stack' = 1..(n - 1) /\ n \in Nat \ {0} /\ DOMAIN stack = 1..n
      /\ \A i \in 1..(n - 1) : stack'[i] = stack[i]
      /\ stack' # <<>> => n > 1 /\ Top' = stack[n - 1]
  BY <1>1, AtNative, Popped DEF IInv
<1>4. n \notin DOMAIN stack' /\ DOMAIN stack' \in {1..(n - 1), 1..n}
  BY <1>3, Positions
<1>5. \A i \in 1..(n - 1) : FrameOK(stack'[i]) /\ stack'[i].at \in Signals
  BY <1>1, <1>3, AtNative, Positions DEF IInv, TypeInv
<1>6. Len(stack') <= MaxDepth
  BY <1>3, MonitorConstants DEF IInv, TypeInv
<1>7. TypeInv'
  BY <1>1, <1>2, <1>3, <1>5, <1>6, SampledTypes DEF TypeInv, IInv, loopVars
<1>8. StackInv'
  BY <1>3, <1>5 DEF StackInv, Signals
<1>9. stack' # <<>> => Top'.at \in Signals
  BY <1>3, <1>5
<1>10. seen' = seen /\ heard' = heard
  BY <1>1
<1> QED  BY <1>1, <1>2, <1>3, <1>4, <1>7, <1>8, <1>9, <1>10, SampleKeeps

\* The first poll: its snapshot is what the receivers start from.
LEMMA PollStarts ==
  ASSUME IInv, NEW b \in Batches(limit), PollOk(b), snap = NoSnapshot
  PROVE  IInv'
<1> DEFINE n == Len(stack)
<1>1. b = <<>>
  <2>1. \A i \in DOMAIN b : b[i] \in Pending
    BY BatchFacts
  <2>2. DOMAIN b = {} /\ b \in Seq(Event)
    BY <2>1, BatchFacts DEF Pending
  <2> QED  BY <2>2, EmptySeq
<1>2. /\ At("native") /\ mutex' = "free" /\ Sample /\ doubt' = Doubt(b) /\ Pop
      /\ seen' = level /\ heard' = level /\ UNCHANGED loopVars
  BY <1>1 DEF PollOk
<1>3. /\ stack # <<>> /\ stack' \in Seq(Frame) /\ Len(stack') = n - 1
      /\ DOMAIN stack' = 1..(n - 1) /\ n \in Nat \ {0} /\ DOMAIN stack = 1..n
      /\ \A i \in 1..(n - 1) : stack'[i] = stack[i]
      /\ stack' # <<>> => n > 1 /\ Top' = stack[n - 1]
  BY <1>2, AtNative, Popped DEF IInv
<1>4. \A i \in 1..(n - 1) : /\ FrameOK(stack'[i]) /\ stack'[i].at \in Signals
                            /\ stack'[i].batch = <<>>
  BY <1>2, <1>3, AtNative, Positions DEF IInv, TypeInv, FirstInv
<1>5. Len(stack') <= MaxDepth
  BY <1>3, MonitorConstants DEF IInv, TypeInv
<1>6. snap' = level /\ snap' # NoSnapshot /\ level \in [Pin -> Level]
  BY <1>2, Sampled
<1>7. TypeInv'
  BY <1>2, <1>3, <1>4, <1>5, <1>6, SampledTypes, BatchFacts DEF TypeInv, IInv, loopVars
<1>8. StackInv' /\ NoLockInSignals'
  BY <1>2, <1>3, <1>4 DEF StackInv, NoLockInSignals, At, Signals
<1>9. \A i \in DOMAIN stack' : ToSignal(stack'[i]) = {}
  BY <1>3, <1>4 DEF ToSignal
<1>10. NewsInv' /\ FirstInv'
  BY <1>6, <1>9 DEF NewsInv, FirstInv, ToSignal
<1>11. InStep'
  BY <1>2, <1>6, <1>7, InformedAfter
<1> QED  BY <1>7, <1>8, <1>10, <1>11 DEF IInv

LEMMA PollOkKeeps == ASSUME IInv, NEW b \in Batches(limit), PollOk(b) PROVE IInv'
  BY PollStarts, PollEmits, PollReturns

-----------------------------------------------------------------------------
(* The other thread, the pins, and stuttering *)

LEMMA OthersKeep ==
  ASSUME IInv, \/ OtherLock \/ OtherUnlock \/ \E p \in Pin, v \in Levels : Outside(p, v)
               \/ UNCHANGED vars
  PROVE  IInv'
<1>1. /\ UNCHANGED <<snap, filter, loopVars, stack, history>>
      /\ level' \in [Pin -> Levels] /\ mutex' \in {"free", "loop", "other"}
      /\ mutex' = "loop" <=> mutex = "loop"
  BY DEF OtherLock, OtherUnlock, Outside, PinChanges, vars, pollerVars, IInv, TypeInv
<1>2. TypeInv' /\ StackInv' /\ NewsInv' /\ FirstInv'
  BY <1>1 DEF IInv, TypeInv, StackInv, NewsInv, FirstInv, loopVars, history, FrameOK, ToSignal, Tells
<1>3. NoLockInSignals'
  BY <1>1 DEF IInv, NoLockInSignals, At, Top
<1>4. InStep'
  <2>1. \A p \in Pin : Untells(stack', p) <=> Untells(stack, p)
    BY <1>1
  <2> QED  BY <1>1, <1>2, <2>1, Informed, InformedAfter DEF history
<1> QED  BY <1>2, <1>3, <1>4 DEF IInv

LEMMA InitIInv == ASSUME Init PROVE IInv
<1>1. stack = <<>> /\ stack \in Seq(Frame) /\ Len(stack) = 0 /\ DOMAIN stack = {}
  BY EmptySeq DEF Init
<1>2. seen \in [Pin -> Level] /\ heard \in [Pin -> Level] /\ Len(stack) <= MaxDepth
  BY <1>1, MonitorConstants DEF Init, Level
<1>3. TypeInv
  BY <1>1, <1>2 DEF Init, PollerInit, TypeInv
<1> QED  BY <1>1, <1>3 DEF Init, PollerInit, IInv, StackInv, NewsInv, FirstInv, NoLockInSignals, At, InStep

LEMMA StepIInv == ASSUME IInv, [Next]_vars PROVE IInv'
<1>1. CASE Timeout \/ Request
  BY <1>1, RequestKeeps
<1>2. CASE LoopStep
  BY <1>2, PollLockKeeps, PollOkKeeps, PollFailsKeeps, PollRefusedKeeps, EmitEdgeKeeps, NextEventKeeps,
     ReturnKeeps DEF LoopStep
<1>3. CASE \/ OtherLock \/ OtherUnlock \/ (\E p \in Pin, v \in Levels : Outside(p, v))
           \/ UNCHANGED vars
  BY <1>3, OthersKeep
<1> QED  BY <1>1, <1>2, <1>3 DEF Next

-----------------------------------------------------------------------------
(* The results *)

\* The inductive invariant holds in every run of the monitor, whatever its
\* receivers call back and whatever the other thread and the pins do.
THEOREM MonitorInvariant == Spec => []IInv
<1>1. Init => IInv
  BY InitIInv
<1>2. IInv /\ [Next]_vars => IInv'
  BY StepIInv
<1> QED  BY <1>1, <1>2, PTL DEF Spec

\* The poller, the monitor and the loop's calls keep their types, and no
\* poll's batch outgrows the four-event array.
THEOREM MonitorTypes == Spec => []TypeOK
<1>1. IInv => TypeOK
  BY DEF IInv, TypeInv, TypeOK, FrameOK, Capacity, MaxEventsPerPoll
<1> QED  BY <1>1, MonitorInvariant, PTL

\* Receivers run without the device's mutex.
THEOREM MonitorLock == Spec => []NoLockInSignals
<1>1. IInv => NoLockInSignals
  BY DEF IInv
<1> QED  BY <1>1, MonitorInvariant, PTL

\* pollOnce loses and doubles no event: both receivers know every pin's
\* level as of the last successful poll, or the model names the reason.
THEOREM MonitorInStep == Spec => []InStep
<1>1. IInv => InStep
  BY DEF IInv
<1> QED  BY <1>1, MonitorInvariant, PTL

\* Only a successful poll leaves the native call without an error.
LEMMA FromNative ==
  ASSUME IInv, [Next]_vars, At("native"), mutex' = "free",
         stack' = <<>> \/ Last(stack').at = "event"
  PROVE  \E b \in Batches(limit) : PollOk(b)
<1>1. mutex = "loop" /\ Top.at = "native" /\ stack # <<>>
  BY DEF IInv, NoLockInSignals, At
<1>2. ~(Timeout \/ Request)
  BY <1>1 DEF Timeout, Request, PollOnce, start, stop, setFilter, DeviceCall, setMaxEventsPerPoll
<1>3. ~(PollLock \/ EmitEdge \/ NextEvent \/ SignalDone \/ DeviceDone)
  BY <1>1 DEF PollLock, EmitEdge, NextEvent, SignalDone, DeviceDone, At
<1>4. ~(\E f \in Filters : FilterApplied(f))
  BY <1>1 DEF FilterApplied
<1>5. ~(PollFails \/ PollRefused)
  <2>1. [at |-> "error", batch |-> <<>>, called |-> FALSE] \in Frame
    BY EmptySeq DEF Frame, Signals
  <2>2. GoOn("error", <<>>) => stack' # <<>> /\ Top'.at = "error"
    BY <1>1, <2>1, GoneOn DEF GoOn, IInv
  <2>3. Top' = Last(stack')
    BY DEF Top, Last
  <2> QED  BY <2>2, <2>3 DEF PollFails, PollRefused
<1>6. ~(OtherLock \/ OtherUnlock \/ UNCHANGED vars)
  BY <1>1 DEF OtherLock, OtherUnlock, vars
<1>7. ~(\E p \in Pin, v \in Levels : Outside(p, v))
  BY <1>1 DEF Outside
<1> QED  BY <1>2, <1>3, <1>4, <1>5, <1>6, <1>7 DEF Next, LoopStep

\* What NothingDiscarded says of a step about one pin.
Kept(p) ==
  /\ At("native") /\ mutex' = "free" /\ (stack' = <<>> \/ Last(stack').at = "event")
  /\ limit >= MaxEventsPerPoll /\ filter = [rise |-> {}, fall |-> {}]
  /\ snap # NoSnapshot /\ snap[p] # level[p] /\ -1 \notin {snap[p], level[p]}
  => p \in UntoldBy(stack')

LEMMA StepKept == ASSUME IInv, [Next]_vars, NEW p \in Pin PROVE Kept(p)
<1> SUFFICES ASSUME At("native"), mutex' = "free", stack' = <<>> \/ Last(stack').at = "event",
                    limit >= MaxEventsPerPoll, filter = [rise |-> {}, fall |-> {}],
                    snap # NoSnapshot, snap[p] # level[p], -1 \notin {snap[p], level[p]}
             PROVE  p \in UntoldBy(stack')
  BY DEF Kept
<1>1. PICK b \in Batches(limit) : PollOk(b)
  BY FromNative
<1> DEFINE e == [pin |-> p, edge |-> IF level[p] = 1 THEN "rise" ELSE "fall"]
           f == [at |-> "event", batch |-> b, called |-> FALSE]
<1>2. e \in Event /\ e.pin = p
  BY DEF Event
<1>3. snap[p] \in {0, 1} /\ level[p] \in {0, 1}
  BY MonitorConstants DEF IInv, TypeInv, Level
<1>4. e \in Pending
  <2>1. Accepted(filter, e)
    BY DEF Accepted
  <2>2. e \in Edges(snap, level)
    BY <1>2, <1>3 DEF Edges
  <2> QED  BY <2>1, <2>2 DEF Pending
<1> HIDE DEF e
<1>5. PICK k \in DOMAIN b : b[k] = e
  BY <1>4, BatchComplete
<1>6. b \in Seq(Event) /\ b # <<>>
  BY <1>5, BatchFacts
<1>7. stack' = Append(Front(stack), f)
  BY <1>1, <1>6 DEF PollOk, GoOn
<1>8. f \in Frame /\ f.at = "event" /\ f.batch = b
  BY <1>6 DEF Frame, Signals
<1> HIDE DEF f
<1>9. DOMAIN stack' = 1..Len(stack) /\ Len(stack) \in DOMAIN stack' /\ stack'[Len(stack)] = f
  BY <1>7, <1>8, GoneOn DEF At, IInv
<1>10. \A i \in DOMAIN stack' : stack'[i].batch \in Seq(Event)
  BY StepIInv DEF IInv, TypeInv, FrameOK, Frame
<1>11. k \in ToSignal(stack'[Len(stack)]) /\ stack'[Len(stack)].batch[k].pin = p
  BY <1>2, <1>5, <1>8, <1>9 DEF ToSignal
<1> QED  BY <1>9, <1>10, <1>11, UntoldIff

\* With the default limit and no filter the four-event array loses no edge
\* between two GPIO levels, whichever pins change together.
THEOREM MonitorDiscardsNothing == Spec => NothingDiscarded
<1>1. IInv /\ [Next]_vars => \A p \in Pin : Kept(p)
  BY StepKept
<1>2. IInv /\ [Next]_vars => [\A p \in Pin : Kept(p)]_vars
  BY <1>1
<1>3. NothingDiscarded <=> [][\A p \in Pin : Kept(p)]_vars
  BY DEF NothingDiscarded, Kept
<1> QED  BY <1>2, <1>3, MonitorInvariant, PTL DEF Spec

=============================================================================
