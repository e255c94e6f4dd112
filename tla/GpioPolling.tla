----------------------------- MODULE GpioPolling -----------------------------
(***************************************************************************)
(* GpioPoller: a snapshot of the pins, advanced by each successful poll,   *)
(* an edge filter, and the batch of edge events that one poll returns.     *)
(* The sampling and the edge detection are the C library's; the class      *)
(* bounds the batch, translates the filter and turns failures into errors. *)
(***************************************************************************)
EXTENDS Integers, Sequences, FiniteSets, FiniteSetsExt, SequencesExt

CONSTANTS
  Pin,       \* the GPIO pins
  Filters,   \* the filters the program sets: records of two pin sets
  Limits,    \* the values of maxEvents the program asks for
  NoSnapshot \* the poller has not sampled yet

ASSUME PollingConstants ==
  /\ IsFiniteSet(Pin) /\ Limits \subseteq Nat
  /\ Filters \subseteq [rise : SUBSET Pin, fall : SUBSET Pin]
  /\ NoSnapshot \notin [Pin -> -1..1]

VARIABLES
  level,     \* level[p]: what a read of pin p gives; -1 when it is no GPIO
  snap,      \* the levels of the last successful poll
  filter     \* the poller's filter mask, as the pins it names per edge

pollerVars == <<level, snap, filter>>

Level == {-1, 0, 1}
Event == [pin : Pin, edge : {"rise", "fall"}]

\* The array a poll offers the C library has room for four events.
MaxEventsPerPoll == 4

\* The chip has four pins, GP0 to GP3 (enum class Pin in Types.h).
ASSUME PinsFit == Cardinality(Pin) <= MaxEventsPerPoll

\* Mutant: the array is one too short.
CapacityShort(limit) == IF limit < MaxEventsPerPoll THEN limit ELSE MaxEventsPerPoll - 1

Capacity(limit) == IF limit < MaxEventsPerPoll THEN limit ELSE MaxEventsPerPoll

\* The edges between two samples; none on a pin that is not a GPIO in both.
Edges(old, new) ==
  {e \in Event : IF e.edge = "rise" THEN old[e.pin] = 0 /\ new[e.pin] = 1
                                    ELSE old[e.pin] = 1 /\ new[e.pin] = 0}

\* An empty filter accepts everything.
Accepted(f, e) ==
  \/ f.rise = {} /\ f.fall = {}
  \/ e.pin \in IF e.edge = "rise" THEN f.rise ELSE f.fall

\* What the next poll would find: nothing the first time.
Pending == IF snap = NoSnapshot THEN {}
           ELSE {e \in Edges(snap, level) : Accepted(filter, e)}

\* The batches that poll may return: as many of the events as there is room.
Batches(limit) ==
  LET n == Min({Capacity(limit), Cardinality(Pending)})
  IN  UNION {SetToSeqs(s) : s \in kSubset(n, Pending)}

\* The pins on which an edge happened that the batch does not tell of.
Hidden(batch) ==
  IF snap = NoSnapshot THEN {}
  ELSE {p \in Pin : snap[p] # level[p] /\ \A i \in DOMAIN batch : batch[i].pin # p}

PollerInit ==
  /\ level \in [Pin -> Level]
  /\ snap = NoSnapshot
  /\ filter = [rise |-> {}, fall |-> {}]

\* The native poll succeeded: whatever it returns, the snapshot moved on.
Sample == snap' = level /\ UNCHANGED <<level, filter>>

SetMask(f) == filter' = f /\ UNCHANGED <<level, snap>>

\* The world outside, or another thread's configuration, changes a pin.
PinChanges(p, v) == level' = [level EXCEPT ![p] = v] /\ UNCHANGED <<snap, filter>>
=============================================================================
