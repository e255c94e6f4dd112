-------------------------- MODULE SerializedHandle --------------------------
(***************************************************************************)
(* What the library promises about one native MCP2221 handle: it is opened *)
(* once, it has one owner from the moment it exists, native calls on it    *)
(* are made one at a time and only while it is owned, and it is closed     *)
(* exactly once, when nobody is inside a call.  DeviceLifetime shows how   *)
(* shared_ptr, unique_ptr and a mutex keep this promise.                   *)
(***************************************************************************)
CONSTANTS Thread, State

VARIABLES
  phase,   \* phase[d]: where the handle stands in its life
  using    \* using[d]: the threads inside a native call on d

vars == <<phase, using>>

Phases == {"absent", "guarded", "held", "released", "closed"}

TypeOK == /\ phase \in [State -> Phases]
          /\ using \in [State -> SUBSET Thread]

Init == /\ phase = [d \in State |-> "absent"]
        /\ using = [d \in State |-> {}]

Become(d, from, to) == /\ phase[d] = from
                       /\ phase' = [phase EXCEPT ![d] = to]
                       /\ UNCHANGED using

Open(d)    == Become(d, "absent", "guarded")
Adopt(d)   == Become(d, "guarded", "held")
Abandon(d) == Become(d, "guarded", "closed")
LetGo(d)   == using[d] = {} /\ Become(d, "held", "released")
Close(d)   == Become(d, "released", "closed")

Enter(t, d) == /\ phase[d] = "held"
               /\ using[d] = {}
               /\ using' = [using EXCEPT ![d] = {t}]
               /\ UNCHANGED phase

Leave(t, d) == /\ using[d] = {t}
               /\ using' = [using EXCEPT ![d] = {}]
               /\ UNCHANGED phase

Next == \E d \in State :
          \/ Open(d) \/ Adopt(d) \/ Abandon(d) \/ LetGo(d) \/ Close(d)
          \/ \E t \in Thread : Enter(t, d) \/ Leave(t, d)

Spec == Init /\ [][Next]_vars
=============================================================================
