--------------------------- MODULE PartialUpdates ---------------------------
(***************************************************************************)
(* What configuring the chip promises.  A call names some settings and     *)
(* the values it wants.  It is refused without effect when it asks for     *)
(* something that does not exist; otherwise, in one step, the settings it  *)
(* names get their values and every other setting stays as it is.  A call  *)
(* that fails on the way to the chip may have changed part of what it      *)
(* named, never anything else.  The chip changes one setting by itself:    *)
(* it latches the interrupt flag.                                          *)
(***************************************************************************)
CONSTANTS
  Threads,
  Updates,  \* records: sets (a function from names to values), reads (names), legal
  Flag,     \* the setting the chip latches
  None      \* no call, or no reply

VARIABLES
  setting,  \* the chip's settings, a function from names to values
  asked,    \* the update a thread has asked for
  answer,   \* "idle", "pending", "done", "refused" or "failed"
  reply     \* what a thread read

vars == <<setting, asked, answer, reply>>

\* The settings after the part of u that names S.
Override(s, u, S) == [n \in DOMAIN s |-> IF n \in S THEN u[n] ELSE s[n]]

Ask(t, u) ==
  /\ answer[t] = "idle"
  /\ asked' = [asked EXCEPT ![t] = u]
  /\ answer' = [answer EXCEPT ![t] = "pending"]
  /\ UNCHANGED <<setting, reply>>

\* Mistaken calls, and only those, are refused.
Refuse(t) ==
  /\ answer[t] = "pending" /\ ~asked[t].legal
  /\ answer' = [answer EXCEPT ![t] = "refused"]
  /\ UNCHANGED <<setting, asked, reply>>

Apply(t) ==
  /\ answer[t] = "pending" /\ asked[t].legal
  /\ setting' = Override(setting, asked[t].sets, DOMAIN asked[t].sets)
  /\ reply' = [reply EXCEPT ![t] = [n \in asked[t].reads |-> setting'[n]]]
  /\ answer' = [answer EXCEPT ![t] = "done"]
  /\ UNCHANGED asked

Fail(t) ==
  /\ answer[t] = "pending" /\ asked[t].legal
  /\ \E S \in SUBSET DOMAIN asked[t].sets : setting' = Override(setting, asked[t].sets, S)
  /\ answer' = [answer EXCEPT ![t] = "failed"]
  /\ UNCHANGED <<asked, reply>>

Return(t) ==
  /\ answer[t] \in {"done", "refused", "failed"}
  /\ asked' = [asked EXCEPT ![t] = None]
  /\ answer' = [answer EXCEPT ![t] = "idle"]
  /\ reply' = [reply EXCEPT ![t] = None]
  /\ UNCHANGED setting

Latch == /\ setting' = [setting EXCEPT ![Flag] = 1]
         /\ UNCHANGED <<asked, answer, reply>>

Init == /\ asked = [t \in Threads |-> None]
        /\ answer = [t \in Threads |-> "idle"]
        /\ reply = [t \in Threads |-> None]

Next == \/ \E t \in Threads : \/ \E u \in Updates : Ask(t, u)
                              \/ Refuse(t) \/ Apply(t) \/ Fail(t) \/ Return(t)
        \/ Latch

Spec == Init /\ [][Next]_vars
=============================================================================
