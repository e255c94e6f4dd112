-------------------------- MODULE GpioChangesProofs --------------------------
(***************************************************************************)
(* Proofs about GpioChanges, for any pins and any number of threads.  The  *)
(* results on their way to the receiver are, pin by pin, the edges of a    *)
(* trail from the level it has to the level of the last sample; IInv says  *)
(* so by counting, at every level, the changes that leave it and reach it. *)
(***************************************************************************)
EXTENDS GpioChanges, FiniteSetTheorems, TLAPS

Label  == {"none", "low", "high"}
Change == [oldValue : Label, newValue : Label, changed : BOOLEAN]

Converting     == {t \in Threads : pc[t] = "converting"}
Leaving(p, x)  == {t \in Converting : result[t][p].changed /\ result[t][p].oldValue = x}
Reaching(p, x) == {t \in Converting : result[t][p].changed /\ result[t][p].newValue = x}

One(b) == IF b THEN 1 ELSE 0

TypeInv ==
  /\ level \in [Pin -> Level] /\ snap \in [Pin -> Level] \cup {NoSnapshot}
  /\ pc \in [Threads -> {"idle", "waiting", "native", "converting"}]
  /\ result \in [Threads -> [Pin -> Change] \cup {None}]
  /\ \A t \in Converting : result[t] \in [Pin -> Change]
  /\ view \in [Pin -> Label] \cup {None}
  /\ excused \subseteq Pin
  /\ IsFiniteSet(Converting)

\* Results and views are of a snapshot.
SampledInv == Converting # {} \/ view # None => snap # NoSnapshot

\* The first result is the only one, and as good as the snapshot.
FirstInv ==
  view = None =>
    /\ \A t, u \in Threads : pc[t] # "idle" /\ pc[u] # "idle" => t = u
    /\ \A t \in Converting : \A p \in Pin \ excused : result[t][p].newValue = Named[snap[p]]

\* The changes on their way lead from the view to the snapshot.
Balanced(p) ==
  \A x \in Label : Cardinality(Leaving(p, x)) + One(Named[snap[p]] = x)
                     = Cardinality(Reaching(p, x)) + One(view[p] = x)
BalanceInv == view # None => \A p \in Pin \ excused : Balanced(p)

IInv == TypeInv /\ SampledInv /\ FirstInv /\ BalanceInv

-----------------------------------------------------------------------------
(* Counting, and the conversion *)

\* Two finite sets that differ in one element only.
LEMMA Counted ==
  ASSUME NEW S, NEW T, NEW t, IsFiniteSet(S), T \ {t} = S \ {t}
  PROVE  /\ IsFiniteSet(T) /\ Cardinality(S) \in Nat /\ Cardinality(T) \in Nat
         /\ Cardinality(T) + One(t \in S) = Cardinality(S) + One(t \in T)
<1> DEFINE R == S \ {t}
<1>1. IsFiniteSet(R) /\ Cardinality(R) \in Nat /\ t \notin R
  BY FS_Subset, FS_CardinalityType
<1>2. IsFiniteSet(R \cup {t}) /\ Cardinality(R \cup {t}) = Cardinality(R) + 1
  BY <1>1, FS_AddElement
<1>3. (t \in S => S = R \cup {t}) /\ (t \notin S => S = R) /\ T \ {t} = R
  OBVIOUS
<1> HIDE DEF R
<1>4. t \in T => T = R \cup {t}
  <2>1. t \in T => T = (T \ {t}) \cup {t}
    OBVIOUS
  <2> QED  BY <1>3, <2>1, Zenon
<1>5. t \notin T => T = R
  <2>1. t \notin T => T = T \ {t}
    OBVIOUS
  <2> QED  BY <1>3, <2>1, Zenon
<1>6. Cardinality(S) = Cardinality(R) + One(t \in S)
  <2>1. CASE t \in S
    <3>1. Cardinality(S) = Cardinality(R) + 1
      BY <1>2, <1>3, <2>1
    <3> QED  BY <2>1, <3>1 DEF One
  <2>2. CASE t \notin S
    <3>1. Cardinality(S) = Cardinality(R)
      BY <1>3, <2>2
    <3> QED  BY <1>1, <2>2, <3>1 DEF One
  <2> QED  BY <2>1, <2>2
<1>7. Cardinality(T) = Cardinality(R) + One(t \in T)
  <2>1. CASE t \in T
    <3>1. Cardinality(T) = Cardinality(R) + 1
      BY <1>2, <1>4, <2>1
    <3> QED  BY <2>1, <3>1 DEF One
  <2>2. CASE t \notin T
    <3>1. Cardinality(T) = Cardinality(R)
      BY <1>5, <2>2
    <3> QED  BY <1>1, <2>2, <3>1 DEF One
  <2> QED  BY <2>1, <2>2
<1>8. IsFiniteSet(T)
  BY <1>1, <1>2, <1>4, <1>5
<1>9. Cardinality(S) \in Nat /\ Cardinality(T) \in Nat
  BY <1>8, FS_CardinalityType
<1>10. One(t \in S) \in Nat /\ One(t \in T) \in Nat
  BY DEF One
<1> QED  BY <1>1, <1>6, <1>7, <1>8, <1>9, <1>10

\* toOptionalGpioValue names every level, and no two alike.
LEMMA Names ==
  /\ \A v \in Level : Named[v] \in Label /\ toOptionalGpioValue(v) = Named[v]
  /\ \A v, w \in Level : Named[v] = Named[w] => v = w
<1>1. Level = -1..1
  BY DEF Level
<1>2. \A v \in Level : Named[v] = IF v = 1 THEN "high" ELSE IF v = 0 THEN "low" ELSE "none"
  BY <1>1 DEF Named
<1> QED  BY <1>2 DEF Level, Label, toOptionalGpioValue

LEMMA NotNone == ASSUME NEW f \in [Pin -> Label] PROVE f # None
  BY ChangesConstants DEF Label

LEMMA NotNoSnapshot == ASSUME NEW f \in [Pin -> Level] PROVE f # NoSnapshot
<1>1. Level = -1..1
  BY DEF Level
<1> QED  BY <1>1, PollingConstants

\* What a native poll gives.
LEMMA ChangesAre ==
  ASSUME TypeInv
  PROVE  /\ Changes \in [Pin -> Change]
         /\ \A p \in Pin : Changes[p].newValue = Named[level[p]]
         /\ snap # NoSnapshot => \A p \in Pin : /\ Changes[p].changed <=> snap[p] # level[p]
                                                /\ Changes[p].oldValue = Named[snap[p]]
<1> DEFINE old(p) == IF snap = NoSnapshot THEN level[p] ELSE snap[p]
<1>1. \A p \in Pin : old(p) \in Level /\ level[p] \in Level
  BY DEF TypeInv
<1>2. Changes = [p \in Pin |-> [oldValue |-> toOptionalGpioValue(old(p)),
                                newValue |-> toOptionalGpioValue(level[p]),
                                changed |-> old(p) # level[p]]]
  BY DEF Changes
<1>3. \A p \in Pin : /\ toOptionalGpioValue(old(p)) = Named[old(p)] /\ Named[old(p)] \in Label
                     /\ toOptionalGpioValue(level[p]) = Named[level[p]] /\ Named[level[p]] \in Label
  BY <1>1, Names
<1>4. Changes \in [Pin -> Change]
  BY <1>2, <1>3 DEF Change
<1> QED  BY <1>2, <1>3, <1>4

-----------------------------------------------------------------------------
(* A step of one thread *)

\* One thread's own step does not touch the results of the others.
LEMMA OthersAlone ==
  ASSUME NEW t \in Threads, NEW label, To(t, label), TypeInv,
         \A u \in Threads \ {t} : result'[u] = result[u]
  PROVE  /\ Converting' \ {t} = Converting \ {t}
         /\ \A u \in Threads : u # t => pc'[u] = pc[u]
         /\ pc'[t] = label
         /\ \A p, x : /\ Leaving(p, x)' \ {t} = Leaving(p, x) \ {t}
                      /\ Reaching(p, x)' \ {t} = Reaching(p, x) \ {t}
<1>1. pc'[t] = label /\ \A u \in Threads : u # t => pc'[u] = pc[u]
  BY DEF To, TypeInv
<1> QED  BY <1>1 DEF Converting, Leaving, Reaching

LEMMA CountsMove ==
  ASSUME TypeInv, NEW t \in Threads, NEW label, To(t, label),
         \A u \in Threads \ {t} : result'[u] = result[u], NEW p, NEW x
  PROVE  /\ Cardinality(Leaving(p, x)) \in Nat /\ Cardinality(Leaving(p, x)') \in Nat
         /\ Cardinality(Reaching(p, x)) \in Nat /\ Cardinality(Reaching(p, x)') \in Nat
         /\ Cardinality(Leaving(p, x)') + One(t \in Leaving(p, x))
              = Cardinality(Leaving(p, x)) + One(t \in Leaving(p, x)')
         /\ Cardinality(Reaching(p, x)') + One(t \in Reaching(p, x))
              = Cardinality(Reaching(p, x)) + One(t \in Reaching(p, x)')
<1>1. Leaving(p, x) \subseteq Converting /\ Reaching(p, x) \subseteq Converting
  BY DEF Leaving, Reaching
<1>2. IsFiniteSet(Leaving(p, x)) /\ IsFiniteSet(Reaching(p, x))
  BY <1>1, FS_Subset DEF TypeInv
<1> QED  BY <1>2, OthersAlone, Counted

\* Steps that convert nothing: Begin, PollLock and PollFails.
LEMMA QuietKeeps ==
  ASSUME IInv, NEW t \in Threads, NEW label \in {"idle", "waiting", "native"},
         pc[t] # "converting", To(t, label),
         pc[t] = "idle" => (view = None => \A u \in Threads : pc[u] = "idle"),
         UNCHANGED <<pollerVars, result, view, excused>>
  PROVE  IInv'
<1>1. /\ \A u \in Threads : u # t => pc'[u] = pc[u]
      /\ pc'[t] = label /\ pc' \in [Threads -> {"idle", "waiting", "native", "converting"}]
  BY DEF To, IInv, TypeInv
<1>2. Converting' = Converting
  BY <1>1 DEF Converting
<1>3. \A p, x : Leaving(p, x)' = Leaving(p, x) /\ Reaching(p, x)' = Reaching(p, x)
  BY <1>2 DEF Leaving, Reaching
<1>4. TypeInv'
  BY <1>1, <1>2 DEF IInv, TypeInv, pollerVars
<1>5. SampledInv'
  BY <1>2 DEF IInv, SampledInv, pollerVars
<1>6. FirstInv'
  BY <1>1, <1>2 DEF IInv, FirstInv, pollerVars
<1>7. BalanceInv'
  BY <1>3 DEF IInv, BalanceInv, Balanced, pollerVars
<1> QED  BY <1>4, <1>5, <1>6, <1>7 DEF IInv

LEMMA PollOkKeeps == ASSUME IInv, NEW t \in Threads, PollOk(t) PROVE IInv'
<1>1. /\ pc[t] = "native" /\ snap' = level /\ level' = level /\ To(t, "converting")
      /\ result' = [result EXCEPT ![t] = Changes] /\ UNCHANGED <<view, excused>>
  BY DEF PollOk, Sample
<1>2. /\ Changes \in [Pin -> Change] /\ \A p \in Pin : Changes[p].newValue = Named[level[p]]
      /\ snap # NoSnapshot => \A p \in Pin : /\ Changes[p].changed <=> snap[p] # level[p]
                                             /\ Changes[p].oldValue = Named[snap[p]]
  BY ChangesAre DEF IInv
<1>3. result'[t] = Changes /\ \A u \in Threads : u # t => result'[u] = result[u]
  BY <1>1 DEF IInv, TypeInv
<1>4. /\ \A u \in Threads : u # t => pc'[u] = pc[u]
      /\ pc'[t] = "converting"
  BY <1>1, <1>3, OthersAlone DEF IInv
<1>5. t \notin Converting /\ Converting' = Converting \cup {t}
  BY <1>1, <1>4 DEF Converting
<1>6. snap' # NoSnapshot /\ snap' \in [Pin -> Level]
  BY <1>1, NotNoSnapshot DEF IInv, TypeInv
<1>7. TypeInv'
  <2>1. IsFiniteSet(Converting')
    BY <1>5, FS_AddElement DEF IInv, TypeInv
  <2>2. \A u \in Converting' : result'[u] \in [Pin -> Change]
    BY <1>2, <1>3, <1>5 DEF IInv, TypeInv, Converting
  <2>3. result' \in [Threads -> [Pin -> Change] \cup {None}]
    BY <1>1, <1>2 DEF IInv, TypeInv
  <2>4. pc' \in [Threads -> {"idle", "waiting", "native", "converting"}]
    BY <1>1 DEF IInv, TypeInv, To
  <2> QED  BY <1>1, <1>6, <2>1, <2>2, <2>3, <2>4 DEF IInv, TypeInv
<1>8. SampledInv'
  BY <1>6 DEF SampledInv
<1>9. FirstInv'
  <2> SUFFICES ASSUME view = None PROVE FirstInv'
    BY <1>1 DEF FirstInv
  <2>1. \A u \in Threads : pc[u] # "idle" => u = t
    BY <1>1 DEF IInv, FirstInv
  <2>2. \A u \in Threads : pc'[u] # "idle" => u = t
    BY <2>1, <1>4
  <2>3. \A u \in Converting' : u = t
    BY <2>2 DEF Converting
  <2> QED  BY <1>1, <1>2, <1>3, <2>2, <2>3 DEF FirstInv
<1>10. BalanceInv'
  <2> SUFFICES ASSUME view # None, NEW p \in Pin \ excused, NEW x \in Label
               PROVE  Cardinality(Leaving(p, x)') + One(Named[level[p]] = x)
                        = Cardinality(Reaching(p, x)') + One(view[p] = x)
    BY <1>1 DEF BalanceInv, Balanced, One, Named
  <2>1. snap # NoSnapshot
    BY DEF IInv, SampledInv
  <2>2. Cardinality(Leaving(p, x)) + One(Named[snap[p]] = x) = Cardinality(Reaching(p, x)) + One(view[p] = x)
    BY DEF IInv, BalanceInv, Balanced
  <2>3. t \notin Leaving(p, x) /\ t \notin Reaching(p, x)
    BY <1>5 DEF Leaving, Reaching
  <2>4. /\ t \in Leaving(p, x)' <=> snap[p] # level[p] /\ Named[snap[p]] = x
        /\ t \in Reaching(p, x)' <=> snap[p] # level[p] /\ Named[level[p]] = x
    BY <1>2, <1>3, <1>5, <2>1 DEF Leaving, Reaching
  <2>5. /\ Cardinality(Leaving(p, x)) \in Nat /\ Cardinality(Leaving(p, x)') \in Nat
        /\ Cardinality(Reaching(p, x)) \in Nat /\ Cardinality(Reaching(p, x)') \in Nat
        /\ Cardinality(Leaving(p, x)') + One(t \in Leaving(p, x))
             = Cardinality(Leaving(p, x)) + One(t \in Leaving(p, x)')
        /\ Cardinality(Reaching(p, x)') + One(t \in Reaching(p, x))
             = Cardinality(Reaching(p, x)) + One(t \in Reaching(p, x)')
    BY <1>1, <1>3, CountsMove DEF IInv
  <2>6. One(t \in Leaving(p, x)) = 0 /\ One(t \in Reaching(p, x)) = 0
    BY <2>3 DEF One
  <2>7. One(t \in Leaving(p, x)') + One(Named[level[p]] = x) = One(t \in Reaching(p, x)') + One(Named[snap[p]] = x)
    BY <2>4 DEF One
  <2>8. /\ One(t \in Leaving(p, x)') \in Nat /\ One(t \in Reaching(p, x)') \in Nat /\ One(view[p] = x) \in Nat
        /\ One(Named[level[p]] = x) \in Nat /\ One(Named[snap[p]] = x) \in Nat
    BY DEF One
  <2> QED  BY <2>2, <2>5, <2>6, <2>7, <2>8
<1> QED  BY <1>7, <1>8, <1>9, <1>10 DEF IInv

\* A result leaves its thread for the receiver, or is refused.
LEMMA Handed ==
  ASSUME IInv, NEW t \in Threads, pc[t] = "converting",
         result' = [result EXCEPT ![t] = None], To(t, "idle")
  PROVE  /\ result[t] \in [Pin -> Change] /\ t \in Converting /\ snap # NoSnapshot /\ snap \in [Pin -> Level]
         /\ \A u \in Threads : u # t => result'[u] = result[u] /\ pc'[u] = pc[u]
         /\ pc'[t] = "idle" /\ Converting' = Converting \ {t} /\ IsFiniteSet(Converting')
         /\ pc' \in [Threads -> {"idle", "waiting", "native", "converting"}]
         /\ result' \in [Threads -> [Pin -> Change] \cup {None}]
         /\ \A u \in Converting' : result'[u] \in [Pin -> Change]
<1>1. t \in Converting
  BY DEF Converting
<1>2. \A u \in Threads : u # t => result'[u] = result[u]
  BY DEF IInv, TypeInv
<1>3. /\ \A u \in Threads : u # t => pc'[u] = pc[u]
      /\ pc'[t] = "idle"
  BY <1>2, OthersAlone DEF IInv
<1>4. Converting' = Converting \ {t}
  BY <1>3 DEF Converting
<1>5. IsFiniteSet(Converting')
  BY <1>4, FS_Subset DEF IInv, TypeInv
<1>6. /\ pc' \in [Threads -> {"idle", "waiting", "native", "converting"}]
      /\ result' \in [Threads -> [Pin -> Change] \cup {None}]
  BY DEF IInv, TypeInv, To
<1>7. \A u \in Converting' : result'[u] \in [Pin -> Change]
  BY <1>2, <1>4 DEF IInv, TypeInv, Converting
<1>8. result[t] \in [Pin -> Change] /\ snap # NoSnapshot /\ snap \in [Pin -> Level]
  BY <1>1 DEF IInv, TypeInv, SampledInv
<1> QED  BY <1>1, <1>2, <1>3, <1>4, <1>5, <1>6, <1>7, <1>8

\* Without the result of t, what it changed no longer counts.
LEMMA HandedCounts ==
  ASSUME IInv, NEW t \in Threads, pc[t] = "converting",
         result' = [result EXCEPT ![t] = None], To(t, "idle"), NEW p \in Pin, NEW x
  PROVE  /\ Cardinality(Leaving(p, x)) \in Nat /\ Cardinality(Leaving(p, x)') \in Nat
         /\ Cardinality(Reaching(p, x)) \in Nat /\ Cardinality(Reaching(p, x)') \in Nat
         /\ Cardinality(Leaving(p, x)') + One(result[t][p].changed /\ result[t][p].oldValue = x)
              = Cardinality(Leaving(p, x))
         /\ Cardinality(Reaching(p, x)') + One(result[t][p].changed /\ result[t][p].newValue = x)
              = Cardinality(Reaching(p, x))
<1>1. /\ t \in Converting /\ t \notin Converting'
      /\ \A u \in Threads \ {t} : result'[u] = result[u]
  BY Handed
<1>2. t \notin Leaving(p, x)' /\ t \notin Reaching(p, x)'
  BY <1>1 DEF Leaving, Reaching
<1>3. /\ t \in Leaving(p, x) <=> result[t][p].changed /\ result[t][p].oldValue = x
      /\ t \in Reaching(p, x) <=> result[t][p].changed /\ result[t][p].newValue = x
  BY <1>1 DEF Leaving, Reaching
<1>4. /\ Cardinality(Leaving(p, x)) \in Nat /\ Cardinality(Leaving(p, x)') \in Nat
      /\ Cardinality(Reaching(p, x)) \in Nat /\ Cardinality(Reaching(p, x)') \in Nat
      /\ Cardinality(Leaving(p, x)') + One(t \in Leaving(p, x))
           = Cardinality(Leaving(p, x)) + One(t \in Leaving(p, x)')
      /\ Cardinality(Reaching(p, x)') + One(t \in Reaching(p, x))
           = Cardinality(Reaching(p, x)) + One(t \in Reaching(p, x)')
  BY <1>1, CountsMove DEF IInv
<1>5. One(t \in Leaving(p, x)') = 0 /\ One(t \in Reaching(p, x)') = 0
  BY <1>2 DEF One
<1> QED  BY <1>3, <1>4, <1>5 DEF One

\* With no result on its way, the view of a pin is the snapshot's exactly if
\* the pin is balanced.
LEMMA AllHanded ==
  ASSUME Converting = {}, NEW p \in Pin, snap[p] \in Level, view[p] \in Label
  PROVE  Balanced(p) <=> view[p] = Named[snap[p]]
<1>1. \A x : Leaving(p, x) = {} /\ Reaching(p, x) = {}
  BY DEF Leaving, Reaching
<1>2. Cardinality({}) = 0
  BY FS_EmptySet
<1>3. Balanced(p) <=> \A x \in Label : One(Named[snap[p]] = x) = One(view[p] = x)
  BY <1>1, <1>2 DEF Balanced, One
<1>4. Named[snap[p]] \in Label
  BY Names
<1> QED  BY <1>3, <1>4 DEF One

LEMMA DeliverKeeps == ASSUME IInv, NEW t \in Threads, Deliver(t) PROVE IInv'
<1> DEFINE r       == result[t]
           noticed == {p \in Changed(r) : view # None /\ view[p] # r[p].oldValue}
           last    == \A u \in Threads \ {t} : pc[u] # "converting"
<1>1. /\ pc[t] = "converting" /\ result' = [result EXCEPT ![t] = None] /\ To(t, "idle")
      /\ view' = [p \in Pin |-> IF view = None \/ r[p].changed THEN r[p].newValue ELSE view[p]]
      /\ excused' = {p \in excused \cup noticed : last => view'[p] # toOptionalGpioValue(snap[p])}
      /\ UNCHANGED <<level, snap, filter, mutex>>
  BY DEF Deliver, pollerVars
<1>2. /\ r \in [Pin -> Change] /\ t \in Converting /\ snap # NoSnapshot /\ snap \in [Pin -> Level]
      /\ \A u \in Threads : u # t => result'[u] = result[u] /\ pc'[u] = pc[u]
      /\ pc'[t] = "idle" /\ Converting' = Converting \ {t} /\ IsFiniteSet(Converting')
      /\ pc' \in [Threads -> {"idle", "waiting", "native", "converting"}]
      /\ result' \in [Threads -> [Pin -> Change] \cup {None}]
      /\ \A u \in Converting' : result'[u] \in [Pin -> Change]
  BY <1>1, Handed
<1>3. last => Converting' = {}
  BY <1>2 DEF Converting
<1>4. /\ \A p \in Pin : p \in noticed <=> r[p].changed /\ view # None /\ view[p] # r[p].oldValue
      /\ noticed \subseteq Pin
  BY DEF Changed
<1>5. \A p \in Pin : r[p].newValue \in Label /\ r[p].oldValue \in Label
  BY <1>2 DEF Change
<1>6. \A p \in Pin : toOptionalGpioValue(snap[p]) = Named[snap[p]] /\ snap[p] \in Level
  BY <1>2, Names
<1> HIDE DEF r, noticed, last
<1>7. /\ \A p \in Pin : view'[p] = IF view = None \/ r[p].changed THEN r[p].newValue ELSE view[p]
      /\ view' \in [Pin -> Label]
  <2>1. view # None => view \in [Pin -> Label]
    BY DEF IInv, TypeInv
  <2> QED  BY <1>1, <1>5, <2>1
<1>8. view' # None
  BY <1>7, NotNone
<1>9. TypeInv'
  <2>1. excused' \subseteq Pin
    BY <1>1, <1>4 DEF IInv, TypeInv
  <2> QED  BY <1>1, <1>2, <1>7, <2>1 DEF IInv, TypeInv
<1>10. SampledInv' /\ FirstInv'
  BY <1>1, <1>2, <1>8 DEF SampledInv, FirstInv
<1>11. ASSUME NEW p \in Pin \ excused' PROVE Balanced(p)'
  <2>1. CASE last /\ view'[p] = Named[snap[p]]
    <3>1. Converting' = {} /\ snap'[p] \in Level /\ view'[p] \in Label /\ view'[p] = Named[snap'[p]]
      BY <1>1, <1>3, <1>6, <1>7, <2>1
    <3>2. \A x : Leaving(p, x)' = {} /\ Reaching(p, x)' = {}
      BY <3>1 DEF Leaving, Reaching
    <3> QED  BY <3>1, <3>2 DEF Balanced
  <2>2. CASE ~(last /\ view'[p] = Named[snap[p]])
    <3>1. p \notin excused /\ p \notin noticed
      BY <1>1, <1>6, <2>2
    <3>2. view # None
      <4> SUFFICES ASSUME view = None PROVE FALSE
        OBVIOUS
      <4>1. \A u \in Threads : pc[u] # "idle" => u = t
        BY <1>1 DEF IInv, FirstInv
      <4>2. last
        BY <4>1 DEF last
      <4>3. view'[p] = Named[snap[p]]
        BY <3>1, <1>2, <1>7 DEF IInv, FirstInv, r
      <4> QED  BY <4>2, <4>3, <2>2
    <3>3. r[p].changed => view[p] = r[p].oldValue
      BY <3>1, <3>2, <1>4
    <3>4. Balanced(p)
      BY <3>1, <3>2 DEF IInv, BalanceInv
    <3> SUFFICES ASSUME NEW x \in Label
                 PROVE  Cardinality(Leaving(p, x)') + One(Named[snap[p]] = x)
                          = Cardinality(Reaching(p, x)') + One(view'[p] = x)
      BY <1>1 DEF Balanced, One, Named
    <3>5. Cardinality(Leaving(p, x)) + One(Named[snap[p]] = x) = Cardinality(Reaching(p, x)) + One(view[p] = x)
      BY <3>4 DEF Balanced
    <3>6. /\ Cardinality(Leaving(p, x)) \in Nat /\ Cardinality(Leaving(p, x)') \in Nat
          /\ Cardinality(Reaching(p, x)) \in Nat /\ Cardinality(Reaching(p, x)') \in Nat
          /\ Cardinality(Leaving(p, x)') + One(r[p].changed /\ r[p].oldValue = x) = Cardinality(Leaving(p, x))
          /\ Cardinality(Reaching(p, x)') + One(r[p].changed /\ r[p].newValue = x) = Cardinality(Reaching(p, x))
      BY <1>1, HandedCounts DEF r
    <3>7. One(r[p].changed /\ r[p].oldValue = x) + One(view'[p] = x)
            = One(r[p].changed /\ r[p].newValue = x) + One(view[p] = x)
      BY <1>7, <3>2, <3>3 DEF One
    <3>8. /\ One(r[p].changed /\ r[p].oldValue = x) \in Nat /\ One(r[p].changed /\ r[p].newValue = x) \in Nat
          /\ One(view'[p] = x) \in Nat /\ One(view[p] = x) \in Nat /\ One(Named[snap[p]] = x) \in Nat
      BY DEF One
    <3> QED  BY <3>5, <3>6, <3>7, <3>8
  <2> QED  BY <2>1, <2>2
<1>12. BalanceInv'
  BY <1>11 DEF BalanceInv
<1> QED  BY <1>9, <1>10, <1>12 DEF IInv

LEMMA RefusedKeeps == ASSUME IInv, NEW t \in Threads, Refused(t) PROVE IInv'
<1> DEFINE r == result[t]
<1>1. /\ pc[t] = "converting" /\ result' = [result EXCEPT ![t] = None] /\ To(t, "idle")
      /\ excused' = excused \cup {p \in Pin : r[p].changed}
      /\ UNCHANGED <<level, snap, filter, mutex, view>>
  BY DEF Refused, Changed, pollerVars
<1>2. /\ r \in [Pin -> Change] /\ t \in Converting /\ snap # NoSnapshot
      /\ \A u \in Threads : u # t => result'[u] = result[u] /\ pc'[u] = pc[u]
      /\ pc'[t] = "idle" /\ Converting' = Converting \ {t} /\ IsFiniteSet(Converting')
      /\ pc' \in [Threads -> {"idle", "waiting", "native", "converting"}]
      /\ result' \in [Threads -> [Pin -> Change] \cup {None}]
      /\ \A u \in Converting' : result'[u] \in [Pin -> Change]
  BY <1>1, Handed
<1>3. TypeInv'
  BY <1>1, <1>2 DEF IInv, TypeInv
<1>4. SampledInv'
  BY <1>1, <1>2 DEF SampledInv
<1>5. FirstInv'
  BY <1>1, <1>2 DEF IInv, FirstInv
<1>6. BalanceInv'
  <2> SUFFICES ASSUME view # None, NEW p \in Pin \ excused', NEW x \in Label
               PROVE  Cardinality(Leaving(p, x)') + One(Named[snap[p]] = x)
                        = Cardinality(Reaching(p, x)') + One(view[p] = x)
    BY <1>1 DEF BalanceInv, Balanced, One, Named
  <2>1. ~r[p].changed /\ p \in Pin \ excused
    BY <1>1
  <2>2. Cardinality(Leaving(p, x)) + One(Named[snap[p]] = x) = Cardinality(Reaching(p, x)) + One(view[p] = x)
    BY <2>1 DEF IInv, BalanceInv, Balanced
  <2>3. /\ Cardinality(Leaving(p, x)) \in Nat /\ Cardinality(Leaving(p, x)') \in Nat
        /\ Cardinality(Reaching(p, x)) \in Nat /\ Cardinality(Reaching(p, x)') \in Nat
        /\ Cardinality(Leaving(p, x)') + One(r[p].changed /\ r[p].oldValue = x) = Cardinality(Leaving(p, x))
        /\ Cardinality(Reaching(p, x)') + One(r[p].changed /\ r[p].newValue = x) = Cardinality(Reaching(p, x))
    BY <1>1, HandedCounts
  <2>4. One(r[p].changed /\ r[p].oldValue = x) = 0 /\ One(r[p].changed /\ r[p].newValue = x) = 0
    BY <2>1 DEF One
  <2> QED  BY <2>2, <2>3, <2>4
<1> QED  BY <1>3, <1>4, <1>5, <1>6 DEF IInv

\* pollEvents excuses every pin it moves the snapshot of.
LEMMA PollEventsKeeps == ASSUME IInv, PollEvents PROVE IInv'
<1>1. /\ snap' = level /\ level' = level
      /\ excused' = excused \cup {p \in Pin : snap # NoSnapshot /\ snap[p] # level[p]}
      /\ UNCHANGED <<mutex, pc, result, view>>
  BY DEF PollEvents, Sample
<1>2. snap' \in [Pin -> Level] /\ snap' # NoSnapshot
  BY <1>1, NotNoSnapshot DEF IInv, TypeInv
<1>3. /\ Converting' = Converting
      /\ \A p, x : Leaving(p, x)' = Leaving(p, x) /\ Reaching(p, x)' = Reaching(p, x)
  BY <1>1 DEF Converting, Leaving, Reaching
<1>4. \A p \in Pin \ excused' : p \in Pin \ excused /\ (snap # NoSnapshot => snap'[p] = snap[p])
  BY <1>1
<1>5. TypeInv'
  BY <1>1, <1>2, <1>3 DEF IInv, TypeInv
<1>6. SampledInv'
  BY <1>2 DEF SampledInv
<1>7. FirstInv'
  BY <1>1, <1>3, <1>4 DEF IInv, FirstInv, SampledInv
<1>8. BalanceInv'
  BY <1>1, <1>3, <1>4 DEF IInv, BalanceInv, Balanced, SampledInv
<1> QED  BY <1>5, <1>6, <1>7, <1>8 DEF IInv

\* The pins change under a poller that has not looked yet.
LEMMA OutsideKeeps ==
  ASSUME IInv, (\E p \in Pin, v \in Level : Outside(p, v)) \/ UNCHANGED vars
  PROVE  IInv'
<1>1. level' \in [Pin -> Level] /\ UNCHANGED <<snap, pc, result, view, excused>>
  BY DEF Outside, PinChanges, vars, pollerVars, IInv, TypeInv
<1>2. /\ Converting' = Converting
      /\ \A p, x : Leaving(p, x)' = Leaving(p, x) /\ Reaching(p, x)' = Reaching(p, x)
  BY <1>1 DEF Converting, Leaving, Reaching
<1>3. TypeInv' /\ SampledInv' /\ FirstInv'
  BY <1>1, <1>2 DEF IInv, TypeInv, SampledInv, FirstInv
<1>4. BalanceInv'
  BY <1>1, <1>2 DEF IInv, BalanceInv, Balanced
<1> QED  BY <1>3, <1>4 DEF IInv

-----------------------------------------------------------------------------
(* The results *)

LEMMA InitIInv == ASSUME Init PROVE IInv
<1>1. Converting = {} /\ view = None
  BY DEF Init, Converting
<1>2. IsFiniteSet(Converting)
  BY <1>1, FS_EmptySet
<1> QED  BY <1>1, <1>2 DEF Init, PollerInit, IInv, TypeInv, SampledInv, FirstInv, BalanceInv

LEMMA StepIInv == ASSUME IInv, [Next]_vars PROVE IInv'
<1>1. ASSUME NEW t \in Threads, Begin(t) \/ PollLock(t) \/ PollFails(t) PROVE IInv'
  BY <1>1, QuietKeeps DEF Begin, PollLock, PollFails
<1>2. ASSUME NEW t \in Threads, PollOk(t) \/ Deliver(t) \/ Refused(t) PROVE IInv'
  BY <1>2, PollOkKeeps, DeliverKeeps, RefusedKeeps
<1>3. CASE PollEvents
  BY <1>3, PollEventsKeeps
<1>4. CASE (\E p \in Pin, v \in Level : Outside(p, v)) \/ UNCHANGED vars
  BY <1>4, OutsideKeeps
<1> QED  BY <1>1, <1>2, <1>3, <1>4 DEF Next

\* The results on their way always lead from the receiver's levels to the
\* last sample's, on every pin that is not excused.
THEOREM ChangesInvariant == Spec => []IInv
<1>1. Init => IInv
  BY InitIInv
<1>2. IInv /\ [Next]_vars => IInv'
  BY StepIInv
<1> QED  BY <1>1, <1>2, PTL DEF Spec

\* A receiver that noticed nothing is in step once every result has arrived.
THEOREM ChangesArrive == Spec => []ChangesInStep
<1>1. ASSUME IInv PROVE ChangesInStep
  <2> SUFFICES ASSUME view # None, \A t \in Threads : pc[t] # "converting", NEW p \in Pin \ excused
               PROVE  view[p] = Named[snap[p]]
    BY DEF ChangesInStep
  <2>1. Converting = {} /\ snap[p] \in Level /\ view[p] \in Label
    BY <1>1 DEF IInv, TypeInv, SampledInv, Converting
  <2>2. Balanced(p)
    BY <1>1 DEF IInv, BalanceInv
  <2> QED  BY <2>1, <2>2, AllHanded
<1>2. IInv => ChangesInStep
  BY <1>1
<1> QED  BY <1>2, ChangesInvariant, PTL

=============================================================================
