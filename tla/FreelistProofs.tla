--------------------------- MODULE FreelistProofs ---------------------------
(***************************************************************************)
(* verify_freelist answers exactly whether the lists are sound, for every  *)
(* number of lists and every set of blocks, whatever their links are.      *)
(*                                                                         *)
(* detect_cycles needs no count of its steps: the tortoise is f[i] and the *)
(* hare f[f[i]] for one function f that commutes with next.  Where they    *)
(* meet, f has a fixed point; if the list returned to its sentinel, every  *)
(* node of it would be fixed, the sentinel too, and the meeting point      *)
(* would be the sentinel.                                                  *)
(***************************************************************************)
EXTENDS FreelistVerify, TLAPS

(* A number of steps from every node, as a function. *)
Strides == {f \in [Nodes -> Nodes] : \A n \in Nodes : f[next[n]] = next[f[n]]}

Typed ==
  /\ next \in [Nodes -> Nodes] /\ prev \in [Nodes -> Nodes]
  /\ i \in Heads
  /\ phase \in {"cycles", "pointers", "done"}

(* Hare and tortoise run on the list of i; the lists before it return. *)
Chase ==
  /\ slow \in Nodes /\ fast \in Met(next[i])
  /\ \E f \in Strides : slow = f[i] /\ fast = f[slow]
  /\ \A h \in Heads : h < i => Returns(h)

(* The nodes met before cur agree; so do those of the lists before i. *)
Agreed(h) == \A n \in Met(h) \ {h} : Agrees(n)

Walk ==
  /\ cur \in Met(next[i])
  /\ \E V \in SUBSET Nodes :
       /\ \A n \in V : n # i /\ Agrees(n)
       /\ \A n \in V \cup {i} : next[n] \in V \cup {cur}
  /\ \A h \in Heads : Returns(h) /\ (h < i => Agreed(h))

FInv ==
  /\ Typed
  /\ phase = "cycles" => Chase
  /\ phase = "pointers" => Walk
  /\ phase = "done" => result = WellLinked

-----------------------------------------------------------------------------
(* Met is closed, holds its start and is the least such set. *)
LEMMA MetStart ==
  ASSUME NEW a \in Nodes
  PROVE  a \in Met(a) /\ Met(a) \subseteq Nodes
BY DEF Met

LEMMA MetLeast ==
  ASSUME NEW a, NEW S \in SUBSET Nodes, a \in S, Closed(S)
  PROVE  Met(a) \subseteq S
BY DEF Met

LEMMA MetNext ==
  ASSUME next \in [Nodes -> Nodes], NEW a, NEW n \in Met(a)
  PROVE  next[n] \in Met(a)
<1>1. n \in Nodes /\ next[n] \in Nodes
  BY DEF Met
<1>2. ASSUME NEW S \in SUBSET Nodes, a \in S, Closed(S)
      PROVE  next[n] \in S
  BY <1>2 DEF Met, Closed
<1> QED
  BY <1>1, <1>2 DEF Met

LEMMA MetWithin ==
  ASSUME next \in [Nodes -> Nodes], NEW a, NEW c \in Met(a)
  PROVE  Met(c) \subseteq Met(a)
<1>1. Met(a) \in SUBSET Nodes /\ Closed(Met(a))
  BY MetNext DEF Met, Closed
<1> QED
  BY <1>1, MetLeast

LEMMA MetUnfolds ==
  ASSUME next \in [Nodes -> Nodes], NEW a \in Nodes
  PROVE  Met(a) = {a} \cup Met(next[a])
<1> DEFINE S == {a} \cup Met(next[a])
<1>1. next[a] \in Nodes /\ next[a] \in Met(next[a]) /\ Met(next[a]) \subseteq Nodes
  BY MetStart
<1>2. S \in SUBSET Nodes /\ Closed(S)
  BY <1>1, MetNext DEF Closed
<1>3. Met(a) \subseteq S
  BY <1>2, MetLeast
<1>4. a \in Met(a) /\ next[a] \in Met(a)
  BY MetStart, MetNext
<1>5. Met(next[a]) \subseteq Met(a)
  BY <1>4, MetWithin
<1> QED
  BY <1>3, <1>4, <1>5

(* A node met on a list that returns leads back to the head. *)
LEMMA LeadsBack ==
  ASSUME next \in [Nodes -> Nodes], NEW h \in Nodes, Returns(h),
         NEW n \in Met(next[h])
  PROVE  h \in Met(n)
<1> DEFINE S == {m \in Nodes : h \in Met(m)}
<1>1. next[h] \in S
  BY DEF Returns
<1>2. Closed(S)
  <2>1. ASSUME NEW m \in S PROVE next[m] \in S
    <3>1. m \in Nodes /\ next[m] \in Nodes /\ h \in {m} \cup Met(next[m])
      BY MetUnfolds
    <3>2. CASE m = h
      BY <1>1, <3>2
    <3>3. CASE m # h
      BY <3>1, <3>3
    <3> QED
      BY <3>2, <3>3
  <2> QED
    BY <2>1 DEF Closed
<1>3. Met(next[h]) \subseteq S
  BY <1>1, <1>2, MetLeast
<1> QED
  BY <1>3

(***************************************************************************)
(* The hare meets the tortoise only on a list that does not return, the    *)
(* sentinel itself aside.                                                  *)
(***************************************************************************)
LEMMA MeetingMeansCycle ==
  ASSUME next \in [Nodes -> Nodes], NEW h \in Nodes, Returns(h),
         NEW f \in Strides, f[h] = f[f[h]], f[h] \in Met(next[h])
  PROVE  f[h] = h
<1> DEFINE x == f[h]
           S == {n \in Nodes : f[n] = n}
<1>1. x \in S
  BY DEF Strides
<1>2. Closed(S)
  BY DEF Closed, Strides
<1>3. Met(x) \subseteq S
  BY <1>1, <1>2, MetLeast
<1>4. h \in Met(x)
  BY LeadsBack
<1> QED
  BY <1>3, <1>4

-----------------------------------------------------------------------------
(* What the start of a chase and of a walk establish. *)
LEMMA ChaseStarts ==
  ASSUME next \in [Nodes -> Nodes], NEW h \in Nodes
  PROVE  /\ next[h] \in Nodes /\ next[next[h]] \in Met(next[h])
         /\ \E f \in Strides : next[h] = f[h] /\ next[next[h]] = f[next[h]]
<1>1. next[h] \in Nodes /\ next[next[h]] \in Met(next[h])
  BY MetStart, MetNext
<1>2. next \in Strides
  BY DEF Strides
<1> QED
  BY <1>1, <1>2

LEMMA WalkStarts ==
  ASSUME next \in [Nodes -> Nodes], NEW h \in Nodes
  PROVE  /\ next[h] \in Met(next[h])
         /\ \E V \in SUBSET Nodes :
              /\ \A n \in V : n # h /\ Agrees(n)
              /\ \A n \in V \cup {h} : next[n] \in V \cup {next[h]}
<1>1. next[h] \in Met(next[h])
  BY MetStart
<1>2. /\ \A n \in {} : n # h /\ Agrees(n)
      /\ \A n \in {} \cup {h} : next[n] \in {} \cup {next[h]}
  OBVIOUS
<1> QED
  BY <1>1, <1>2

LEMMA HeadsAre ==
  /\ 0 \in Heads /\ Heads \subseteq Nodes /\ Heads \subseteq Nat
  /\ \A h \in Heads : h + 1 < NLists => h + 1 \in Heads
  /\ \A h, g \in Heads : h < g + 1 <=> h < g \/ h = g
  /\ \A h, g \in Heads : g + 1 >= NLists => h < g \/ h = g
  /\ \A h \in Heads : ~(h < 0)
BY BlocksAssumption, SMT DEF Heads, Nodes

LEMMA InitSound == Init => FInv
<1> SUFFICES ASSUME Init PROVE FInv
  OBVIOUS
<1>1. /\ next \in [Nodes -> Nodes] /\ prev \in [Nodes -> Nodes]
      /\ phase = "cycles" /\ i = 0 /\ slow = next[0] /\ fast = next[next[0]]
  BY DEF Init
<1>2. Typed
  BY <1>1, HeadsAre DEF Typed
<1>3. Chase
  BY <1>1, HeadsAre, ChaseStarts DEF Chase
<1> QED
  BY <1>1, <1>2, <1>3 DEF FInv

(* Nothing that Met is made of changes. *)
LEMMA LinksStay ==
  ASSUME Typed, [Next]_vars
  PROVE  /\ next' = next /\ prev' = prev
         /\ \A a : Met(a)' = Met(a)
         /\ Strides' = Strides /\ WellLinked' = WellLinked
         /\ \A h : Returns(h)' = Returns(h) /\ Agreed(h)' = Agreed(h)
<1>1. next' = next /\ prev' = prev
  BY DEF Next, vars, HareStep, CycleFound, NextCycleList, PointerStep, PointerWrong,
         NextPointerList, Return
<1> QED
  BY <1>1 DEF Met, Closed, Strides, WellLinked, Returns, Agreed, Agrees

LEMMA HareStepSound ==
  ASSUME FInv, HareStep
  PROVE  Typed' /\ phase' = "cycles" /\ Chase'
<1>1. /\ phase = "cycles" /\ phase' = phase /\ i' = i
      /\ slow' = next[slow] /\ fast' = next[next[fast]]
      /\ next' = next /\ prev' = prev
  BY DEF HareStep
<1>2. Typed /\ Chase
  BY <1>1 DEF FInv
<1>3. next \in [Nodes -> Nodes] /\ i \in Nodes /\ i \in Heads
  BY <1>2, HeadsAre DEF Typed
<1>4. PICK f \in Strides : slow = f[i] /\ fast = f[slow]
  BY <1>2 DEF Chase
<1> DEFINE g == [n \in Nodes |-> next[f[n]]]
<1>5. g \in Strides
  BY <1>3 DEF Strides
<1>6. slow \in Nodes /\ slow' \in Nodes
  BY <1>1, <1>2, <1>3 DEF Chase
<1>7. slow' = g[i]
  BY <1>1, <1>3, <1>4
<1>8. fast' = g[slow']
  <2>1. f[next[slow]] = next[f[slow]]
    BY <1>4, <1>6 DEF Strides
  <2> QED
    BY <1>1, <1>4, <1>6, <2>1
<1> HIDE DEF g
<1>9. fast' \in Met(next[i])
  BY <1>1, <1>2, <1>3, MetNext DEF Chase
<1>10. Typed'
  BY <1>1, <1>2 DEF Typed
<1> QED
  BY <1>1, <1>2, <1>5, <1>6, <1>7, <1>8, <1>9, <1>10, LinksStay DEF Chase, Next

LEMMA CycleFoundSound ==
  ASSUME FInv, CycleFound
  PROVE  Typed' /\ phase' = "done" /\ result' = WellLinked
<1>1. /\ phase = "cycles" /\ phase' = "done" /\ result' = FALSE
      /\ fast # i /\ slow = fast /\ i' = i /\ next' = next /\ prev' = prev
  BY DEF CycleFound, Return
<1>2. Typed /\ Chase
  BY <1>1 DEF FInv
<1>3. next \in [Nodes -> Nodes] /\ i \in Nodes /\ i \in Heads
  BY <1>2, HeadsAre DEF Typed
<1>4. PICK f \in Strides : slow = f[i] /\ fast = f[slow]
  BY <1>2 DEF Chase
<1>5. fast \in Met(next[i])
  BY <1>2 DEF Chase
<1>6. ~Returns(i)
  BY <1>1, <1>3, <1>4, <1>5, MeetingMeansCycle
<1>7. WellLinked = FALSE
  BY <1>3, <1>6 DEF WellLinked
<1> QED
  BY <1>1, <1>2, <1>7 DEF Typed

LEMMA NextCycleListSound ==
  ASSUME FInv, NextCycleList
  PROVE  FInv'
<1>1. /\ phase = "cycles" /\ fast = i /\ next' = next /\ prev' = prev
  BY DEF NextCycleList
<1>2. Typed /\ Chase
  BY <1>1 DEF FInv
<1>3. next \in [Nodes -> Nodes] /\ i \in Nodes /\ i \in Heads
  BY <1>2, HeadsAre DEF Typed
<1>4. Returns(i)
  BY <1>1, <1>2 DEF Chase, Returns
<1>5. \A h \in Heads : h < i \/ h = i => Returns(h)
  BY <1>2, <1>4 DEF Chase
<1>6. \A h : Returns(h)' = Returns(h) /\ Agreed(h)' = Agreed(h)
  BY <1>2, LinksStay DEF Next
<1>7. CASE i + 1 < NLists
  <2>1. /\ i' = i + 1 /\ slow' = next[i + 1] /\ fast' = next[next[i + 1]]
        /\ phase' = "cycles"
    BY <1>1, <1>7 DEF NextCycleList
  <2>2. i + 1 \in Heads /\ i + 1 \in Nodes
    BY <1>3, <1>7, HeadsAre
  <2>3. Typed'
    BY <1>1, <1>2, <2>1, <2>2 DEF Typed
  <2>4. \A h \in Heads : h < i + 1 => Returns(h)
    BY <1>3, <1>5, HeadsAre
  <2>5. /\ next[i + 1] \in Nodes /\ next[next[i + 1]] \in Met(next[i + 1])
        /\ \E f \in Strides : next[i + 1] = f[i + 1] /\ next[next[i + 1]] = f[next[i + 1]]
    BY <1>3, <2>2, ChaseStarts
  <2>6. Chase'
    BY <1>1, <1>2, <1>6, <2>1, <2>4, <2>5, LinksStay DEF Chase, Next
  <2> QED
    BY <2>1, <2>3, <2>6 DEF FInv
<1>8. CASE ~(i + 1 < NLists)
  <2>1. phase' = "pointers" /\ i' = 0 /\ cur' = next[0]
    BY <1>1, <1>8 DEF NextCycleList
  <2>2. 0 \in Heads /\ 0 \in Nodes
    BY HeadsAre
  <2>3. Typed'
    BY <1>1, <1>2, <2>1, <2>2 DEF Typed
  <2>4. i + 1 >= NLists
    BY <1>3, <1>8, BlocksAssumption, HeadsAre, SMT
  <2>5. \A h \in Heads : Returns(h) /\ ~(h < 0)
    BY <1>3, <1>5, <2>4, HeadsAre
  <2>6. /\ next[0] \in Met(next[0])
        /\ \E V \in SUBSET Nodes :
             /\ \A n \in V : n # 0 /\ Agrees(n)
             /\ \A n \in V \cup {0} : next[n] \in V \cup {next[0]}
    BY <1>3, <2>2, WalkStarts
  <2>7. Met(next[0])' = Met(next[0])
    BY <1>1, <1>2, LinksStay DEF Next
  <2>8. Walk'
    BY <1>1, <1>6, <2>1, <2>5, <2>6, <2>7 DEF Walk, Agrees
  <2> QED
    BY <2>1, <2>3, <2>8 DEF FInv
<1> QED
  BY <1>7, <1>8

LEMMA PointerStepSound ==
  ASSUME FInv, PointerStep
  PROVE  FInv'
<1>1. /\ phase = "pointers" /\ phase' = phase /\ i' = i /\ next' = next /\ prev' = prev
      /\ cur # i /\ Agrees(cur) /\ cur' = next[cur]
  BY DEF PointerStep
<1>2. Typed /\ Walk
  BY <1>1 DEF FInv
<1>3. next \in [Nodes -> Nodes] /\ i \in Nodes /\ i \in Heads /\ cur \in Met(next[i])
      /\ cur \in Nodes
  BY <1>2, HeadsAre DEF Typed, Walk, Met
<1>4. PICK V \in SUBSET Nodes :
        /\ \A n \in V : n # i /\ Agrees(n)
        /\ \A n \in V \cup {i} : next[n] \in V \cup {cur}
  BY <1>2 DEF Walk
<1> DEFINE W == V \cup {cur}
<1>5. /\ W \in SUBSET Nodes
      /\ \A n \in W : n # i /\ Agrees(n)
      /\ \A n \in W \cup {i} : next[n] \in W \cup {next[cur]}
  BY <1>1, <1>3, <1>4
<1> HIDE DEF W
<1>6. next[cur] \in Met(next[i])
  BY <1>3, MetNext
<1>7. /\ \A h : Returns(h)' = Returns(h) /\ Agreed(h)' = Agreed(h)
      /\ Met(next[i])' = Met(next[i])
  BY <1>1, <1>2, LinksStay DEF Next
<1>8. Walk'
  BY <1>1, <1>2, <1>5, <1>6, <1>7 DEF Walk, Agrees
<1> QED
  BY <1>1, <1>2, <1>8 DEF FInv, Typed

LEMMA PointerWrongSound ==
  ASSUME FInv, PointerWrong
  PROVE  Typed' /\ phase' = "done" /\ result' = WellLinked
<1>1. /\ phase = "pointers" /\ phase' = "done" /\ result' = FALSE
      /\ cur # i /\ ~Agrees(cur) /\ i' = i /\ next' = next /\ prev' = prev
  BY DEF PointerWrong, Return
<1>2. Typed /\ Walk
  BY <1>1 DEF FInv
<1>3. next \in [Nodes -> Nodes] /\ i \in Nodes /\ i \in Heads /\ cur \in Met(next[i])
  BY <1>2, HeadsAre DEF Typed, Walk
<1>4. cur \in Met(i)
  BY <1>3, MetUnfolds
<1>5. WellLinked = FALSE
  BY <1>1, <1>3, <1>4 DEF WellLinked, Agrees
<1> QED
  BY <1>1, <1>2, <1>5 DEF Typed

LEMMA NextPointerListSound ==
  ASSUME FInv, NextPointerList
  PROVE  FInv'
<1>1. phase = "pointers" /\ cur = i /\ next' = next /\ prev' = prev
  BY DEF NextPointerList, Return
<1>2. Typed /\ Walk
  BY <1>1 DEF FInv
<1>3. next \in [Nodes -> Nodes] /\ i \in Nodes /\ i \in Heads
  BY <1>2, HeadsAre DEF Typed
<1>4. PICK V \in SUBSET Nodes :
        /\ \A n \in V : n # i /\ Agrees(n)
        /\ \A n \in V \cup {i} : next[n] \in V \cup {cur}
  BY <1>2 DEF Walk
<1>5. Agreed(i)
  <2>1. V \cup {i} \in SUBSET Nodes /\ Closed(V \cup {i})
    BY <1>1, <1>3, <1>4 DEF Closed
  <2>2. Met(i) \subseteq V \cup {i}
    BY <2>1, MetLeast
  <2> QED
    BY <1>4, <2>2 DEF Agreed
<1>6. \A h \in Heads : Returns(h) /\ (h < i \/ h = i => Agreed(h))
  BY <1>2, <1>5 DEF Walk
<1>7. \A h : Returns(h)' = Returns(h) /\ Agreed(h)' = Agreed(h)
  BY <1>2, LinksStay DEF Next
<1>8. CASE i + 1 < NLists
  <2>1. i' = i + 1 /\ cur' = next[i + 1] /\ phase' = "pointers"
    BY <1>1, <1>8 DEF NextPointerList
  <2>2. i + 1 \in Heads /\ i + 1 \in Nodes
    BY <1>3, <1>8, HeadsAre
  <2>3. Typed'
    BY <1>1, <1>2, <2>1, <2>2 DEF Typed
  <2>4. \A h \in Heads : h < i + 1 => Agreed(h)
    BY <1>3, <1>6, HeadsAre
  <2>5. Walk'
    BY <1>1, <1>2, <1>3, <1>6, <1>7, <2>1, <2>2, <2>4, WalkStarts, LinksStay
       DEF Walk, Next, Agrees
  <2> QED
    BY <2>1, <2>3, <2>5 DEF FInv
<1>9. CASE ~(i + 1 < NLists)
  <2>1. phase' = "done" /\ result' = TRUE /\ i' = i
    BY <1>1, <1>9 DEF NextPointerList, Return
  <2>2. i + 1 >= NLists
    BY <1>3, <1>9, BlocksAssumption, HeadsAre, SMT
  <2>3. \A h \in Heads : Returns(h) /\ Agreed(h)
    BY <1>3, <1>6, <2>2, HeadsAre
  <2>4. WellLinked = TRUE
    BY <2>3 DEF WellLinked, Agreed, Agrees
  <2>5. WellLinked' = WellLinked
    BY <1>2, LinksStay DEF Next
  <2> QED
    BY <1>1, <1>2, <2>1, <2>4, <2>5 DEF FInv, Typed
<1> QED
  BY <1>8, <1>9

(***************************************************************************)
(* Every step of either pass keeps the invariant.                          *)
(***************************************************************************)
LEMMA StepSound ==
  ASSUME FInv, [Next]_vars
  PROVE  FInv'
<1>1. WellLinked' = WellLinked
  BY LinksStay DEF FInv
<1>2. CASE HareStep
  BY <1>2, HareStepSound DEF FInv
<1>3. CASE CycleFound
  BY <1>1, <1>3, CycleFoundSound DEF FInv
<1>4. CASE NextCycleList
  BY <1>4, NextCycleListSound
<1>5. CASE PointerStep
  BY <1>5, PointerStepSound
<1>6. CASE PointerWrong
  BY <1>1, <1>6, PointerWrongSound DEF FInv
<1>7. CASE NextPointerList
  BY <1>7, NextPointerListSound
<1>8. CASE UNCHANGED vars
  <2>1. /\ next' = next /\ prev' = prev /\ phase' = phase /\ i' = i /\ slow' = slow
        /\ fast' = fast /\ cur' = cur /\ result' = result
    BY <1>8 DEF vars
  <2>2. Typed' = Typed
    BY <2>1 DEF Typed
  <2>3. /\ Strides' = Strides /\ Met(next[i])' = Met(next[i])
        /\ \A h : Returns(h)' = Returns(h) /\ Agreed(h)' = Agreed(h)
    BY <2>1, LinksStay DEF FInv
  <2>4. Chase => Chase'
    BY <2>1, <2>3 DEF Chase
  <2>5. Walk => Walk'
    BY <2>1, <2>3 DEF Walk, Agrees
  <2> QED
    BY <1>1, <2>1, <2>2, <2>4, <2>5 DEF FInv
<1> QED
  BY <1>2, <1>3, <1>4, <1>5, <1>6, <1>7, <1>8 DEF Next

(***************************************************************************)
(* verify_freelist returns true exactly when every list comes back to its  *)
(* sentinel and the links of all its blocks agree.                         *)
(***************************************************************************)
THEOREM VerdictIsExact == Spec => []VerdictExact
<1>1. FInv => VerdictExact
  BY DEF FInv, VerdictExact
<1> QED
  BY <1>1, InitSound, StepSound, PTL DEF Spec

=============================================================================
