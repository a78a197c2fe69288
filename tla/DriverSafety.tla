---------------------------- MODULE DriverSafety ----------------------------
(***************************************************************************)
(* For every set of class files and every size of the maps: the constant   *)
(* pool is read as the file means it and the fields are bound to what      *)
(* refers to them, labels and listing stand at the instructions, assembled *)
(* code stays intact, only code larger than the reserve runs past a map,   *)
(* and what is called is the method that was looked up.                    *)
(***************************************************************************)
EXTENDS Driver, FiniteSetTheorems, SequenceTheorems, WellFoundedInduction, TLAPS

-----------------------------------------------------------------------------
(* The blocks lie one behind the other in each map, below cur in the last. *)
Block == [method : Nat, map : Nat, at : Nat, size : Nat]

MapsInv ==
  /\ map \in Nat /\ left \in 0 .. MapSize /\ cur \in Nat
  /\ (map = 0 /\ left = 0) \/ cur + left = MapSize
  /\ blocks \in Seq(Block)
  /\ \A i \in DOMAIN blocks :
       /\ blocks[i].map <= map
       /\ blocks[i].at + blocks[i].size <= MapSize
       /\ blocks[i].map = map => blocks[i].at + blocks[i].size <= cur
  /\ CodeIntact

LEMMA AssembleKeeps ==
  ASSUME MapsInv, NEW n \in Nat, NEW size \in Nat, Assemble(n, size)
  PROVE  MapsInv'
<1> DEFINE b == [method |-> n, map |-> Space.map, at |-> Space.at, size |-> size]
<1>0. size <= Space.left
  BY Zenon DEF Assemble
<1>1. /\ Space.map \in Nat /\ Space.at \in Nat /\ Space.left \in Nat
      /\ Space.at + Space.left = MapSize /\ size <= Space.left
      /\ Space.map >= map
      /\ \A i \in DOMAIN blocks :
           blocks[i].map = Space.map => blocks[i].at + blocks[i].size <= Space.at
  <2>1. CASE left < Reserve
    <3>1. Space = [map |-> map + 1, at |-> 0, left |-> MapSize]
      BY <2>1 DEF Space
    <3>2. \A i \in DOMAIN blocks : blocks[i].map # map + 1
      <4> SUFFICES ASSUME NEW i \in DOMAIN blocks PROVE blocks[i].map # map + 1
        OBVIOUS
      <4>1. blocks[i].map \in Nat /\ blocks[i].map <= map /\ map \in Nat
        <5>1. blocks[i] \in Block
          BY SMT DEF MapsInv
        <5> QED
          BY <5>1 DEF MapsInv, Block
      <4> QED
        BY <4>1, SMT
    <3> QED
      <4>1. Space.map = map + 1 /\ Space.at = 0 /\ Space.left = MapSize /\ map \in Nat
        BY <3>1 DEF MapsInv
      <4>2. \A i \in DOMAIN blocks :
              blocks[i].map = Space.map => blocks[i].at + blocks[i].size <= Space.at
        BY <3>2, <4>1
      <4> QED
        BY <1>0, <4>1, <4>2, MapAssumption, SMT
  <2>2. CASE ~(left < Reserve)
    <3>1. Space = [map |-> map, at |-> cur, left |-> left]
      BY <2>2 DEF Space
    <3>2. map \in Nat /\ cur \in Nat /\ left \in Nat /\ cur + left = MapSize
      BY <2>2, MapAssumption, SMT DEF MapsInv
    <3> QED
      <4>1. /\ Space.map = map /\ Space.at = cur /\ Space.left = left
        BY <3>1
      <4>2. \A i \in DOMAIN blocks :
              blocks[i].map = Space.map => blocks[i].at + blocks[i].size <= Space.at
        BY <4>1 DEF MapsInv
      <4> QED
        BY <1>0, <3>2, <4>1, <4>2, SMT
  <2> QED
    BY <2>1, <2>2
<1>2. /\ map' = Space.map /\ cur' = Space.at + size /\ left' = Space.left - size
      /\ blocks' = Append(blocks, b)
  BY DEF Assemble, Write
<1>3. b \in Block /\ b.map = Space.map /\ b.at = Space.at /\ b.size = size
  BY <1>1 DEF Block
<1> HIDE DEF b
<1>4. /\ blocks \in Seq(Block) /\ blocks' \in Seq(Block)
      /\ \A i \in DOMAIN blocks' : i \in DOMAIN blocks \/ i = Len(blocks) + 1
      /\ \A i \in DOMAIN blocks : blocks'[i] = blocks[i] /\ blocks[i] \in Block /\ i < Len(blocks) + 1 /\ i \in Nat
      /\ blocks'[Len(blocks) + 1] = b /\ Len(blocks) \in Nat
  BY <1>2, <1>3, SMT DEF MapsInv
<1>5. map' \in Nat /\ left' \in 0 .. MapSize /\ cur' \in Nat /\ cur' + left' = MapSize
  <2>1. \A s, m, a, l \in Nat : a + l = MapSize /\ s <= l =>
           l - s \in 0 .. MapSize /\ a + s \in Nat /\ (a + s) + (l - s) = MapSize
    BY MapAssumption, SMT
  <2>2. size \in Nat
    BY SMT
  <2> QED
    BY <1>1, <1>2, <2>1, <2>2, Zenon
<1>6. ASSUME NEW i \in DOMAIN blocks'
      PROVE  /\ blocks'[i].map <= map'
             /\ blocks'[i].at + blocks'[i].size <= MapSize
             /\ blocks'[i].map = map' => blocks'[i].at + blocks'[i].size <= cur'
  <2>1. CASE i = Len(blocks) + 1
    <3>1. /\ blocks'[i].map = Space.map /\ blocks'[i].at = Space.at
          /\ blocks'[i].size = size
      BY <1>3, <1>4, <2>1
    <3> HIDE DEF Space
    <3>2. Space.map <= Space.map /\ Space.at + size <= MapSize /\ Space.at + size <= Space.at + size
      BY <1>1, MapAssumption, SMT
    <3> QED
      BY <1>2, <3>1, <3>2
  <2>2. CASE i \in DOMAIN blocks
    <3>1. /\ blocks[i].map \in Nat /\ blocks[i].at \in Nat /\ blocks[i].size \in Nat
          /\ blocks'[i] = blocks[i]
      BY <1>4, <2>2 DEF Block
    <3>2. blocks[i].map <= map /\ blocks[i].at + blocks[i].size <= MapSize /\ map \in Nat
      BY <2>2 DEF MapsInv
    <3>3. blocks[i].map = Space.map => blocks[i].at + blocks[i].size <= Space.at
      BY <1>1, <2>2
    <3> HIDE DEF Space
    <3>4. blocks[i].map <= Space.map /\ Space.at <= Space.at + size
      BY <1>1, <3>1, <3>2, SMT
    <3>5. blocks[i].at + blocks[i].size \in Nat /\ Space.at \in Nat /\ Space.at + size \in Nat
      BY <1>1, <3>1, SMT
    <3>6. blocks[i].at + blocks[i].size <= Space.at => blocks[i].at + blocks[i].size <= Space.at + size
      BY <3>4, <3>5, SMT
    <3> QED
      BY <1>2, <3>1, <3>2, <3>3, <3>4, <3>6
  <2> QED
    BY <1>4, <2>1, <2>2
<1>7. CodeIntact'
  <2>1. ASSUME NEW i \in DOMAIN blocks', NEW j \in DOMAIN blocks', i < j, blocks'[i].map = blocks'[j].map
        PROVE  blocks'[i].at + blocks'[i].size <= blocks'[j].at
    <3>1. CASE j = Len(blocks) + 1
      <4>1. i \in DOMAIN blocks
        BY <1>4, <2>1, <3>1, SMT
      <4>2. blocks'[i] = blocks[i] /\ blocks'[j] = b
        BY <1>4, <3>1, <4>1
      <4> QED
        BY <1>1, <1>3, <2>1, <4>1, <4>2
    <3>2. CASE j \in DOMAIN blocks
      <4>1. i \in DOMAIN blocks
        BY <1>4, <2>1, <3>2, SMT
      <4> QED
        BY <1>4, <2>1, <3>2, <4>1 DEF MapsInv, CodeIntact
    <3> QED
      BY <1>4, <3>1, <3>2
  <2> QED
    BY <1>6, <2>1 DEF CodeIntact
<1> QED
  BY <1>4, <1>5, <1>6, <1>7 DEF MapsInv

-----------------------------------------------------------------------------
CodeInv ==
  /\ MapsInv
  /\ image \in Images /\ method \in Nat
  /\ OnlyLargeCodeOverruns

(* What a step of the parser leaves alone; it never brings the program to  *)
(* the stage where code has run past its map.                              *)
LEMMA ParserKeepsAway ==
  ASSUME Parse
  PROVE  image' = image /\ stage' # "astray"
BY DEF Parse, NotAClass, Open, ReadEntry, TagNotFound, EndPool, FilterOne, EndFilter, ReadField, EndFields

LEMMA CodeInvInit == Init => CodeInv
<1> SUFFICES ASSUME Init PROVE CodeInv
  OBVIOUS
<1>1. map = 0 /\ left = 0 /\ cur = 0 /\ blocks = <<>> /\ image \in Images /\ method = 0 /\ stage = "start"
  BY DEF Init, AssemblerInit, ParserInit
<1>2. DOMAIN blocks = {} /\ blocks \in Seq(Block) /\ 0 \in 0 .. MapSize
  BY <1>1, MapAssumption, SMT
<1> QED
  BY <1>1, <1>2, SMT DEF CodeInv, MapsInv, CodeIntact, OnlyLargeCodeOverruns

LEMMA CodeInvStep ==
  ASSUME CodeInv, [Next]_vars
  PROVE  CodeInv'
<1> USE DEF CodeInv
<1>1. ASSUME UNCHANGED codeVars PROVE MapsInv'
  BY <1>1 DEF MapsInv, CodeIntact, codeVars
<1>2. CASE ParseStep
  BY <1>1, <1>2, ParserKeepsAway DEF ParseStep, OnlyLargeCodeOverruns
<1>3. CASE CompileNoClass
  BY <1>1, <1>3 DEF CompileNoClass, Become, OnlyLargeCodeOverruns
<1>4. CASE StartCodeGen
  BY <1>1, <1>4 DEF StartCodeGen, AtFirstMethod, Become, OnlyLargeCodeOverruns
<1>5. CASE SkipMethod
  <2>1. method + 1 \in Nat
    BY SMT
  <2> QED
    BY <1>1, <1>5, <2>1 DEF SkipMethod, NextMethod, Compiling, parserVars, OnlyLargeCodeOverruns
<1>6. CASE CodeGenOne
  BY <1>1, <1>6 DEF CodeGenOne, Compiling, parserVars, OnlyLargeCodeOverruns
<1>7. CASE AssembleMethod
  <2>1. method \in DOMAIN Methods /\ Methods[method].size \in Nat /\ method + 1 \in Nat
    <3>1. method \in DOMAIN Methods
      BY <1>7 DEF AssembleMethod, Translated, Compiling
    <3> QED
      BY <3>1, MethodAssumption, SMT DEF Methods
  <2>2. MapsInv'
    BY <1>7, <2>1, AssembleKeeps DEF AssembleMethod
  <2> QED
    BY <1>7, <2>1, <2>2 DEF AssembleMethod, Translated, NextMethod, Compiling, parserVars, OnlyLargeCodeOverruns
<1>8. CASE AssembleOverrun
  <2>1. method' = method /\ image' = image /\ MapsInv'
    BY <1>1, <1>8 DEF AssembleOverrun, Become
  <2>2. Methods[method].size > Reserve
    <3>1. method \in DOMAIN Methods
      BY <1>8 DEF AssembleOverrun, Translated, Compiling
    <3>2. Methods[method].size \in Nat
      BY <3>1, MethodAssumption DEF Methods
    <3>3. Space.left \in Nat /\ Space.left >= Reserve
      BY MapAssumption, SMT DEF Space, MapsInv
    <3> QED
      BY <1>8, <3>2, <3>3, MapAssumption, SMT DEF AssembleOverrun, Overrun
  <2> QED
    BY <2>1, <2>2 DEF OnlyLargeCodeOverruns, Methods
<1>9. CASE EndCodeGen
  BY <1>1, <1>9 DEF EndCodeGen, Become, OnlyLargeCodeOverruns
<1>10. CASE RunClinit
  BY <1>1, <1>10 DEF RunClinit, Call, Become, OnlyLargeCodeOverruns
<1>11. CASE RunMain
  BY <1>1, <1>11 DEF RunMain, Call, Become, OnlyLargeCodeOverruns
<1>12. CASE StartListing \/ EndListing
  BY <1>1, <1>12 DEF StartListing, EndListing, AtFirstMethod, Become, OnlyLargeCodeOverruns
<1>13. CASE ListOne \/ ListOperand \/ ListNextMethod
  <2>1. method + 1 \in Nat
    BY SMT
  <2> QED
    BY <1>1, <1>13, <2>1 DEF ListOne, ListOperand, AtOperand, ListNextMethod, NextMethod, Listing, Become,
       parserVars, OnlyLargeCodeOverruns
<1>14. CASE UNCHANGED vars
  BY <1>1, <1>14 DEF vars, parserVars, OnlyLargeCodeOverruns, Methods
<1> QED
  BY <1>2, <1>3, <1>4, <1>5, <1>6, <1>7, <1>8, <1>9, <1>10, <1>11, <1>12, <1>13, <1>14 DEF Next

LEMMA CodeInvHolds == Spec => []CodeInv
BY CodeInvInit, CodeInvStep, PTL DEF Spec

(***************************************************************************)
(* No method's code is written over another's, nor past its map, whatever  *)
(* the sizes of maps, reserve and methods.                                 *)
(***************************************************************************)
THEOREM CodeStaysIntact == Spec => []CodeIntact
<1>1. CodeInv => CodeIntact
  BY DEF CodeInv, MapsInv
<1> QED
  BY <1>1, CodeInvHolds, PTL

(***************************************************************************)
(* assemble runs past the map only for a method larger than the reserve:   *)
(* a smaller one finds room in what is left or gets a new map.             *)
(***************************************************************************)
THEOREM OverrunsNeedLargeCode == Spec => []OnlyLargeCodeOverruns
<1>1. CodeInv => OnlyLargeCodeOverruns
  BY DEF CodeInv
<1> QED
  BY <1>1, CodeInvHolds, PTL

-----------------------------------------------------------------------------
(* The constant pool. *)

(* The longs and doubles among the first n - 1 entries. *)
WidesBefore(img, n) == {k_1 \in 1 .. n - 1 : Wide(img.pool[k_1])}

LEMMA WidesFinite ==
  ASSUME NEW img, NEW n \in Nat
  PROVE  /\ IsFiniteSet(WidesBefore(img, n)) /\ Cardinality(WidesBefore(img, n)) \in Nat
         /\ SlotOf(img, n) = n + Cardinality(WidesBefore(img, n))
<1>1. IsFiniteSet(1 .. n - 1) /\ WidesBefore(img, n) \in SUBSET (1 .. n - 1)
  BY FS_Interval, SMT DEF WidesBefore
<1>2. IsFiniteSet(WidesBefore(img, n))
  BY <1>1, FS_Subset
<1> QED
  BY <1>2, FS_CardinalityType DEF SlotOf, WidesBefore

LEMMA FirstSlot ==
  ASSUME NEW img
  PROVE  SlotOf(img, 1) = 1
<1>1. WidesBefore(img, 1) = {}
  BY SMT DEF WidesBefore
<1> QED
  BY <1>1, WidesFinite, FS_EmptySet, SMT

LEMMA NextSlot ==
  ASSUME NEW img, NEW n \in Nat \ {0}
  PROVE  SlotOf(img, n + 1) = SlotOf(img, n) + SlotsTaken(img.pool[n])
<1>1. CASE Wide(img.pool[n])
  <2>1. WidesBefore(img, n + 1) = WidesBefore(img, n) \cup {n} /\ n \notin WidesBefore(img, n)
    BY <1>1, SMT DEF WidesBefore
  <2>2. Cardinality(WidesBefore(img, n + 1)) = Cardinality(WidesBefore(img, n)) + 1
    BY <2>1, WidesFinite, FS_AddElement
  <2>3. SlotsTaken(img.pool[n]) = 2
    BY <1>1 DEF SlotsTaken
  <2> QED
    BY <2>2, <2>3, WidesFinite, SMT
<1>2. CASE ~Wide(img.pool[n])
  <2>1. WidesBefore(img, n + 1) = WidesBefore(img, n)
    BY <1>2, SMT DEF WidesBefore
  <2>2. SlotsTaken(img.pool[n]) = 1
    BY <1>2 DEF SlotsTaken
  <2> QED
    BY <2>1, <2>2, WidesFinite, SMT
<1> QED
  BY <1>1, <1>2

(* An earlier entry lies in an earlier slot. *)
LEMMA SlotsAscend ==
  ASSUME NEW img, NEW n \in Nat, NEW i \in 1 .. n - 1
  PROVE  SlotOf(img, i) \in Nat \ {0} /\ SlotOf(img, i) < SlotOf(img, n)
<1>1. WidesBefore(img, i) \in SUBSET WidesBefore(img, n) /\ i \in Nat
  BY SMT DEF WidesBefore
<1>2. Cardinality(WidesBefore(img, i)) <= Cardinality(WidesBefore(img, n))
  BY <1>1, WidesFinite, FS_Subset
<1> QED
  BY <1>1, <1>2, WidesFinite, SMT

-----------------------------------------------------------------------------
FieldrefSlots == {s \in DOMAIN pool : pool[s] # NULL /\ pool[s].tag = "Fieldref"}

(* The filter finds an index for each of its turns. *)
EnoughToFilter ==
  stage = "filter" => turn \in Nat /\ limit \in Nat /\ limit - turn <= Len(fieldCPIs)

(* The reading position and the slot go together, and what lies at or      *)
(* beyond the slot has not been read.                                      *)
PoolInv ==
  /\ image \in Images
  /\ next \in Nat \ {0} /\ slot = SlotOf(image, next)
  /\ DOMAIN pool = 1 .. PoolCount - 1
  /\ \A s \in DOMAIN pool : s >= slot => pool[s] = NULL
  /\ \A n \in 1 .. next - 1 :
       /\ n \in DOMAIN image.pool
       /\ SlotOf(image, n) \in DOMAIN pool /\ pool[SlotOf(image, n)] = image.pool[n]
  /\ fieldCPIs \in Seq(FieldrefSlots)
  /\ EnoughToFilter

LEMMA PoolInvInit == Init => PoolInv
<1> SUFFICES ASSUME Init PROVE PoolInv
  OBVIOUS
<1>1. /\ image \in Images /\ next = 1 /\ slot = 1 /\ fieldCPIs = <<>>
      /\ pool = [s \in 1 .. PoolCount - 1 |-> NULL] /\ stage = "start"
  BY DEF Init, ParserInit
<1>2. slot = SlotOf(image, next) /\ 1 .. next - 1 = {}
  BY <1>1, FirstSlot, SMT
<1>3. fieldCPIs \in Seq(FieldrefSlots)
  BY <1>1, SMT
<1> QED
  BY <1>1, <1>2, <1>3, SMT DEF PoolInv, EnoughToFilter

LEMMA ReadEntryKeeps ==
  ASSUME PoolInv, ReadEntry
  PROVE  PoolInv'
<1>1. next \in DOMAIN image.pool /\ Entry = image.pool[next] /\ Entry # NULL
  <2>1. next \in DOMAIN image.pool
    BY DEF ReadEntry, Entry
  <2> QED
    BY <2>1, PoolAssumption DEF Entry, PoolInv
<1>2. /\ image' = image /\ next' = next + 1 /\ pool' = [pool EXCEPT ![slot] = Entry]
      /\ slot' = slot + SlotsTaken(Entry) /\ PoolCount' = PoolCount
  BY DEF ReadEntry, PoolCount
<1>3. slot' = SlotOf(image, next + 1) /\ next \in Nat \ {0} /\ slot = SlotOf(image, next)
  BY <1>1, <1>2, NextSlot DEF PoolInv
<1>4. next \in 1 .. (next + 1) - 1 /\ next + 1 \in Nat
  BY <1>3, SMT
<1>5. slot \in Nat \ {0} /\ slot < slot'
  BY <1>3, <1>4, SlotsAscend
<1>6. PoolCount \in Nat
  <2>1. Len(image.pool) + 1 \in Nat
    BY PoolAssumption, SMT DEF PoolInv
  <2> QED
    BY <2>1, WidesFinite, SMT DEF PoolCount
<1>7. slot \in DOMAIN pool
  BY <1>5, <1>6, SMT DEF PoolInv, ReadEntry
<1>8. /\ DOMAIN pool' = DOMAIN pool /\ pool'[slot] = Entry
      /\ \A s \in DOMAIN pool : s # slot => pool'[s] = pool[s]
  BY <1>2, <1>7
<1>9. \A s \in DOMAIN pool' : s >= slot' => pool'[s] = NULL
  <2> SUFFICES ASSUME NEW s \in DOMAIN pool, s >= slot' PROVE pool'[s] = NULL
    BY <1>8
  <2>1. s \in Nat /\ slot' \in Nat
    BY <1>3, <1>4, <1>6, WidesFinite, SMT DEF PoolInv
  <2>2. s >= slot /\ s # slot
    BY <1>5, <2>1, SMT
  <2> QED
    BY <1>8, <2>2 DEF PoolInv
<1>10. ASSUME NEW n \in 1 .. next' - 1
       PROVE  /\ n \in DOMAIN image.pool
              /\ SlotOf(image, n) \in DOMAIN pool' /\ pool'[SlotOf(image, n)] = image.pool[n]
  <2>1. CASE n = next
    BY <1>1, <1>3, <1>7, <1>8, <2>1
  <2>2. CASE n # next
    <3>1. n \in 1 .. next - 1
      BY <1>2, <1>3, <2>2, SMT
    <3>2. SlotOf(image, n) \in Nat /\ SlotOf(image, n) < slot
      BY <1>3, <3>1, SlotsAscend
    <3>3. SlotOf(image, n) # slot
      BY <1>5, <3>2, SMT
    <3> QED
      BY <1>8, <3>1, <3>3 DEF PoolInv
  <2> QED
    BY <2>1, <2>2
<1>11. fieldCPIs' \in Seq(FieldrefSlots')
  <2>1. pool[slot] = NULL
    BY <1>5, <1>7, SMT DEF PoolInv
  <2>2. FieldrefSlots \subseteq FieldrefSlots'
    BY <1>8, <2>1 DEF FieldrefSlots
  <2>3. Entry.tag = "Fieldref" => slot \in FieldrefSlots'
    BY <1>1, <1>7, <1>8 DEF FieldrefSlots
  <2>4. fieldCPIs \in Seq(FieldrefSlots')
    <3> HIDE DEF FieldrefSlots
    <3> QED
      BY <2>2, SMT DEF PoolInv
  <2>5. fieldCPIs' = IF Entry.tag = "Fieldref" THEN Append(fieldCPIs, slot) ELSE fieldCPIs
    BY DEF ReadEntry
  <2> HIDE DEF FieldrefSlots
  <2> QED
    BY <2>3, <2>4, <2>5, SMT
<1>12. EnoughToFilter'
  BY DEF ReadEntry, EnoughToFilter
<1> QED
  BY <1>2, <1>3, <1>4, <1>8, <1>9, <1>10, <1>11, <1>12 DEF PoolInv

(* Every other step leaves the pool alone and drops or turns its indices. *)
LEMMA RestKeeps ==
  ASSUME PoolInv, UNCHANGED <<image, next, slot, pool>>, fieldCPIs' \in Seq(FieldrefSlots),
         EnoughToFilter'
  PROVE  PoolInv'
<1>1. FieldrefSlots' = FieldrefSlots /\ PoolCount' = PoolCount
  BY DEF FieldrefSlots, PoolCount
<1> QED
  BY <1>1 DEF PoolInv

(* A turn of the filter takes an index that is there, and may put it back. *)
LEMMA FilterOneKeeps ==
  ASSUME PoolInv, FilterOne
  PROVE  PoolInv'
<1> DEFINE index == Head(fieldCPIs)
           back == IF pool[index].class = "java" THEN <<>> ELSE <<index>>
<1>1. fieldCPIs \in Seq(FieldrefSlots)
  BY DEF PoolInv
<1>2. /\ fieldCPIs' = Tail(fieldCPIs) \o back
      /\ turn \in Nat /\ limit \in Nat /\ turn < limit /\ limit - turn <= Len(fieldCPIs)
      /\ turn' = turn + 1 /\ limit' = limit
      /\ UNCHANGED <<image, next, slot, pool>>
  BY DEF FilterOne, MoreToFilter, PoolInv, EnoughToFilter
<1>3. Len(fieldCPIs) # 0
  BY <1>1, <1>2, SMT
<1> HIDE DEF FieldrefSlots
<1>4. /\ index \in FieldrefSlots /\ Tail(fieldCPIs) \in Seq(FieldrefSlots)
      /\ Len(Tail(fieldCPIs)) = Len(fieldCPIs) - 1
  BY <1>1, <1>3, SMT
<1>5. back \in Seq(FieldrefSlots)
  BY <1>4, SMT
<1> HIDE DEF back, index
<1>6. fieldCPIs' \in Seq(FieldrefSlots) /\ Len(fieldCPIs') >= Len(fieldCPIs) - 1
  BY <1>2, <1>4, <1>5, SMT
<1>7. EnoughToFilter'
  BY <1>1, <1>2, <1>6, SMT DEF EnoughToFilter
<1> QED
  BY <1>2, <1>6, <1>7, RestKeeps

LEMMA PoolInvStep ==
  ASSUME PoolInv, [Next]_vars
  PROVE  PoolInv'
<1>1. fieldCPIs \in Seq(FieldrefSlots) /\ EnoughToFilter
  BY DEF PoolInv
<1>2. ASSUME UNCHANGED <<image, next, slot, pool, fieldCPIs>>, EnoughToFilter' PROVE PoolInv'
  BY <1>1, <1>2, RestKeeps
<1>3. ASSUME UNCHANGED <<image, next, slot, pool, fieldCPIs>>, stage' # "filter" PROVE PoolInv'
  BY <1>2, <1>3 DEF EnoughToFilter
<1>4. ASSUME UNCHANGED <<image, next, slot, pool, fieldCPIs, stage, turn, limit>> PROVE PoolInv'
  BY <1>1, <1>2, <1>4 DEF EnoughToFilter
<1>5. CASE ParseStep
  <2>1. CASE ReadEntry
    BY <2>1, ReadEntryKeeps
  <2>2. CASE FilterOne
    BY <2>2, FilterOneKeeps
  <2>3. CASE EndPool
    <3>1. turn' = 0 /\ limit' = Len(fieldCPIs) /\ fieldCPIs' = fieldCPIs
      BY <2>3 DEF EndPool
    <3>2. EnoughToFilter'
      BY <1>1, <3>1, SMT DEF EnoughToFilter
    <3> QED
      BY <1>2, <2>3, <3>2 DEF EndPool
  <2>4. CASE ReadField
    <3>1. fieldCPIs' \in Seq(FieldrefSlots)
      BY <1>1, <2>4, SMT DEF ReadField
    <3>2. EnoughToFilter'
      BY <2>4 DEF ReadField, EnoughToFilter
    <3> QED
      BY <2>4, <3>1, <3>2, RestKeeps DEF ReadField
  <2>5. CASE NotAClass \/ Open \/ TagNotFound \/ EndFilter \/ EndFields
    BY <1>3, <2>5 DEF NotAClass, Open, TagNotFound, EndFilter, EndFields
  <2> QED
    BY <1>5, <2>1, <2>2, <2>3, <2>4, <2>5 DEF ParseStep, Parse
<1>6. CASE \/ CompileNoClass \/ StartListing \/ EndListing
          \/ StartCodeGen \/ AssembleOverrun \/ EndCodeGen
  BY <1>3, <1>6 DEF CompileNoClass, StartListing, EndListing, StartCodeGen, AssembleOverrun, EndCodeGen, Become
<1>7. CASE ListOne \/ ListNextMethod \/ SkipMethod \/ CodeGenOne \/ AssembleMethod
  BY <1>4, <1>7 DEF ListOne, ListNextMethod, SkipMethod, CodeGenOne, AssembleMethod, parserVars
<1>8. CASE RunClinit
  BY <1>3, <1>8 DEF RunClinit, Call, Become
<1>9. CASE RunMain
  BY <1>3, <1>9 DEF RunMain, Call, Become
<1>10. CASE ListOperand
  <2>1. CASE UNCHANGED parserVars
    BY <1>4, <2>1 DEF parserVars
  <2>2. CASE Become("crashed")
    BY <1>3, <2>2 DEF Become
  <2> QED
    BY <1>10, <2>1, <2>2 DEF ListOperand
<1>11. CASE UNCHANGED vars
  BY <1>4, <1>11 DEF vars, parserVars
<1> QED
  BY <1>5, <1>6, <1>7, <1>8, <1>9, <1>10, <1>11 DEF Next

(***************************************************************************)
(* Each entry read lies in its slot, and the indices kept for parseFields  *)
(* are those of Fieldrefs, in every class file: indices in the bytecode    *)
(* and casts of the parser find what they mean.                            *)
(***************************************************************************)
THEOREM PoolIsRead == Spec => []PoolAsTheFileMeans
<1>1. PoolInv => PoolAsTheFileMeans
  <2> SUFFICES ASSUME PoolInv PROVE PoolAsTheFileMeans
    OBVIOUS
  <2>1. \A j \in DOMAIN fieldCPIs : fieldCPIs[j] \in FieldrefSlots
    BY SMT DEF PoolInv
  <2> QED
    BY <2>1 DEF PoolInv, PoolAsTheFileMeans, FieldrefSlots
<1> QED
  BY <1>1, PoolInvInit, PoolInvStep, PTL DEF Spec

-----------------------------------------------------------------------------
(* The methods that are called. *)

LEMMA MethodsAre ==
  ASSUME image \in Images
  PROVE  /\ Len(Methods) \in Nat /\ DOMAIN Methods = 1 .. Len(Methods)
         /\ \A m \in DOMAIN Methods : m \in Nat /\ m # 0 /\ Methods[m].size \in Nat
BY MethodAssumption, SMT DEF Methods

LEMMA LeastOf ==
  ASSUME NEW S, S \subseteq Nat, S # {}
  PROVE  \E j \in S : \A k_1 \in S : j <= k_1
<1> DEFINE Less == {p \in Nat \X Nat : p[1] < p[2]}
<1>1. IsWellFoundedOn(Less, Nat)
  BY NatLessThanWellFounded, Zenon DEF OpToRel
<1> HIDE DEF Less
<1>2. PICK j \in S : \A k_1 \in S : ~(<<k_1, j>> \in Less)
  BY <1>1, WFMin, Zenon
<1>3. \A k_1 \in S : <<k_1, j>> \in Less <=> k_1 < j
  BY SMT DEF Less
<1>4. ASSUME NEW k_1 \in S PROVE j <= k_1
  <2>1. j \in Nat /\ k_1 \in Nat
    OBVIOUS
  <2>2. ~(k_1 < j)
    BY <1>2, <1>3, Zenon
  <2> QED
    BY <2>1, <2>2, SMT
<1> QED
  BY <1>4, Zenon

(* lookupMethod finds a method of the name, if there is one. *)
LEMMA LookupFinds ==
  ASSUME image \in Images, NEW name, LookupMethod(name) # 0
  PROVE  /\ LookupMethod(name) \in DOMAIN Methods
         /\ Methods[LookupMethod(name)].name = name
<1> DEFINE S == {m \in DOMAIN Methods : Found(name, m)}
<1>1. \E m \in DOMAIN Methods : Found(name, m)
  BY DEF LookupMethod
<1>2. S \subseteq Nat /\ S # {}
  BY <1>1, MethodsAre
<1>3. PICK m \in S : \A n \in S : m <= n
  BY <1>2, LeastOf
<1>4. m \in DOMAIN Methods /\ Found(name, m) /\ m \in Nat
  BY <1>2, <1>3
<1>5. ASSUME NEW n \in 1 .. m - 1 PROVE ~Found(name, n)
  <2>1. n \in DOMAIN Methods
    BY <1>4, MethodsAre, SMT
  <2>2. n \in S => m <= n
    BY <1>3
  <2>3. n \in Int /\ n < m
    BY <1>4, SMT
  <2> QED
    BY <1>4, <2>1, <2>2, <2>3, SMT
<1>6. \E m_1 \in DOMAIN Methods : Found(name, m_1) /\ \A n \in 1 .. m_1 - 1 : ~Found(name, n)
  BY <1>4, <1>5
<1>7. LookupMethod(name) = CHOOSE m_1 \in DOMAIN Methods :
        Found(name, m_1) /\ \A n \in 1 .. m_1 - 1 : ~Found(name, n)
  BY <1>1, Zenon DEF LookupMethod
<1>8. LookupMethod(name) \in DOMAIN Methods /\ Found(name, LookupMethod(name))
  BY <1>6, <1>7, Zenon
<1> QED
  BY <1>8 DEF Found

(* Where the code of method m lies, once it has been assembled. *)
Placed(m) ==
  \E i \in DOMAIN blocks :
    /\ blocks[i].method = m /\ blocks[i].map = code[m].map
    /\ blocks[i].at = code[m].at /\ blocks[i].size = Methods[m].size

(* A call of a method whose code is not empty runs that code. *)
LEMMA PlacedRuns ==
  ASSUME MapsInv, image \in Images, NEW m \in DOMAIN Methods, Placed(m), Methods[m].size > 0
  PROVE  blocks[Latest(BlocksAt(code[m]))].method = m
<1>1. PICK i \in DOMAIN blocks : /\ blocks[i].method = m /\ blocks[i].map = code[m].map
                                 /\ blocks[i].at = code[m].at /\ blocks[i].size = Methods[m].size
  BY DEF Placed
<1>2. \A j \in DOMAIN blocks : /\ j \in Nat /\ blocks[j].at \in Nat
                               /\ blocks[j].size \in Nat
  <2>1. blocks \in Seq(Block)
    BY DEF MapsInv
  <2>2. \A j \in DOMAIN blocks : blocks[j] \in Block /\ j \in Nat
    BY <2>1, SMT
  <2> QED
    BY <2>2 DEF Block
<1>3. i \in BlocksAt(code[m])
  BY <1>1, <1>2, SMT DEF BlocksAt
<1>4. ASSUME NEW j \in BlocksAt(code[m]) PROVE j = i
  <2>1. /\ j \in DOMAIN blocks /\ blocks[j].map = blocks[i].map /\ blocks[j].size > 0
        /\ blocks[j].at <= blocks[i].at /\ blocks[i].at <= blocks[j].at + blocks[j].size - 1
    BY <1>1, <1>2, <1>4, SMT DEF BlocksAt
  <2>2. j < i => blocks[j].at + blocks[j].size <= blocks[i].at
    BY <2>1 DEF MapsInv, CodeIntact
  <2>3. i < j => blocks[i].at + blocks[i].size <= blocks[j].at
    BY <2>1 DEF MapsInv, CodeIntact
  <2>4. blocks[i].size > 0
    BY <1>1
  <2> QED
    BY <1>2, <2>1, <2>2, <2>3, <2>4, SMT
<1>5. BlocksAt(code[m]) = {i}
  BY <1>3, <1>4
<1>6. Latest({i}) = i
  BY <1>2 DEF Latest
<1> QED
  BY <1>1, <1>5, <1>6

Early == {"start", "noClass", "pool", "exited", "filter", "fields", "parsed", "listing", "listed"}

Called == {"<clinit>", "main"}

CallRecord == [name : Called, found : Nat, ran : Nat]

(***************************************************************************)
(* A pointer to code is set only to the place where that method's code     *)
(* was written; calls are made in the last two stages only, and main is    *)
(* reached behind <clinit>.                                                *)
(***************************************************************************)
CallsInv ==
  /\ stage \in Early \cup {"codeGen", "astray", "clinit", "main", "done", "crashed"}
  /\ stage \in {"codeGen", "clinit", "main"} =>
       /\ DOMAIN code = DOMAIN Methods
       /\ \A m \in DOMAIN Methods : code[m] # UNSET => Placed(m)
  /\ calls \in Seq(CallRecord)
  /\ \A c \in DOMAIN calls :
       Methods[calls[c].found].size > 0 => Methods[calls[c].ran].name = calls[c].name
  /\ stage \notin {"main", "done", "crashed"} => calls = <<>>
  /\ ~options.execute => calls = <<>> /\ stage \notin {"clinit", "main"}
  /\ options.execute /\ stage \in {"main", "done"} /\ LookupMethod("<clinit>") # 0 =>
       calls # <<>> /\ calls[1].name = "<clinit>"

(* What the stages before the calls leave as it is. *)
LEMMA CallsKept ==
  ASSUME CallsInv, image' = image, options' = options, calls' = calls, code' = code,
         blocks' = blocks, stage' \in Early \cup {"codeGen", "astray", "crashed"},
         stage' = stage \/ (stage \in Early /\ stage' # "codeGen") \/ stage' \in {"astray", "crashed"},
         stage' # stage => calls = <<>>
  PROVE  CallsInv'
<1>1. /\ Methods' = Methods /\ LookupMethod("<clinit>")' = LookupMethod("<clinit>")
      /\ \A m : Placed(m)' <=> Placed(m)
  <2>1. Methods' = Methods
    BY DEF Methods
  <2>2. LookupMethod("<clinit>")' = LookupMethod("<clinit>")
    BY <2>1 DEF LookupMethod, Found
  <2>3. \A m : Placed(m)' <=> Placed(m)
    BY <2>1 DEF Placed
  <2> QED
    BY <2>1, <2>2, <2>3
<1>2. stage' = "codeGen" => stage = "codeGen"
  BY DEF Early
<1> QED
  BY <1>1, <1>2 DEF CallsInv, Early

LEMMA CallsInvInit == Init => CallsInv
<1> SUFFICES ASSUME Init PROVE CallsInv
  OBVIOUS
<1>1. stage = "start" /\ calls = <<>>
  BY DEF Init, ParserInit
<1>2. calls \in Seq(CallRecord) /\ DOMAIN calls = {}
  BY <1>1, SMT
<1> QED
  BY <1>1, <1>2 DEF CallsInv, Early

(* AssembleMethod puts down where the code of its method lies. *)
LEMMA AssemblePlaces ==
  ASSUME CallsInv, CodeInv, AssembleMethod, options' = options
  PROVE  CallsInv'
<1>1. /\ stage = "codeGen" /\ stage' = stage /\ image' = image /\ calls' = calls
      /\ calls = <<>> /\ method \in DOMAIN Methods
      /\ DOMAIN code = DOMAIN Methods
  BY DEF AssembleMethod, Translated, Compiling, parserVars, CallsInv
<1>2. Methods' = Methods /\ Methods[method].size \in Nat
  BY <1>1, MethodsAre DEF Methods, CodeInv
<1> DEFINE b == [method |-> method, map |-> Space.map, at |-> Space.at, size |-> Methods[method].size]
           place == [map |-> Space.map, at |-> Space.at]
<1>3. blocks' = Append(blocks, b) /\ code' = [code EXCEPT ![method] = place]
  BY DEF AssembleMethod, Assemble, Write
<1>4. /\ b.method = method /\ b.map = place.map /\ b.at = place.at
      /\ b.size = Methods[method].size
  OBVIOUS
<1> HIDE DEF b, place
<1>5. /\ \A i \in DOMAIN blocks : i \in DOMAIN blocks' /\ blocks'[i] = blocks[i]
      /\ Len(blocks) + 1 \in DOMAIN blocks' /\ blocks'[Len(blocks) + 1] = b
  <2>1. blocks \in Seq(Block)
    BY DEF CodeInv, MapsInv
  <2> QED
    BY <2>1, <1>3, SMT
<1>6. DOMAIN code' = DOMAIN Methods'
  BY <1>1, <1>2, <1>3
<1>7. ASSUME NEW m \in DOMAIN Methods', code'[m] # UNSET
      PROVE  Placed(m)'
  <2>1. CASE m = method
    <3>1. code'[m] = place
      BY <1>1, <1>3, <2>1
    <3> QED
      BY <1>2, <1>4, <1>5, <2>1, <3>1 DEF Placed
  <2>2. CASE m # method
    <3>1. code'[m] = code[m] /\ Placed(m)
      BY <1>1, <1>2, <1>3, <1>7, <2>2 DEF CallsInv
    <3> QED
      BY <1>2, <1>5, <3>1 DEF Placed
  <2> QED
    BY <2>1, <2>2
<1>8. calls' \in Seq(CallRecord) /\ DOMAIN calls' = {}
  BY <1>1, SMT DEF CallsInv
<1> QED
  BY <1>1, <1>6, <1>7, <1>8 DEF CallsInv

(* The code that runs when the method of a name is called. *)
CodeRun(m) == blocks[Latest(BlocksAt(code[m]))].method

LEMMA CallRuns ==
  ASSUME CallsInv, CodeInv, stage \in {"clinit", "main"}, NEW name \in Called,
         LookupMethod(name) # 0, NEW m, m = LookupMethod(name),
         code[m] # UNSET, BlocksAt(code[m]) # {}
  PROVE  /\ [name |-> name, found |-> m, ran |-> CodeRun(m)] \in CallRecord
         /\ Methods[m].size > 0 => Methods[CodeRun(m)].name = name
<1>1. m \in DOMAIN Methods /\ Methods[m].name = name /\ m \in Nat /\ Methods[m].size \in Nat
  BY LookupFinds, MethodsAre DEF CodeInv
<1>2. Placed(m)
  BY <1>1 DEF CallsInv
<1>3. Methods[m].size > 0 => CodeRun(m) = m
  BY <1>1, <1>2, PlacedRuns DEF CodeInv, CodeRun
<1>4. CodeRun(m) \in Nat
  <2>1. blocks \in Seq(Block)
    BY DEF CodeInv, MapsInv
  <2>2. BlocksAt(code[m]) \subseteq Nat /\ BlocksAt(code[m]) \subseteq DOMAIN blocks
    BY <2>1, SMT DEF BlocksAt
  <2>3. \E i \in BlocksAt(code[m]) : \A j \in BlocksAt(code[m]) : j <= i
    <3> DEFINE S == BlocksAt(code[m])
               n == Len(blocks)
               T == {n - i : i \in S}
    <3>1. n \in Nat /\ \A i \in S : i \in Nat /\ i <= n
      BY <2>1, <2>2, SMT
    <3>2. S # {}
      OBVIOUS
    <3> HIDE DEF S, n
    <3>3. T \subseteq Nat
      BY <3>1, SMT
    <3>4. PICK d \in T : \A e \in T : d <= e
      BY <3>2, <3>3, LeastOf
    <3>5. PICK i \in S : d = n - i
      BY <3>4
    <3>6. \A j \in S : n - i <= n - j
      BY <3>4, <3>5
    <3>7. \A j \in S : j <= i
      BY <3>1, <3>5, <3>6, SMT
    <3> QED
      BY <3>5, <3>7 DEF S
  <2>4. Latest(BlocksAt(code[m])) \in DOMAIN blocks
    BY <2>2, <2>3 DEF Latest
  <2>5. blocks[Latest(BlocksAt(code[m]))] \in Block
    BY <2>1, <2>4, SMT
  <2> QED
    BY <2>5 DEF Block, CodeRun
<1> QED
  BY <1>1, <1>3, <1>4 DEF CallRecord

LEMMA CallsInvStep ==
  ASSUME CallsInv, CodeInv, [Next]_vars
  PROVE  CallsInv'
<1>1. options' = options
  BY DEF Next, vars
<1>2. CASE ParseStep
  <2>1. /\ stage \in Early /\ stage' \in Early /\ stage # "codeGen" /\ stage' # "codeGen"
        /\ stage \notin {"main", "done", "crashed"}
    BY <1>2 DEF ParseStep, Parse, NotAClass, Open, ReadEntry, TagNotFound, EndPool, FilterOne,
       EndFilter, ReadField, EndFields, Early
  <2>2. image' = image /\ calls' = calls /\ code' = code /\ blocks' = blocks
    BY <1>2, ParserKeepsAway DEF ParseStep, codeVars
  <2>3. calls = <<>>
    BY <2>1 DEF CallsInv
  <2> QED
    BY <1>1, <2>1, <2>2, <2>3, CallsKept
<1>3. CASE CompileNoClass \/ StartListing \/ ListOperand \/ EndListing
  <2>1. /\ stage \in Early /\ stage' \in Early \cup {"crashed"} /\ stage' # "codeGen"
        /\ stage \notin {"main", "done", "crashed"}
        /\ image' = image /\ calls' = calls /\ code' = code /\ blocks' = blocks
    BY <1>3 DEF CompileNoClass, StartListing, ListOperand, AtOperand, Listing, EndListing,
       Become, Early, codeVars, parserVars
  <2>2. calls = <<>>
    BY <2>1 DEF CallsInv
  <2> QED
    BY <1>1, <2>1, <2>2, CallsKept
<1>4. CASE ListOne \/ ListNextMethod \/ SkipMethod \/ CodeGenOne
  <2>1. /\ stage' = stage /\ stage \in {"listing", "codeGen"}
        /\ image' = image /\ calls' = calls /\ code' = code /\ blocks' = blocks
    BY <1>4 DEF ListOne, ListNextMethod, Listing, SkipMethod, CodeGenOne, Compiling, codeVars, parserVars
  <2> QED
    BY <1>1, <2>1, CallsKept DEF Early
<1>5. CASE StartCodeGen
  <2>1. /\ stage \in {"parsed", "listed"} /\ stage' = "codeGen" /\ image' = image
        /\ calls' = calls /\ code' = [m \in DOMAIN Methods |-> UNSET]
    BY <1>5 DEF StartCodeGen, Become
  <2>2. Methods' = Methods
    BY <2>1 DEF Methods
  <2>3. calls = <<>>
    BY <2>1 DEF CallsInv
  <2>4. DOMAIN calls = {} /\ calls \in Seq(CallRecord)
    BY <2>3, SMT DEF CallsInv
  <2> QED
    BY <1>1, <2>1, <2>2, <2>3, <2>4 DEF CallsInv
<1>6. CASE AssembleMethod
  BY <1>1, <1>6, AssemblePlaces
<1>7. CASE AssembleOverrun
  <2>1. /\ stage = "codeGen" /\ stage' = "astray"
        /\ image' = image /\ calls' = calls /\ code' = code /\ blocks' = blocks
    BY <1>7 DEF AssembleOverrun, Translated, Compiling, Become, codeVars
  <2>2. calls = <<>>
    BY <2>1 DEF CallsInv
  <2> QED
    BY <1>1, <2>1, <2>2, CallsKept
<1>8. CASE EndCodeGen
  <2>1. /\ stage = "codeGen" /\ stage' = (IF options.execute THEN "clinit" ELSE "done")
        /\ image' = image /\ calls' = calls /\ code' = code /\ blocks' = blocks
    BY <1>8 DEF EndCodeGen, Become, codeVars
  <2>2. /\ Methods' = Methods
        /\ \A m : Placed(m)' <=> Placed(m)
    BY <2>1 DEF Methods, Placed
  <2>3. calls = <<>>
    BY <2>1 DEF CallsInv
  <2> QED
    BY <1>1, <2>1, <2>2, <2>3 DEF CallsInv
<1>9. CASE RunClinit
  <2>1. stage = "clinit" /\ code' = code /\ blocks' = blocks /\ image' = image
    BY <1>9 DEF RunClinit, codeVars, Call, Become
  <2>2. /\ Methods' = Methods /\ LookupMethod("<clinit>")' = LookupMethod("<clinit>")
        /\ \A m : Placed(m)' <=> Placed(m)
    <3>1. Methods' = Methods
      BY <2>1 DEF Methods
    <3> QED
      BY <2>1, <3>1 DEF LookupMethod, Found, Placed
  <2>3. calls = <<>> /\ options.execute
    BY <2>1 DEF CallsInv
  <2>4. DOMAIN calls = {} /\ calls \in Seq(CallRecord)
    BY <2>3, SMT
  <2>5. CASE LookupMethod("<clinit>") = 0
    <3>1. stage' = "main" /\ calls' = calls
      BY <1>9, <2>5 DEF RunClinit, Become
    <3> QED
      BY <1>1, <2>1, <2>2, <2>3, <2>4, <2>5, <3>1 DEF CallsInv
  <2>6. CASE LookupMethod("<clinit>") # 0
    <3> DEFINE m == LookupMethod("<clinit>")
               r == [name |-> "<clinit>", found |-> m, ran |-> CodeRun(m)]
    <3>1. Call("<clinit>", "main")
      BY <1>9, <2>6 DEF RunClinit
    <3>2. CASE ~(code[m] # UNSET /\ BlocksAt(code[m]) # {})
      <4>1. stage' = "crashed" /\ calls' = calls
        BY <3>1, <3>2 DEF Call, Become
      <4> QED
        BY <1>1, <2>1, <2>2, <2>3, <2>4, <4>1 DEF CallsInv
    <3>3. CASE code[m] # UNSET /\ BlocksAt(code[m]) # {}
      <4>1. stage' = "main" /\ calls' = Append(calls, r)
        BY <3>1, <3>3 DEF Call, Become, CodeRun
      <4>2. /\ r \in CallRecord /\ r.name = "<clinit>"
            /\ Methods[r.found].size > 0 => Methods[r.ran].name = "<clinit>"
        <5>1. /\ [name |-> "<clinit>", found |-> m, ran |-> CodeRun(m)] \in CallRecord
              /\ Methods[m].size > 0 => Methods[CodeRun(m)].name = "<clinit>"
          <6>1. "<clinit>" \in Called
            BY DEF Called
          <6>2. m = LookupMethod("<clinit>")
            OBVIOUS
          <6> HIDE DEF m
          <6> QED
            BY <2>1, <2>6, <3>3, <6>1, <6>2, CallRuns
        <5> QED
          BY <5>1
      <4> HIDE DEF m, r
      <4>3. /\ calls' \in Seq(CallRecord) /\ DOMAIN calls' = {1} /\ calls'[1] = r /\ calls' # <<>>
        BY <2>3, <4>1, <4>2, SMT
      <4> QED
        BY <1>1, <2>1, <2>2, <2>3, <4>1, <4>2, <4>3 DEF CallsInv
    <3> QED
      BY <3>2, <3>3
  <2> QED
    BY <2>5, <2>6
<1>10. CASE RunMain
  <2>1. stage = "main" /\ code' = code /\ blocks' = blocks /\ image' = image
    BY <1>10 DEF RunMain, codeVars, Call, Become
  <2>2. Methods' = Methods /\ LookupMethod("<clinit>")' = LookupMethod("<clinit>")
    <3>1. Methods' = Methods
      BY <2>1 DEF Methods
    <3> QED
      BY <2>1, <3>1 DEF LookupMethod, Found
  <2>3. options.execute /\ calls \in Seq(CallRecord)
    BY <2>1 DEF CallsInv
  <2>4. CASE LookupMethod("main") = 0
    <3>1. stage' = "done" /\ calls' = calls
      BY <1>10, <2>4 DEF RunMain, Become
    <3> QED
      BY <1>1, <2>1, <2>2, <2>3, <3>1 DEF CallsInv
  <2>5. CASE LookupMethod("main") # 0
    <3> DEFINE m == LookupMethod("main")
               r == [name |-> "main", found |-> m, ran |-> CodeRun(m)]
    <3>1. Call("main", "done")
      BY <1>10, <2>5 DEF RunMain
    <3>2. CASE ~(code[m] # UNSET /\ BlocksAt(code[m]) # {})
      <4>1. stage' = "crashed" /\ calls' = calls
        BY <3>1, <3>2 DEF Call, Become
      <4> QED
        BY <1>1, <2>1, <2>2, <2>3, <4>1 DEF CallsInv
    <3>3. CASE code[m] # UNSET /\ BlocksAt(code[m]) # {}
      <4>1. stage' = "done" /\ calls' = Append(calls, r)
        BY <3>1, <3>3 DEF Call, Become, CodeRun
      <4>2. /\ r \in CallRecord /\ r.name = "main"
            /\ Methods[r.found].size > 0 => Methods[r.ran].name = "main"
        <5>1. /\ [name |-> "main", found |-> m, ran |-> CodeRun(m)] \in CallRecord
              /\ Methods[m].size > 0 => Methods[CodeRun(m)].name = "main"
          <6>1. "main" \in Called
            BY DEF Called
          <6>2. m = LookupMethod("main")
            OBVIOUS
          <6> HIDE DEF m
          <6> QED
            BY <2>1, <2>5, <3>3, <6>1, <6>2, CallRuns
        <5> QED
          BY <5>1
      <4> HIDE DEF m, r
      <4>3. /\ calls' \in Seq(CallRecord) /\ calls' # <<>>
            /\ \A c \in DOMAIN calls' : \/ c \in DOMAIN calls /\ calls'[c] = calls[c]
                                       \/ calls'[c] = r
            /\ calls # <<>> => calls'[1] = calls[1]
        BY <2>3, <4>1, <4>2, SMT
      <4>4. \A c \in DOMAIN calls' :
              Methods[calls'[c].found].size > 0 => Methods[calls'[c].ran].name = calls'[c].name
        BY <4>1, <4>2, <4>3 DEF CallsInv
      <4>5. LookupMethod("<clinit>") # 0 => calls # <<>> /\ calls[1].name = "<clinit>"
        BY <2>1, <2>3 DEF CallsInv
      <4> QED
        BY <1>1, <2>1, <2>2, <2>3, <4>1, <4>2, <4>3, <4>4, <4>5 DEF CallsInv
    <3> QED
      BY <3>2, <3>3
  <2> QED
    BY <2>4, <2>5
<1>11. CASE UNCHANGED vars
  <2>1. /\ stage' = stage /\ image' = image /\ calls' = calls /\ code' = code /\ blocks' = blocks
    BY <1>11 DEF vars, parserVars, codeVars
  <2>2. /\ Methods' = Methods /\ LookupMethod("<clinit>")' = LookupMethod("<clinit>")
        /\ \A m : Placed(m)' <=> Placed(m)
    <3>1. Methods' = Methods
      BY <2>1 DEF Methods
    <3> QED
      BY <2>1, <3>1 DEF LookupMethod, Found, Placed
  <2> QED
    BY <1>1, <2>1, <2>2 DEF CallsInv
<1> QED
  BY <1>2, <1>3, <1>4, <1>5, <1>6, <1>7, <1>8, <1>9, <1>10, <1>11 DEF Next

(***************************************************************************)
(* runMain runs the code of the method it looks up, <clinit> before main,  *)
(* and nothing with -n, for every class file and every size of the maps.   *)
(***************************************************************************)
THEOREM CallsAreTheirMethods == Spec => []CallsRunTheirMethod
<1>1. CallsInv => CallsRunTheirMethod
  BY DEF CallsInv, CallsRunTheirMethod
<1> QED
  BY <1>1, CallsInvInit, CallsInvStep, CodeInvHolds, PTL DEF Spec

-----------------------------------------------------------------------------
(* The instructions of a method and where they begin. *)

LEMMA OpLengths ==
  ASSUME NEW op \in Opcodes, NEW at \in Nat
  PROVE  /\ JvmLength(op, at) \in Nat /\ JvmLength(op, at) >= 1
         /\ Advance(op) = (IF op \in Formless THEN 0 ELSE JvmLength(op, at))
         /\ ListedLength(op, at) \in Nat
         /\ op = "wide" => ListedLength(op, at) = 0
         /\ Format(op).wide = 0 /\ op # "wide" => ListedLength(op, at) = JvmLength(op, at)
<1>1. CASE op = "return"
  <2>1. JvmLength(op, at) = 1 /\ op \notin Formless
    BY <1>1 DEF JvmLength, Formless, Switches
  <2>2. Format(op) = [len |-> 1, wide |-> 0]
    BY <1>1 DEF Format, Formless, Switches
  <2>3. Lengths(op) = 1
    BY <2>2, SMT DEF Lengths
  <2>4. ListedLength(op, at) = Lengths(op) /\ Advance(op) = Lengths(op) % 16
    BY <1>1 DEF ListedLength, Advance
  <2> QED
    BY <1>1, <2>1, <2>2, <2>3, <2>4, SMT
<1>2. CASE op = "iload"
  <2>1. JvmLength(op, at) = 2 /\ op \notin Formless
    BY <1>2 DEF JvmLength, Formless, Switches
  <2>2. Format(op) = [len |-> 2, wide |-> 4]
    BY <1>2 DEF Format, Formless, Switches
  <2>3. Lengths(op) = 66
    BY <2>2, SMT DEF Lengths
  <2>4. ListedLength(op, at) = Lengths(op) /\ Advance(op) = Lengths(op) % 16
    BY <1>2 DEF ListedLength, Advance
  <2> QED
    BY <1>2, <2>1, <2>2, <2>3, <2>4, SMT
<1>3. CASE op = "goto"
  <2>1. JvmLength(op, at) = 3 /\ op \notin Formless
    BY <1>3 DEF JvmLength, Formless, Switches
  <2>2. Format(op) = [len |-> 3, wide |-> 0]
    BY <1>3 DEF Format, Formless, Switches
  <2>3. Lengths(op) = 3
    BY <2>2, SMT DEF Lengths
  <2>4. ListedLength(op, at) = Lengths(op) /\ Advance(op) = Lengths(op) % 16
    BY <1>3 DEF ListedLength, Advance
  <2> QED
    BY <1>3, <2>1, <2>2, <2>3, <2>4, SMT
<1>4. CASE op \in Switches
  <2>1. Format(op) = [len |-> 0, wide |-> 0]
    BY <1>4 DEF Format, Formless, Switches
  <2>2. Lengths(op) = 0
    BY <2>1, SMT DEF Lengths
  <2>3. Advance(op) = 0
    BY <2>2, SMT DEF Advance
  <2>4. JvmLength(op, at) = ListedLength(op, at) /\ JvmLength(op, at) \in Nat /\ JvmLength(op, at) >= 1
    <3>1. Padding(at) \in Nat /\ Padding(at) = 3 - (at % 4)
      BY SMT DEF Padding
    <3>2. CASE op = "lookupswitch"
      <4>1. /\ JvmLength(op, at) = 1 + Padding(at) + 4 + 4 + 8
            /\ ListedLength(op, at) = 3 - (at % 4) + 9 + 8
        BY <3>2 DEF JvmLength, ListedLength
      <4> QED
        BY <3>1, <4>1, SMT
    <3>3. CASE op = "tableswitch"
      <4>1. /\ JvmLength(op, at) = 1 + Padding(at) + 4 + 4 + 4 + 4
            /\ ListedLength(op, at) = 3 - (at % 4) + 13 + 4
        BY <3>3 DEF JvmLength, ListedLength
      <4> QED
        BY <3>1, <4>1, SMT
    <3> QED
      BY <1>4, <3>2, <3>3 DEF Switches
  <2>5. op \in Formless /\ op # "wide"
    BY <1>4 DEF Formless, Switches
  <2> QED
    BY <2>3, <2>4, <2>5
<1>5. CASE op = "wide"
  <2>1. JvmLength(op, at) = 4 /\ op \in Formless
    BY <1>5 DEF JvmLength, Formless, Switches
  <2>2. Format(op) = [len |-> 0, wide |-> 0]
    BY <1>5 DEF Format, Formless, Switches
  <2>3. Lengths(op) = 0
    BY <2>2, SMT DEF Lengths
  <2>4. ListedLength(op, at) = Lengths(op) /\ Advance(op) = Lengths(op) % 16
    BY <1>5 DEF ListedLength, Advance
  <2> QED
    BY <1>5, <2>1, <2>3, <2>4, SMT
<1> QED
  BY <1>1, <1>2, <1>3, <1>4, <1>5 DEF Opcodes, Formless

(* Where its length is not masked print goes on beyond the instruction. *)
LEMMA ListedFar ==
  ASSUME NEW op \in Opcodes, NEW at \in Nat, Format(op).wide # 0
  PROVE  ListedLength(op, at) >= 1
<1>1. op = "iload"
  BY DEF Opcodes, Formless, Switches, Format
<1>2. ListedLength(op, at) = 16 * Format(op).wide + (Format(op).len % 16)
  BY <1>1 DEF ListedLength, Lengths
<1>3. Format(op) = [len |-> 2, wide |-> 4]
  BY <1>1 DEF Format
<1> QED
  BY <1>2, <1>3, SMT

LEMMA CodeAre ==
  ASSUME image \in Images, NEW m \in DOMAIN Methods
  PROVE  /\ Len(Methods[m].code) \in Nat
         /\ DOMAIN Methods[m].code = 1 .. Len(Methods[m].code)
         /\ \A n \in DOMAIN Methods[m].code : Methods[m].code[n] \in Opcodes
         /\ Methods[m].code # <<>> => Len(Methods[m].code) >= 1
BY MethodAssumption, SMT DEF Methods

(* The function that Begins defines, on the first n instructions. *)
Sums(m, f, n) ==
  f = [i \in 1 .. n |-> IF i = 1 THEN 0
                        ELSE f[i - 1] + JvmLength(Methods[m].code[i - 1], f[i - 1])]

LEMMA SumsExist ==
  ASSUME NEW m, NEW n \in Nat
  PROVE  \E f : Sums(m, f, n)
<1> DEFINE S == {j \in Nat : ~\E f : Sums(m, f, j)}
<1> SUFFICES ASSUME S # {} PROVE FALSE
  OBVIOUS
<1>1. PICK j \in S : \A i \in S : j <= i
  BY LeastOf
<1>2. CASE j = 0
  <2> DEFINE f == [i \in 1 .. 0 |-> 0]
  <2>1. 1 .. 0 = {}
    BY SMT
  <2>2. Sums(m, f, 0)
    BY <2>1 DEF Sums
  <2> QED
    BY <1>1, <1>2, <2>2
<1>3. CASE j # 0
  <2>1. j - 1 \in Nat /\ ~(j <= j - 1) /\ j \in Nat
    BY <1>1, <1>3, SMT
  <2>2. PICK f : Sums(m, f, j - 1)
    BY <1>1, <2>1
  <2> DEFINE Val(h, i) == IF i = 1 THEN 0
                          ELSE h[i - 1] + JvmLength(Methods[m].code[i - 1], h[i - 1])
             g == [i \in 1 .. j |-> Val(f, i)]
  <2>3. \A i \in 1 .. j - 1 : f[i] = Val(f, i)
    BY <2>2 DEF Sums
  <2>4. \A i \in 1 .. j : i # 1 => i - 1 \in 1 .. j - 1 /\ i - 1 \in 1 .. j
    BY <2>1, SMT
  <2>5. \A i \in 1 .. j - 1 : i \in 1 .. j
    BY <2>1, SMT
  <2>6. \A i \in 1 .. j - 1 : g[i] = f[i]
    BY <2>3, <2>5
  <2>7. \A i \in 1 .. j : Val(g, i) = Val(f, i)
    <3> HIDE DEF g
    <3> QED
      BY <2>4, <2>6
  <2>8. g = [i \in 1 .. j |-> Val(g, i)]
    <3>1. g = [i \in 1 .. j |-> Val(f, i)]
      OBVIOUS
    <3> HIDE DEF g, Val
    <3> QED
      BY <2>7, <3>1
  <2>9. Sums(m, g, j)
    <3> HIDE DEF g
    <3> QED
      BY <2>8 DEF Sums
  <2> QED
    BY <1>1, <2>9
<1> QED
  BY <1>2, <1>3

(* Two such functions agree as far as both go. *)
LEMMA SumsAgree ==
  ASSUME NEW m, NEW n \in Nat, NEW j \in Nat, NEW f, NEW g, Sums(m, f, n), Sums(m, g, j), n <= j,
         NEW i \in 1 .. n
  PROVE  f[i] = g[i]
<1> DEFINE S == {l \in 1 .. n : f[l] # g[l]}
<1> SUFFICES ASSUME S # {} PROVE FALSE
  OBVIOUS
<1>1. S \subseteq Nat
  BY SMT
<1>2. PICK l \in S : \A o \in S : l <= o
  BY <1>1, LeastOf
<1>3. l \in 1 .. n /\ l \in 1 .. j /\ f[l] # g[l]
  BY <1>2, SMT
<1>4. /\ f[l] = IF l = 1 THEN 0 ELSE f[l - 1] + JvmLength(Methods[m].code[l - 1], f[l - 1])
      /\ g[l] = IF l = 1 THEN 0 ELSE g[l - 1] + JvmLength(Methods[m].code[l - 1], g[l - 1])
  BY <1>3 DEF Sums
<1>5. l # 1
  BY <1>3, <1>4
<1>6. l - 1 \in 1 .. n /\ ~(l <= l - 1)
  BY <1>3, <1>5, SMT
<1>7. f[l - 1] = g[l - 1]
  BY <1>2, <1>6
<1> QED
  BY <1>3, <1>4, <1>5, <1>7

LEMMA BeginsNext ==
  ASSUME NEW m, NEW n \in Nat, n >= 1
  PROVE  /\ Begins(m, 1) = 0
         /\ Begins(m, n + 1) = Begins(m, n) + JvmLength(Methods[m].code[n], Begins(m, n))
<1> DEFINE F(j) == CHOOSE f : Sums(m, f, j)
<1>1. \A j \in Nat : Sums(m, F(j), j)
  BY SumsExist
<1>2. \A j : Begins(m, j) = F(j)[j]
  BY DEF Begins, Sums
<1> HIDE DEF F
<1>3. n + 1 \in Nat /\ n \in 1 .. n /\ n + 1 \in 1 .. n + 1 /\ n + 1 # 1 /\ (n + 1) - 1 = n
      /\ 1 \in 1 .. 1 /\ n <= n + 1
  BY SMT
<1>4. F(n)[n] = F(n + 1)[n]
  BY <1>1, <1>3, SumsAgree
<1>5. F(n + 1)[n + 1] = F(n + 1)[n] + JvmLength(Methods[m].code[n], F(n + 1)[n])
  BY <1>1, <1>3 DEF Sums
<1>6. F(1)[1] = 0
  BY <1>1, <1>3 DEF Sums
<1> QED
  BY <1>2, <1>4, <1>5, <1>6

(* Where the instructions begin ascends. *)
LEMMA BeginsAscend ==
  ASSUME image \in Images, NEW m \in DOMAIN Methods
  PROVE  /\ \A n \in 1 .. Len(Methods[m].code) + 1 : Begins(m, n) \in Nat
         /\ \A i, n \in 1 .. Len(Methods[m].code) + 1 : i < n => Begins(m, i) < Begins(m, n)
<1> DEFINE N == Len(Methods[m].code)
           Good(n) == Begins(m, n) \in Nat /\ \A i \in 1 .. n - 1 : Begins(m, i) < Begins(m, n)
           S == {n \in 1 .. N + 1 : ~Good(n)}
<1>1. N \in Nat /\ \A n \in 1 .. N : Methods[m].code[n] \in Opcodes
  BY CodeAre
<1> HIDE DEF N
<1>2. S = {}
  <2> SUFFICES ASSUME S # {} PROVE FALSE
    OBVIOUS
  <2>1. S \subseteq Nat
    BY <1>1, SMT
  <2>2. PICK n \in S : \A j \in S : n <= j
    BY <2>1, LeastOf
  <2>3. n \in Nat /\ n >= 1 /\ n <= N + 1 /\ n \in 1 .. N + 1 /\ ~Good(n)
    BY <1>1, <2>2, SMT
  <2>4. CASE n = 1
    <3>1. Begins(m, 1) = 0
      BY <2>3, BeginsNext
    <3>2. 1 .. n - 1 = {}
      BY <2>4, SMT
    <3> QED
      BY <2>3, <2>4, <3>1, <3>2
  <2>5. CASE n # 1
    <3> DEFINE p == n - 1
    <3>1. p \in Nat /\ p >= 1 /\ p \in 1 .. N + 1 /\ p \in 1 .. N /\ ~(n <= p) /\ n = p + 1
      BY <1>1, <2>3, <2>5, SMT
    <3> HIDE DEF p
    <3>2. Good(p)
      BY <2>2, <3>1
    <3>3. Begins(m, n) = Begins(m, p) + JvmLength(Methods[m].code[p], Begins(m, p))
      BY <3>1, BeginsNext
    <3>4. /\ JvmLength(Methods[m].code[p], Begins(m, p)) \in Nat
          /\ JvmLength(Methods[m].code[p], Begins(m, p)) >= 1
      BY <1>1, <3>1, <3>2, OpLengths
    <3>5. Begins(m, n) \in Nat /\ Begins(m, p) < Begins(m, n) /\ Begins(m, p) \in Nat
      BY <3>2, <3>3, <3>4, SMT
    <3>6. ASSUME NEW i \in 1 .. n - 1 PROVE Begins(m, i) < Begins(m, n)
      <4>1. i = p \/ i \in 1 .. p - 1
        BY <3>1, SMT
      <4>2. CASE i \in 1 .. p - 1
        <5>1. Begins(m, i) < Begins(m, p)
          BY <3>2, <4>2
        <5>2. i \in 1 .. N + 1 /\ ~(n <= i)
          BY <1>1, <3>1, <4>2, SMT
        <5>3. Begins(m, i) \in Nat
          BY <2>2, <5>2
        <5> QED
          BY <3>5, <5>1, <5>3, SMT
      <4> QED
        BY <3>5, <4>1, <4>2
    <3> QED
      BY <2>3, <3>5, <3>6
  <2> QED
    BY <2>4, <2>5
<1>3. \A n \in 1 .. N + 1 : Good(n)
  BY <1>2
<1>4. \A i, n \in 1 .. N + 1 : i < n => i \in 1 .. n - 1
  BY <1>1, SMT
<1> QED
  BY <1>3, <1>4 DEF N

LEMMA CodeLengthIs ==
  ASSUME image \in Images, NEW m \in DOMAIN Methods, Methods[m].code # <<>>
  PROVE  CodeLength(m) = Begins(m, Len(Methods[m].code) + 1)
<1>1. Len(Methods[m].code) \in Nat /\ Len(Methods[m].code) >= 1
  BY CodeAre
<1> QED
  BY <1>1, BeginsNext DEF CodeLength

(* codeArray holds the n-th instruction where it begins. *)
LEMMA OpAtBegin ==
  ASSUME image \in Images, NEW m \in DOMAIN Methods
  PROVE  /\ \A n \in 1 .. Len(Methods[m].code) :
              Begins(m, n) \in Starts(m) /\ OpAt(m, Begins(m, n)) = Methods[m].code[n]
         /\ \A offset \in Starts(m) : OpAt(m, offset) \in Opcodes
<1> DEFINE c == Methods[m].code
           N == Len(c)
<1>1. N \in Nat /\ DOMAIN c = 1 .. N /\ \A n \in 1 .. N : c[n] \in Opcodes
  BY CodeAre
<1>2. \A i, n \in 1 .. N : i # n => Begins(m, i) # Begins(m, n)
  <2> TAKE i, n \in 1 .. N
  <2>1. /\ i \in 1 .. N + 1 /\ n \in 1 .. N + 1 /\ (i # n => i < n \/ n < i)
    BY <1>1, SMT
  <2>2. Begins(m, i) \in Nat /\ Begins(m, n) \in Nat
    BY <2>1, BeginsAscend
  <2>3. (i < n => Begins(m, i) < Begins(m, n)) /\ (n < i => Begins(m, n) < Begins(m, i))
    BY <2>1, BeginsAscend
  <2> QED
    BY <2>1, <2>2, <2>3, SMT
<1>3. ASSUME NEW n \in 1 .. N
      PROVE  Begins(m, n) \in Starts(m) /\ OpAt(m, Begins(m, n)) = c[n]
  <2>1. Begins(m, n) \in Starts(m)
    BY <1>1 DEF Starts
  <2>2. (CHOOSE i \in DOMAIN c : Begins(m, i) = Begins(m, n)) = n
    BY <1>1, <1>2
  <2> QED
    BY <2>1, <2>2 DEF OpAt
<1>4. ASSUME NEW offset \in Starts(m) PROVE OpAt(m, offset) \in Opcodes
  <2>1. PICK n \in 1 .. N : offset = Begins(m, n)
    BY <1>1 DEF Starts
  <2> QED
    BY <1>1, <1>3, <2>1
<1> QED
  BY <1>3, <1>4

(* The places where the instructions before the n-th begin. *)
BeginsBelow(m, n) == {Begins(m, i) : i \in 1 .. n - 1}

LEMMA BelowNext ==
  ASSUME image \in Images, NEW m \in DOMAIN Methods, NEW n \in 1 .. Len(Methods[m].code)
  PROVE  /\ n + 1 \in 1 .. Len(Methods[m].code) + 1
         /\ BeginsBelow(m, n + 1) = BeginsBelow(m, n) \cup {Begins(m, n)}
<1>1. Len(Methods[m].code) \in Nat
  BY CodeAre
<1>2. /\ n + 1 \in 1 .. Len(Methods[m].code) + 1
      /\ \A i : i \in 1 .. (n + 1) - 1 <=> i \in 1 .. n - 1 \/ i = n
  BY <1>1, SMT
<1> QED
  BY <1>2 DEF BeginsBelow

(* They are the instructions that begin below it. *)
LEMMA BelowStarts ==
  ASSUME image \in Images, NEW m \in DOMAIN Methods,
         NEW n \in 1 .. Len(Methods[m].code) + 1
  PROVE  /\ BeginsBelow(m, n) = {s \in Starts(m) : s < Begins(m, n)}
         /\ Begins(m, n) \in Starts(m) \cup {Begins(m, Len(Methods[m].code) + 1)}
         /\ Begins(m, n) \in Nat /\ BeginsBelow(m, n) \subseteq Nat
<1> DEFINE N == Len(Methods[m].code)
<1>1. /\ N \in Nat /\ DOMAIN Methods[m].code = 1 .. N
      /\ \A i \in 1 .. N + 1 : Begins(m, i) \in Nat
      /\ \A i, j \in 1 .. N + 1 : i < j => Begins(m, i) < Begins(m, j)
  BY CodeAre, BeginsAscend
<1>2. n \in 1 .. N \/ n = N + 1
  BY <1>1, SMT
<1>3. ASSUME NEW i \in 1 .. n - 1
      PROVE  i \in 1 .. N /\ Begins(m, i) < Begins(m, n) /\ Begins(m, i) \in Nat
  <2>1. i \in 1 .. N /\ i \in 1 .. N + 1 /\ i < n
    BY <1>1, SMT
  <2> QED
    BY <1>1, <2>1
<1>4. ASSUME NEW i \in 1 .. N, Begins(m, i) < Begins(m, n)
      PROVE  i \in 1 .. n - 1
  <2>1. i \in 1 .. N + 1 /\ n \in 1 .. N + 1 /\ (i \in 1 .. n - 1 \/ i = n \/ n < i)
    BY <1>1, SMT
  <2>2. Begins(m, i) \in Nat /\ Begins(m, n) \in Nat /\ (n < i => Begins(m, n) < Begins(m, i))
    BY <1>1, <2>1
  <2>3. i # n /\ ~(n < i)
    <3>1. Begins(m, i) # Begins(m, n) /\ ~(Begins(m, n) < Begins(m, i))
      BY <1>4, <2>2, SMT
    <3> QED
      BY <2>2, <3>1
  <2> QED
    BY <2>1, <2>3
<1>5. BeginsBelow(m, n) = {s \in Starts(m) : s < Begins(m, n)}
  BY <1>1, <1>3, <1>4 DEF BeginsBelow, Starts
<1>6. Begins(m, n) \in Starts(m) \cup {Begins(m, N + 1)}
  BY <1>1, <1>2 DEF Starts
<1>7. BeginsBelow(m, n) \subseteq Nat
  BY <1>3 DEF BeginsBelow
<1> QED
  BY <1>1, <1>5, <1>6, <1>7

(* Where codeGen stands in a method: in front of an instruction whose      *)
(* label it has emitted only if it has no format, or at the end.           *)
Labelled(m, at, marks) ==
  \E n \in 1 .. Len(Methods[m].code) + 1 :
    /\ at = Begins(m, n)
    /\ \/ marks = BeginsBelow(m, n)
       \/ /\ n <= Len(Methods[m].code) /\ Methods[m].code[n] \in Formless
          /\ marks = BeginsBelow(m, n) \cup {at}

LEMMA LabelledFirst ==
  ASSUME image \in Images, NEW m \in DOMAIN Methods
  PROVE  Labelled(m, 0, {})
<1>1. 1 \in 1 .. Len(Methods[m].code) + 1 /\ 1 .. 1 - 1 = {}
  BY CodeAre, SMT
<1>2. Begins(m, 1) = 0
  BY BeginsNext
<1>3. BeginsBelow(m, 1) = {}
  BY <1>1 DEF BeginsBelow
<1> QED
  BY <1>1, <1>2, <1>3 DEF Labelled

LEMMA LabelledNext ==
  ASSUME image \in Images, NEW m \in DOMAIN Methods, Methods[m].code # <<>>,
         NEW at, NEW marks, Labelled(m, at, marks), at < CodeLength(m)
  PROVE  Labelled(m, at + Advance(OpAt(m, at)), marks \cup {at})
<1> DEFINE N == Len(Methods[m].code)
           op == OpAt(m, at)
<1>1. PICK n \in 1 .. N + 1 :
        /\ at = Begins(m, n)
        /\ \/ marks = BeginsBelow(m, n)
           \/ n <= N /\ Methods[m].code[n] \in Formless /\ marks = BeginsBelow(m, n) \cup {at}
  BY DEF Labelled
<1>2. N \in Nat /\ at \in Nat
  BY <1>1, CodeAre, BeginsAscend
<1>3. n \in 1 .. N
  <2>1. n # N + 1
    <3>1. CodeLength(m) = Begins(m, N + 1)
      BY CodeLengthIs
    <3>2. at # CodeLength(m)
      <4>1. at < CodeLength(m) /\ CodeLength(m) \in Nat
        <5>1. N + 1 \in 1 .. N + 1
          BY <1>2, SMT
        <5> QED
          BY <3>1, <5>1, BeginsAscend
      <4> QED
        BY <1>2, <4>1, SMT
    <3> QED
      BY <1>1, <3>1, <3>2
  <2> QED
    BY <1>2, <2>1, SMT
<1>4. op = Methods[m].code[n] /\ op \in Opcodes /\ n <= N /\ n \in Nat /\ n >= 1
  BY <1>1, <1>2, <1>3, OpAtBegin, SMT
<1>5. CASE op \in Formless
  <2>1. at + Advance(op) = at
    <3>1. Advance(op) = 0
      BY <1>2, <1>4, <1>5, OpLengths
    <3> QED
      BY <1>2, <3>1, SMT
  <2>2. marks \cup {at} = BeginsBelow(m, n) \cup {at}
    BY <1>1
  <2> QED
    BY <1>1, <1>4, <1>5, <2>1, <2>2 DEF Labelled
<1>6. CASE op \notin Formless
  <2>1. at + Advance(op) = Begins(m, n + 1)
    <3>1. Advance(op) = JvmLength(op, at)
      BY <1>2, <1>4, <1>6, OpLengths
    <3>2. Begins(m, n + 1) = Begins(m, n) + JvmLength(Methods[m].code[n], Begins(m, n))
      BY <1>4, BeginsNext
    <3>3. Begins(m, n) = at /\ Methods[m].code[n] = op
      BY <1>1, <1>4
    <3> HIDE DEF op
    <3> QED
      BY <3>1, <3>2, <3>3
  <2>2. marks \cup {at} = BeginsBelow(m, n + 1)
    BY <1>1, <1>3, <1>4, <1>6, BelowNext
  <2> QED
    BY <1>3, <2>1, <2>2, BelowNext DEF Labelled
<1> QED
  BY <1>5, <1>6

(***************************************************************************)
(* codeGen goes from instruction to instruction, whatever the images are.  *)
(***************************************************************************)
LabelsInv ==
  Compiling /\ Methods[method].code # <<>> => Labelled(method, k, labels)

LEMMA LabelsInvStep ==
  ASSUME LabelsInv, image \in Images, Next
  PROVE  LabelsInv'
<1> SUFFICES ASSUME Compiling', Methods'[method'].code # <<>>
             PROVE  Labelled(method, k, labels)'
  BY DEF LabelsInv
<1>1. stage' = "codeGen" /\ method' \in DOMAIN Methods'
  BY DEF Compiling
<1>2. SkipMethod \/ CodeGenOne \/ AssembleMethod \/ StartCodeGen
  <2>1. ~ParseStep
    BY <1>1 DEF ParseStep, Parse, NotAClass, Open, ReadEntry, TagNotFound, EndPool, FilterOne,
       EndFilter, ReadField, EndFields
  <2>2. /\ ~(CompileNoClass \/ StartListing \/ EndListing \/ AssembleOverrun \/ EndCodeGen)
        /\ ~(ListOne \/ ListOperand \/ ListNextMethod)
    BY <1>1 DEF CompileNoClass, StartListing, EndListing, AssembleOverrun, EndCodeGen, Become,
       ListOne, ListOperand, AtOperand, ListNextMethod, Listing, parserVars
  <2>3. ~(RunClinit \/ RunMain)
    BY <1>1 DEF RunClinit, RunMain, Call, Become
  <2> QED
    BY <2>1, <2>2, <2>3 DEF Next
<1>3. image' = image
  BY <1>2 DEF SkipMethod, CodeGenOne, AssembleMethod, StartCodeGen, Become, parserVars
<1>4. Methods' = Methods
  BY <1>3 DEF Methods
<1>5. Labelled(method, k, labels)' <=> Labelled(method', k', labels')
  BY <1>4 DEF Labelled, BeginsBelow, Begins
<1>6. CASE CodeGenOne
  <2>1. /\ Compiling /\ method' = method /\ Methods[method].code # <<>>
        /\ k < CodeLength(method)
        /\ labels' = labels \cup {k} /\ k' = k + Advance(OpAt(method, k))
    BY <1>6 DEF CodeGenOne, MoreCode
  <2> QED
    BY <1>5, <2>1, LabelledNext DEF LabelsInv, Compiling
<1>7. CASE ~CodeGenOne
  <2>1. k' = 0 /\ labels' = {}
    BY <1>2, <1>7 DEF SkipMethod, AssembleMethod, StartCodeGen, NextMethod, AtFirstMethod
  <2> QED
    BY <1>1, <1>4, <1>5, <2>1, LabelledFirst
<1> QED
  BY <1>6, <1>7

LEMMA LabelsInvOK ==
  ASSUME LabelsInv, image \in Images
  PROVE  LabelsAtInstructions
<1> SUFFICES ASSUME Compiling, Methods[method].code # <<>>
    PROVE  /\ k \in Starts(method) \cup {CodeLength(method)}
           /\ labels \ (IF Stuck THEN {k} ELSE {}) = {s \in Starts(method) : s < k}
  BY DEF LabelsAtInstructions
<1> DEFINE N == Len(Methods[method].code)
<1>1. PICK n \in 1 .. N + 1 :
        /\ k = Begins(method, n)
        /\ \/ labels = BeginsBelow(method, n)
           \/ /\ n <= N /\ Methods[method].code[n] \in Formless
              /\ labels = BeginsBelow(method, n) \cup {k}
  BY DEF LabelsInv, Labelled
<1>2. method \in DOMAIN Methods /\ N \in Nat /\ CodeLength(method) = Begins(method, N + 1)
  BY CodeAre, CodeLengthIs DEF Compiling
<1>3. /\ BeginsBelow(method, n) = {s \in Starts(method) : s < k}
      /\ k \in Starts(method) \cup {CodeLength(method)} /\ k \in Nat
      /\ BeginsBelow(method, n) \subseteq Nat
  BY <1>1, <1>2, BelowStarts
<1>4. k \notin BeginsBelow(method, n)
  <2>1. ~(k < k)
    BY <1>3, SMT
  <2> QED
    BY <1>3, <2>1
<1>5. CASE labels = BeginsBelow(method, n)
  BY <1>3, <1>4, <1>5
<1>6. CASE /\ n <= N /\ Methods[method].code[n] \in Formless
           /\ labels = BeginsBelow(method, n) \cup {k}
  <2>1. n \in 1 .. N /\ n \in 1 .. N + 1 /\ N + 1 \in 1 .. N + 1 /\ n < N + 1
    BY <1>2, <1>6, SMT
  <2>2. k < CodeLength(method)
    BY <1>1, <1>2, <2>1, BeginsAscend
  <2>3. OpAt(method, k) \in Formless
    BY <1>1, <1>2, <1>6, <2>1, OpAtBegin
  <2>4. Stuck
    BY <2>2, <2>3 DEF Stuck, MoreCode
  <2> QED
    BY <1>3, <1>4, <1>6, <2>4
<1> QED
  BY <1>1, <1>3, <1>5, <1>6

(***************************************************************************)
(* The labels codeGen emits stand exactly in front of the instructions, in *)
(* every method it translates.                                             *)
(***************************************************************************)
THEOREM LabelsMarkInstructions == Spec => []LabelsAtInstructions
<1>1. Init => LabelsInv
  BY DEF Init, ParserInit, LabelsInv, Compiling
<1>2. LabelsInv /\ CodeInv /\ [Next]_vars => LabelsInv'
  <2> SUFFICES ASSUME LabelsInv, CodeInv, [Next]_vars PROVE LabelsInv'
    OBVIOUS
  <2>1. CASE Next
    BY <2>1, LabelsInvStep DEF CodeInv
  <2>2. CASE UNCHANGED vars
    <3>1. image' = image /\ stage' = stage /\ method' = method /\ k' = k /\ labels' = labels
      BY <2>2 DEF vars, parserVars
    <3>2. Methods' = Methods
      BY <3>1 DEF Methods
    <3>3. Labelled(method, k, labels)' <=> Labelled(method, k, labels)
      BY <3>1, <3>2 DEF Labelled, BeginsBelow, Begins
    <3> QED
      BY <3>1, <3>2, <3>3 DEF LabelsInv, Compiling
  <2> QED
    BY <2>1, <2>2
<1>3. LabelsInv /\ CodeInv => LabelsAtInstructions
  BY LabelsInvOK DEF CodeInv
<1> QED
  BY <1>1, <1>2, <1>3, CodeInvHolds, PTL DEF Spec

(***************************************************************************)
(* Where print stands in a method: it has listed every instruction before  *)
(* the n-th, none of which has a wide form, and the n-th itself only if it *)
(* is `wide', where print stays; or the n-th has a wide form, and print    *)
(* has gone on from there to places behind it.                             *)
(***************************************************************************)
Narrow(m, n) == \A i \in 1 .. n - 1 : Format(Methods[m].code[i]).wide = 0

Listed(m, at, marks) ==
  \E n \in 1 .. Len(Methods[m].code) + 1 :
    /\ Narrow(m, n)
    /\ \/ at = Begins(m, n) /\ marks = BeginsBelow(m, n)
       \/ /\ n <= Len(Methods[m].code) /\ Methods[m].code[n] = "wide"
          /\ at = Begins(m, n) /\ marks = BeginsBelow(m, n) \cup {at}
       \/ /\ n <= Len(Methods[m].code) /\ Format(Methods[m].code[n]).wide # 0
          /\ at \in Nat /\ Begins(m, n) < at
          /\ BeginsBelow(m, n + 1) \subseteq marks
          /\ \A s \in marks : s \in BeginsBelow(m, n + 1) \/ Begins(m, n) < s

LEMMA ListedFirst ==
  ASSUME image \in Images, NEW m \in DOMAIN Methods
  PROVE  Listed(m, 0, {})
<1>1. 1 \in 1 .. Len(Methods[m].code) + 1 /\ 1 .. 1 - 1 = {}
  BY CodeAre, SMT
<1>2. Begins(m, 1) = 0
  BY BeginsNext
<1>3. BeginsBelow(m, 1) = {} /\ Narrow(m, 1)
  BY <1>1 DEF BeginsBelow, Narrow
<1> QED
  BY <1>1, <1>2, <1>3 DEF Listed

LEMMA ListedNext ==
  ASSUME image \in Images, NEW m \in DOMAIN Methods, Methods[m].code # <<>>,
         NEW at \in Starts(m), NEW marks, Listed(m, at, marks), at < CodeLength(m)
  PROVE  Listed(m, at + ListedLength(OpAt(m, at), at), marks \cup {at})
<1> DEFINE N == Len(Methods[m].code)
           op == OpAt(m, at)
           far == at + ListedLength(op, at)
<1>1. PICK n \in 1 .. N + 1 :
        /\ Narrow(m, n)
        /\ \/ at = Begins(m, n) /\ marks = BeginsBelow(m, n)
           \/ /\ n <= N /\ Methods[m].code[n] = "wide"
              /\ at = Begins(m, n) /\ marks = BeginsBelow(m, n) \cup {at}
           \/ /\ n <= N /\ Format(Methods[m].code[n]).wide # 0
              /\ at \in Nat /\ Begins(m, n) < at
              /\ BeginsBelow(m, n + 1) \subseteq marks
              /\ \A s \in marks : s \in BeginsBelow(m, n + 1) \/ Begins(m, n) < s
  BY DEF Listed
<1>2. N \in Nat /\ at \in Nat /\ Begins(m, n) \in Nat
  BY <1>1, CodeAre, BeginsAscend
<1>3. op \in Opcodes /\ ListedLength(op, at) \in Nat
  <2>1. op \in Opcodes
    BY OpAtBegin
  <2> QED
    BY <1>2, <2>1, OpLengths
<1>4. far \in Nat /\ at <= far
  BY <1>2, <1>3, SMT
<1>5. CASE at = Begins(m, n) /\ marks = BeginsBelow(m, n)
  <2>1. n \in 1 .. N
    <3>1. n # N + 1
      <4>1. CodeLength(m) = Begins(m, N + 1)
        BY CodeLengthIs
      <4>2. Begins(m, n) # CodeLength(m)
        <5>1. N + 1 \in 1 .. N + 1
          BY <1>2, SMT
        <5>2. CodeLength(m) \in Nat
          BY <4>1, <5>1, BeginsAscend
        <5> QED
          BY <1>2, <1>5, <5>2, SMT
      <4> QED
        BY <4>1, <4>2
    <3> QED
      BY <1>2, <3>1, SMT
  <2>2. op = Methods[m].code[n] /\ n <= N /\ n \in Nat /\ n >= 1
    BY <1>2, <1>5, <2>1, OpAtBegin, SMT
  <2>3. marks \cup {at} = BeginsBelow(m, n + 1) /\ n + 1 \in 1 .. N + 1
    BY <1>5, <2>1, BelowNext
  <2>4. CASE Format(op).wide = 0 /\ op # "wide"
    <3>1. far = Begins(m, n + 1)
      <4>1. ListedLength(op, at) = JvmLength(op, at)
        BY <1>2, <1>3, <2>4, OpLengths
      <4> QED
        BY <1>5, <2>2, <4>1, BeginsNext
    <3>2. Narrow(m, n + 1)
      <4>1. \A i : i \in 1 .. (n + 1) - 1 => i \in 1 .. n - 1 \/ i = n
        BY <2>2, SMT
      <4> QED
        BY <1>1, <2>2, <2>4, <4>1 DEF Narrow
    <3> QED
      BY <2>3, <3>1, <3>2 DEF Listed
  <2>5. CASE Format(op).wide # 0 /\ op # "wide"
    <3>1. at < far
      <4>1. ListedLength(op, at) >= 1
        BY <1>2, <1>3, <2>5, ListedFar
      <4> QED
        BY <1>2, <1>3, <4>1, SMT
    <3> QED
      BY <1>1, <1>4, <1>5, <2>2, <2>3, <2>5, <3>1 DEF Listed
  <2>6. CASE op = "wide"
    <3>1. far = at
      BY <1>2, <1>3, <2>6, OpLengths, SMT
    <3>2. Listed(m, at, marks \cup {at})
      BY <1>1, <1>5, <2>2, <2>6 DEF Listed
    <3> QED
      BY <3>1, <3>2
  <2> QED
    BY <2>4, <2>5, <2>6
<1>7. CASE /\ n <= N /\ Methods[m].code[n] = "wide"
           /\ at = Begins(m, n) /\ marks = BeginsBelow(m, n) \cup {at}
  <2>1. op = "wide"
    <3>1. n \in 1 .. N
      BY <1>2, <1>7, SMT
    <3> QED
      BY <1>7, <3>1, OpAtBegin
  <2>2. far = at /\ marks \cup {at} = marks
    BY <1>2, <1>3, <1>7, <2>1, OpLengths, SMT
  <2> HIDE DEF far
  <2>3. Listed(m, far, marks \cup {at})
    BY <1>1, <1>7, <2>2 DEF Listed
  <2> QED
    BY <2>3 DEF far
<1>6. CASE /\ n <= N /\ Format(Methods[m].code[n]).wide # 0
           /\ at \in Nat /\ Begins(m, n) < at
           /\ BeginsBelow(m, n + 1) \subseteq marks
           /\ \A s \in marks : s \in BeginsBelow(m, n + 1) \/ Begins(m, n) < s
  <2>1. Begins(m, n) < far
    BY <1>2, <1>4, <1>6, SMT
  <2>2. /\ BeginsBelow(m, n + 1) \subseteq marks \cup {at}
        /\ \A s \in marks \cup {at} : s \in BeginsBelow(m, n + 1) \/ Begins(m, n) < s
    BY <1>6
  <2> HIDE DEF far
  <2>3. Listed(m, far, marks \cup {at})
    BY <1>1, <1>4, <1>6, <2>1, <2>2 DEF Listed
  <2> QED
    BY <2>3 DEF far
<1> QED
  BY <1>1, <1>5, <1>6, <1>7

(* Only behind an instruction with a wide form does print get to operands. *)
LEMMA ListedOperand ==
  ASSUME image \in Images, NEW m \in DOMAIN Methods, Methods[m].code # <<>>,
         NEW at, NEW marks, Listed(m, at, marks), at < CodeLength(m), at \notin Starts(m)
  PROVE  Listed(m, CodeLength(m), marks \cup {at})
<1> DEFINE N == Len(Methods[m].code)
<1>1. PICK n \in 1 .. N + 1 :
        /\ Narrow(m, n)
        /\ \/ at = Begins(m, n)
           \/ /\ n <= N /\ Format(Methods[m].code[n]).wide # 0
              /\ at \in Nat /\ Begins(m, n) < at
              /\ BeginsBelow(m, n + 1) \subseteq marks
              /\ \A s \in marks : s \in BeginsBelow(m, n + 1) \/ Begins(m, n) < s
  BY DEF Listed
<1>2. /\ CodeLength(m) = Begins(m, N + 1) /\ N + 1 \in 1 .. N + 1
      /\ Begins(m, n) \in Nat /\ Begins(m, N + 1) \in Nat
  <2>1. N + 1 \in 1 .. N + 1
    BY CodeAre, SMT
  <2> QED
    BY <2>1, CodeLengthIs, BeginsAscend
<1>3. at # Begins(m, n)
  <2>1. Begins(m, n) \in Starts(m) \cup {CodeLength(m)}
    BY <1>2, BelowStarts
  <2>2. at # CodeLength(m)
    <3>1. CodeLength(m) \in Nat /\ ~(CodeLength(m) < CodeLength(m))
      BY <1>2, SMT
    <3> QED
      BY <3>1
  <2> QED
    BY <2>1, <2>2
<1>4. Begins(m, n) < CodeLength(m) /\ CodeLength(m) \in Nat
  BY <1>1, <1>2, <1>3, SMT
<1>5. /\ BeginsBelow(m, n + 1) \subseteq marks \cup {at}
      /\ \A s \in marks \cup {at} : s \in BeginsBelow(m, n + 1) \/ Begins(m, n) < s
  BY <1>1, <1>3
<1> QED
  BY <1>1, <1>3, <1>4, <1>5 DEF Listed

(* What has been listed in this way is what ListsInstructions says. *)
ListingInv ==
  Listing /\ Methods[method].code # <<>> => Listed(method, k, labels)

LEMMA ListingInvStep ==
  ASSUME ListingInv, image \in Images, Next
  PROVE  ListingInv'
<1> SUFFICES ASSUME Listing', Methods'[method'].code # <<>>
             PROVE  Listed(method, k, labels)'
  BY DEF ListingInv
<1>1. stage' = "listing" /\ method' \in DOMAIN Methods'
  BY DEF Listing
<1>2. StartListing \/ ListOne \/ (ListOperand /\ stage' = "listing") \/ ListNextMethod
  <2>1. ~ParseStep
    BY <1>1 DEF ParseStep, Parse, NotAClass, Open, ReadEntry, TagNotFound, EndPool, FilterOne,
       EndFilter, ReadField, EndFields
  <2>2. /\ ~(CompileNoClass \/ EndListing \/ StartCodeGen \/ AssembleOverrun \/ EndCodeGen)
        /\ ~(SkipMethod \/ CodeGenOne \/ AssembleMethod)
    BY <1>1 DEF CompileNoClass, EndListing, StartCodeGen, AssembleOverrun, EndCodeGen, Become,
       SkipMethod, CodeGenOne, AssembleMethod, Translated, Compiling, parserVars
  <2>3. ~(RunClinit \/ RunMain)
    BY <1>1 DEF RunClinit, RunMain, Call, Become
  <2> QED
    BY <1>1, <2>1, <2>2, <2>3 DEF Next
<1>3. image' = image
  BY <1>2 DEF StartListing, ListOne, ListOperand, ListNextMethod, Become, parserVars
<1>4. Methods' = Methods
  BY <1>3 DEF Methods
<1>5. Listed(method, k, labels)' <=> Listed(method', k', labels')
  BY <1>4 DEF Listed, Narrow, BeginsBelow, Begins
<1>6. CASE ListOne
  <2>1. /\ Listing /\ method' = method /\ Methods[method].code # <<>>
        /\ k < CodeLength(method) /\ k \in Starts(method)
        /\ labels' = labels \cup {k} /\ k' = k + ListedLength(OpAt(method, k), k)
    BY <1>6 DEF ListOne, MoreCode
  <2> QED
    BY <1>5, <2>1, ListedNext DEF ListingInv, Listing
<1>7. CASE ListOperand /\ stage' = "listing"
  <2>1. /\ Listing /\ method' = method /\ Methods[method].code # <<>>
        /\ k < CodeLength(method) /\ k \notin Starts(method)
        /\ labels' = labels \cup {k} /\ k' = CodeLength(method)
    BY <1>7 DEF ListOperand, AtOperand, MoreCode, Become
  <2> QED
    BY <1>5, <2>1, ListedOperand DEF ListingInv, Listing
<1>8. CASE StartListing \/ ListNextMethod
  <2>1. k' = 0 /\ labels' = {}
    BY <1>8 DEF StartListing, ListNextMethod, NextMethod, AtFirstMethod
  <2> QED
    BY <1>1, <1>4, <1>5, <2>1, ListedFirst
<1> QED
  BY <1>2, <1>6, <1>7, <1>8

LEMMA ListingInvOK ==
  ASSUME ListingInv, image \in Images
  PROVE  ListsInstructions
<1> DEFINE NoneWide(s) == \A r \in Starts(method) : r < s => Format(OpAt(method, r)).wide = 0
           N == Len(Methods[method].code)
<1> SUFFICES ASSUME Listing, Methods[method].code # <<>>, \A s \in labels : NoneWide(s)
    PROVE  labels \ (IF Stuck THEN {k} ELSE {}) = {s \in Starts(method) : s < k /\ NoneWide(s)}
  BY DEF ListsInstructions
<1>1. PICK n \in 1 .. N + 1 :
        \/ k = Begins(method, n) /\ labels = BeginsBelow(method, n)
        \/ /\ n <= N /\ Methods[method].code[n] = "wide"
           /\ k = Begins(method, n) /\ labels = BeginsBelow(method, n) \cup {k}
        \/ /\ n <= N /\ Format(Methods[method].code[n]).wide # 0
           /\ k \in Nat /\ Begins(method, n) < k
           /\ BeginsBelow(method, n + 1) \subseteq labels
           /\ \A s \in labels : s \in BeginsBelow(method, n + 1) \/ Begins(method, n) < s
  BY DEF ListingInv, Listed
<1>2. method \in DOMAIN Methods /\ N \in Nat
  BY CodeAre DEF Listing
<1> HIDE DEF NoneWide
<1>3. ASSUME k = Begins(method, n)
      PROVE  BeginsBelow(method, n) = {s \in Starts(method) : s < k} /\ k \notin BeginsBelow(method, n)
  <2>1. BeginsBelow(method, n) = {s \in Starts(method) : s < k} /\ k \in Nat
    BY <1>2, <1>3, BelowStarts
  <2>2. ~(k < k)
    BY <2>1, SMT
  <2> QED
    BY <2>1, <2>2
<1>5. CASE k = Begins(method, n) /\ labels = BeginsBelow(method, n)
  BY <1>3, <1>5
<1>6. CASE /\ n <= N /\ Methods[method].code[n] = "wide"
           /\ k = Begins(method, n) /\ labels = BeginsBelow(method, n) \cup {k}
  <2>1. n \in 1 .. N /\ n \in 1 .. N + 1 /\ N + 1 \in 1 .. N + 1 /\ n < N + 1
    BY <1>2, <1>6, SMT
  <2>2. k < CodeLength(method) /\ k \in Starts(method) /\ OpAt(method, k) = "wide"
    BY <1>2, <1>6, <2>1, BeginsAscend, CodeLengthIs, OpAtBegin
  <2>3. Stuck
    BY <2>2 DEF Stuck, MoreCode, Formless, Switches
  <2> QED
    BY <1>3, <1>6, <2>3
<1>4. CASE /\ n <= N /\ Format(Methods[method].code[n]).wide # 0
           /\ k \in Nat /\ Begins(method, n) < k
           /\ BeginsBelow(method, n + 1) \subseteq labels
           /\ \A s \in labels : s \in BeginsBelow(method, n + 1) \/ Begins(method, n) < s
  <2> DEFINE b == Begins(method, n)
             S == BeginsBelow(method, n)
  <2>1. n \in 1 .. N
    BY <1>2, <1>4, SMT
  <2>2. b \in Starts(method) /\ Format(OpAt(method, b)).wide # 0 /\ b \in Nat /\ b < k
    BY <1>2, <1>4, <2>1, OpAtBegin, BelowStarts
  <2>3. BeginsBelow(method, n + 1) = S \cup {b}
    BY <1>2, <2>1, BelowNext
  <2>4. S = {s \in Starts(method) : s < b}
    BY <1>2, BelowStarts
  <2>5. Starts(method) \subseteq Nat
    <3> SUFFICES ASSUME NEW s \in Starts(method) PROVE s \in Nat
      OBVIOUS
    <3>1. PICK i \in 1 .. N : s = Begins(method, i)
      BY <1>2, CodeAre DEF Starts
    <3>2. i \in 1 .. N + 1
      BY <1>2, SMT
    <3> QED
      BY <1>2, <3>1, <3>2, BeginsAscend
  <2>6. \A s : NoneWide(s) => ~(b < s)
    BY <2>2 DEF NoneWide
  <2> HIDE DEF b, S
  <2>7. ASSUME NEW s \in labels, NoneWide(s) PROVE s \in Starts(method) /\ s < k
    <3>1. s \in S \/ s = b
      BY <1>4, <2>3, <2>6, <2>7 DEF b
    <3>2. s \in Starts(method) /\ (s < b \/ s = b) /\ s \in Nat
      BY <2>2, <2>4, <2>5, <3>1
    <3>3. b < k
      BY <1>4 DEF b
    <3> QED
      BY <1>4, <2>2, <3>2, <3>3, SMT
  <2>8. ASSUME NEW s \in Starts(method), NoneWide(s) PROVE s \in labels
    <3>1. s < b \/ s = b
      BY <2>2, <2>5, <2>6, <2>8, SMT
    <3> QED
      BY <1>4, <2>3, <2>4, <3>1
  <2>9. k \notin labels
    <3>1. ~(k < k)
      BY <1>4, SMT
    <3> QED
      BY <2>7, <3>1
  <2> QED
    BY <2>7, <2>8, <2>9
<1> QED
  BY <1>1, <1>4, <1>5, <1>6

(***************************************************************************)
(* With -c, the instructions of a method are listed where they stand, up   *)
(* to the first that has a wide form or is `wide'.                         *)
(***************************************************************************)
THEOREM ListingNamesInstructions == Spec => []ListsInstructions
<1>1. Init => ListingInv
  BY DEF Init, ParserInit, ListingInv, Listing
<1>2. ListingInv /\ CodeInv /\ [Next]_vars => ListingInv'
  <2> SUFFICES ASSUME ListingInv, CodeInv, [Next]_vars PROVE ListingInv'
    OBVIOUS
  <2>1. CASE Next
    BY <2>1, ListingInvStep DEF CodeInv
  <2>2. CASE UNCHANGED vars
    <3>1. image' = image /\ stage' = stage /\ method' = method /\ k' = k /\ labels' = labels
      BY <2>2 DEF vars, parserVars
    <3>2. Methods' = Methods
      BY <3>1 DEF Methods
    <3>3. Listed(method, k, labels)' <=> Listed(method, k, labels)
      BY <3>1, <3>2 DEF Listed, Narrow, BeginsBelow, Begins
    <3> QED
      BY <3>1, <3>2, <3>3 DEF ListingInv, Listing
  <2> QED
    BY <2>1, <2>2
<1>3. ListingInv /\ CodeInv => ListsInstructions
  BY ListingInvOK DEF CodeInv
<1> QED
  BY <1>1, <1>2, <1>3, CodeInvHolds, PTL DEF Spec

-----------------------------------------------------------------------------
(* The numbers of a set, one after the other in ascending order. *)
Enumerates(s, S) ==
  /\ S \subseteq Nat /\ s \in Seq(Nat)
  /\ \A j \in 1 .. Len(s) : s[j] \in S
  /\ \A x \in S : \E j \in 1 .. Len(s) : s[j] = x
  /\ \A i, j \in 1 .. Len(s) : i < j => s[i] < s[j]

(* There is one way only: wherever two go, they agree. *)
LEMMA EnumerationsAgree ==
  ASSUME NEW S, NEW r, NEW q, Enumerates(r, S), Enumerates(q, S)
  PROVE  \A i \in 1 .. Len(r) : i \in 1 .. Len(q) /\ r[i] = q[i]
<1> DEFINE Apart == {i \in 1 .. Len(r) : ~(i \in 1 .. Len(q) /\ r[i] = q[i])}
<1> SUFFICES ASSUME Apart # {} PROVE FALSE
  OBVIOUS
<1>1. Len(r) \in Nat /\ Len(q) \in Nat /\ Apart \subseteq Nat
  <2>1. r \in Seq(Nat) /\ q \in Seq(Nat)
    BY DEF Enumerates
  <2>2. Len(r) \in Nat /\ Len(q) \in Nat
    <3> HIDE DEF Apart
    <3> QED
      BY <2>1, SMT
  <2>3. Apart \subseteq 1 .. Len(r)
    OBVIOUS
  <2> HIDE DEF Apart
  <2>4. Apart \subseteq Nat
    BY <2>2, <2>3, SMT
  <2> QED
    BY <2>2, <2>4
<1>2. PICK i \in Apart : \A j \in Apart : i <= j
  BY <1>1, LeastOf
<1>3. i \in Nat /\ i \in 1 .. Len(r) /\ ~(i \in 1 .. Len(q) /\ r[i] = q[i])
  BY <1>1, <1>2
<1>4. ASSUME NEW j \in 1 .. Len(r), j < i
      PROVE  j \in 1 .. Len(q) /\ r[j] = q[j]
  <2>1. j \notin Apart
    BY <1>1, <1>2, <1>3, <1>4, SMT
  <2> QED
    BY <2>1
<1> HIDE DEF Apart
<1>5. PICK k_1 \in 1 .. Len(q) : q[k_1] = r[i]
  BY <1>3 DEF Enumerates
<1>6. /\ \A j \in 1 .. Len(r) : r[j] \in Nat
      /\ \A j \in 1 .. Len(q) : q[j] \in Nat
  BY DEF Enumerates
<1>7. ~(k_1 < i)
  <2> SUFFICES ASSUME k_1 < i PROVE FALSE
    OBVIOUS
  <2>1. k_1 \in 1 .. Len(r)
    BY <1>1, <1>3, SMT
  <2>2. r[k_1] = r[i] /\ r[k_1] < r[i]
    BY <1>3, <1>4, <1>5, <2>1 DEF Enumerates
  <2> QED
    BY <1>3, <1>6, <2>2, SMT
<1>8. i \in 1 .. Len(q) /\ i < k_1
  BY <1>1, <1>3, <1>5, <1>7, SMT
<1>9. q[i] < r[i] /\ q[i] \in S
  BY <1>5, <1>8 DEF Enumerates
<1>10. PICK l \in 1 .. Len(r) : r[l] = q[i]
  BY <1>9 DEF Enumerates
<1>11. l < i
  <2>1. l = i \/ i < l \/ l < i
    BY <1>1, <1>3, SMT
  <2>2. i < l => r[i] < r[l]
    BY <1>3 DEF Enumerates
  <2>3. r[i] \in Nat /\ r[l] \in Nat /\ r[l] < r[i]
    BY <1>3, <1>6, <1>9, <1>10
  <2> QED
    BY <2>1, <2>2, <2>3, SMT
<1>12. l \in 1 .. Len(q) /\ q[l] = q[i]
  BY <1>4, <1>10, <1>11
<1>13. q[l] < q[i] /\ q[i] \in Nat
  BY <1>6, <1>8, <1>11, <1>12 DEF Enumerates
<1> QED
  BY <1>12, <1>13, SMT

LEMMA OneEnumeration ==
  ASSUME NEW S, NEW r, NEW q, Enumerates(r, S), Enumerates(q, S)
  PROVE  Len(r) = Len(q) /\ \A i \in 1 .. Len(q) : r[i] = q[i]
<1>1. /\ \A i \in 1 .. Len(r) : i \in 1 .. Len(q) /\ r[i] = q[i]
      /\ \A i \in 1 .. Len(q) : i \in 1 .. Len(r) /\ q[i] = r[i]
  BY EnumerationsAgree
<1>2. Len(r) \in Nat /\ Len(q) \in Nat
  BY SMT DEF Enumerates
<1>3. Len(r) = Len(q)
  <2>1. Len(r) # 0 => Len(r) \in 1 .. Len(q)
    BY <1>1, <1>2, SMT
  <2>2. Len(q) # 0 => Len(q) \in 1 .. Len(r)
    BY <1>1, <1>2, SMT
  <2> QED
    BY <1>2, <2>1, <2>2, SMT
<1> QED
  BY <1>1, <1>3

LEMMA EnumerateNone ==
  ASSUME NEW s, Len(s) = 0, s \in Seq(Nat), NEW S, S = {}
  PROVE  Enumerates(s, S)
BY SMT DEF Enumerates

LEMMA EnumerateMore ==
  ASSUME NEW s, NEW S, Enumerates(s, S), NEW x \in Nat, \A y \in S : y < x
  PROVE  Enumerates(Append(s, x), S \cup {x})
<1> DEFINE a == Append(s, x)
<1>1. s \in Seq(Nat) /\ Len(s) \in Nat
  BY SMT DEF Enumerates
<1>2. /\ a \in Seq(Nat) /\ Len(a) = Len(s) + 1 /\ a[Len(s) + 1] = x
      /\ \A j \in 1 .. Len(s) : a[j] = s[j]
  BY <1>1, SMT
<1> HIDE DEF a
<1>3. \A j : j \in 1 .. Len(a) <=> j \in 1 .. Len(s) \/ j = Len(s) + 1
  BY <1>1, <1>2, SMT
<1>4. \A j \in 1 .. Len(a) : a[j] \in S \cup {x}
  BY <1>2, <1>3 DEF Enumerates
<1>5. \A y \in S \cup {x} : \E j \in 1 .. Len(a) : a[j] = y
  <2> SUFFICES ASSUME NEW y \in S \cup {x} PROVE \E j \in 1 .. Len(a) : a[j] = y
    OBVIOUS
  <2>1. CASE y = x
    BY <1>2, <1>3, <2>1
  <2>2. CASE y \in S
    <3>1. PICK j \in 1 .. Len(s) : s[j] = y
      BY <2>2 DEF Enumerates
    <3> QED
      BY <1>2, <1>3, <3>1
  <2> QED
    BY <2>1, <2>2
<1>6. ASSUME NEW i \in 1 .. Len(a), NEW j \in 1 .. Len(a), i < j
      PROVE  a[i] < a[j]
  <2>1. i \in 1 .. Len(s)
    BY <1>1, <1>2, <1>6, SMT
  <2>2. CASE j \in 1 .. Len(s)
    BY <1>2, <1>6, <2>1, <2>2 DEF Enumerates
  <2>3. CASE j = Len(s) + 1
    BY <1>2, <2>1, <2>3 DEF Enumerates
  <2> QED
    BY <1>3, <2>2, <2>3
<1> QED
  BY <1>2, <1>4, <1>5, <1>6 DEF Enumerates, a

(* The head is the least, and the tail goes through what is greater. *)
LEMMA EnumerateRest ==
  ASSUME NEW s, NEW S, Enumerates(s, S), Len(s) # 0
  PROVE  /\ Head(s) \in S /\ \A y \in S : y = Head(s) \/ Head(s) < y
         /\ Len(Tail(s)) = Len(s) - 1
         /\ Enumerates(Tail(s), {y \in S : Head(s) < y})
<1> DEFINE t == Tail(s)
           h == Head(s)
<1>1. s \in Seq(Nat) /\ Len(s) \in Nat /\ 1 \in 1 .. Len(s) /\ S \subseteq Nat
  BY SMT DEF Enumerates
<1>2. /\ t \in Seq(Nat) /\ Len(t) = Len(s) - 1 /\ h = s[1]
      /\ \A j \in 1 .. Len(t) : t[j] = s[j + 1]
  BY <1>1, SMT
<1> HIDE DEF t, h
<1>3. h \in S /\ h \in Nat
  BY <1>1, <1>2 DEF Enumerates
<1>4. \A j \in 1 .. Len(s) : j # 1 => h < s[j] /\ j - 1 \in 1 .. Len(t) /\ t[j - 1] = s[j]
  <2> SUFFICES ASSUME NEW j \in 1 .. Len(s), j # 1
      PROVE  h < s[j] /\ j - 1 \in 1 .. Len(t) /\ t[j - 1] = s[j]
    OBVIOUS
  <2>1. 1 < j /\ j - 1 \in 1 .. Len(t) /\ (j - 1) + 1 = j
    BY <1>1, <1>2, SMT
  <2> QED
    BY <1>1, <1>2, <2>1 DEF Enumerates
<1>5. \A y \in S : y = h \/ h < y
  <2> SUFFICES ASSUME NEW y \in S PROVE y = h \/ h < y
    OBVIOUS
  <2>1. PICK j \in 1 .. Len(s) : s[j] = y
    BY DEF Enumerates
  <2> QED
    BY <1>2, <1>4, <2>1
<1>6. \A j \in 1 .. Len(t) : j + 1 \in 1 .. Len(s) /\ j + 1 # 1
  BY <1>1, <1>2, SMT
<1>7. \A j \in 1 .. Len(t) : t[j] \in S /\ h < t[j]
  BY <1>2, <1>4, <1>6 DEF Enumerates
<1>8. \A y \in S : h < y => \E j \in 1 .. Len(t) : t[j] = y
  <2> SUFFICES ASSUME NEW y \in S, h < y PROVE \E j \in 1 .. Len(t) : t[j] = y
    OBVIOUS
  <2>1. PICK j \in 1 .. Len(s) : s[j] = y
    BY DEF Enumerates
  <2>2. j # 1
    BY <1>2, <1>3, <2>1, SMT
  <2> QED
    BY <1>4, <2>1, <2>2
<1>9. ASSUME NEW i \in 1 .. Len(t), NEW j \in 1 .. Len(t), i < j
      PROVE  t[i] < t[j]
  <2>1. i + 1 < j + 1
    BY <1>1, <1>2, <1>9, SMT
  <2> QED
    BY <1>2, <1>6, <2>1 DEF Enumerates
<1>10. Enumerates(t, {y \in S : h < y})
  BY <1>1, <1>2, <1>7, <1>8, <1>9 DEF Enumerates
<1> QED
  BY <1>2, <1>3, <1>5, <1>10 DEF t, h

(* The slots of the Fieldrefs among the first n - 1 entries, and of those  *)
(* that the filter keeps.                                                  *)
RefsBelow(n) == {SlotOf(image, i) : i \in {j \in 1 .. n - 1 : image.pool[j].tag = "Fieldref"}}

AllRefs == RefsBelow(Len(image.pool) + 1)

KeptSlots == {SlotOf(image, n) : n \in Kept}

LEMMA SlotsDiffer ==
  ASSUME image \in Images
  PROVE  /\ Len(image.pool) \in Nat /\ DOMAIN image.pool = 1 .. Len(image.pool)
         /\ \A i \in DOMAIN image.pool : SlotOf(image, i) \in Nat
         /\ \A i, j \in DOMAIN image.pool : i < j => SlotOf(image, i) < SlotOf(image, j)
         /\ \A i, j \in DOMAIN image.pool : SlotOf(image, i) = SlotOf(image, j) => i = j
<1>1. Len(image.pool) \in Nat /\ DOMAIN image.pool = 1 .. Len(image.pool)
  BY PoolAssumption
<1>2. \A i \in DOMAIN image.pool : SlotOf(image, i) \in Nat
  <2> SUFFICES ASSUME NEW i \in 1 .. Len(image.pool) PROVE SlotOf(image, i) \in Nat
    BY <1>1
  <2>1. i \in Nat
    BY <1>1, SMT
  <2> QED
    BY <2>1, WidesFinite, SMT
<1>3. \A i, j \in DOMAIN image.pool : i < j => SlotOf(image, i) < SlotOf(image, j)
  <2> SUFFICES ASSUME NEW i \in 1 .. Len(image.pool), NEW j \in 1 .. Len(image.pool), i < j
      PROVE  SlotOf(image, i) < SlotOf(image, j)
    BY <1>1
  <2>1. j \in Nat /\ i \in 1 .. j - 1
    BY <1>1, SMT
  <2> QED
    BY <2>1, SlotsAscend
<1>4. \A i, j \in DOMAIN image.pool : SlotOf(image, i) = SlotOf(image, j) => i = j
  <2> SUFFICES ASSUME NEW i \in DOMAIN image.pool, NEW j \in DOMAIN image.pool,
                      SlotOf(image, i) = SlotOf(image, j), i # j
      PROVE  FALSE
    OBVIOUS
  <2>1. i < j \/ j < i
    BY <1>1, SMT
  <2>2. SlotOf(image, i) \in Nat /\ (SlotOf(image, i) < SlotOf(image, j) \/ SlotOf(image, j) < SlotOf(image, i))
    BY <1>2, <1>3, <2>1
  <2> QED
    BY <2>2, SMT
<1> QED
  BY <1>1, <1>2, <1>3, <1>4

LEMMA RefsAre ==
  ASSUME image \in Images
  PROVE  /\ AllRefs = {SlotOf(image, n) : n \in {i \in DOMAIN image.pool : image.pool[i].tag = "Fieldref"}}
         /\ KeptSlots \subseteq AllRefs /\ AllRefs \subseteq Nat
         /\ \A n \in DOMAIN image.pool : SlotOf(image, n) \in KeptSlots <=> n \in Kept
<1>1. Len(image.pool) \in Nat /\ DOMAIN image.pool = 1 .. (Len(image.pool) + 1) - 1
  BY SlotsDiffer, SMT
<1>2. AllRefs = {SlotOf(image, n) : n \in {i \in DOMAIN image.pool : image.pool[i].tag = "Fieldref"}}
  BY <1>1 DEF AllRefs, RefsBelow
<1>3. \A n \in Kept : n \in DOMAIN image.pool /\ image.pool[n].tag = "Fieldref"
  BY DEF Kept
<1>4. KeptSlots \subseteq AllRefs
  BY <1>2, <1>3 DEF KeptSlots
<1>5. AllRefs \subseteq Nat
  BY <1>2, SlotsDiffer
<1>6. \A n \in DOMAIN image.pool : SlotOf(image, n) \in KeptSlots <=> n \in Kept
  BY <1>3, SlotsDiffer DEF KeptSlots
<1> QED
  BY <1>2, <1>4, <1>5, <1>6

(* When the pool has its slots, the whole of it has been read. *)
LEMMA AllRead ==
  ASSUME PoolInv, slot >= PoolCount
  PROVE  next = Len(image.pool) + 1
<1> DEFINE N == Len(image.pool)
<1>1. N \in Nat /\ DOMAIN image.pool = 1 .. N /\ next \in Nat \ {0}
  BY SlotsDiffer DEF PoolInv
<1>2. ~(next < N + 1)
  <2> SUFFICES ASSUME next < N + 1 PROVE FALSE
    OBVIOUS
  <2>1. N + 1 \in Nat /\ next \in 1 .. (N + 1) - 1
    BY <1>1, SMT
  <2>2. slot \in Nat /\ slot < PoolCount
    BY <2>1, SlotsAscend DEF PoolInv, PoolCount
  <2>3. PoolCount \in Nat
    BY <2>1, WidesFinite, SMT DEF PoolCount
  <2> QED
    BY <2>2, <2>3, SMT
<1>3. ~(N + 1 < next)
  <2> SUFFICES ASSUME N + 1 < next PROVE FALSE
    OBVIOUS
  <2>1. N + 1 \in 1 .. next - 1 /\ N + 1 \notin 1 .. N
    BY <1>1, SMT
  <2> QED
    BY <1>1, <2>1 DEF PoolInv
<1> QED
  BY <1>1, <1>2, <1>3, SMT

-----------------------------------------------------------------------------
(* The filter has turned the indices up to p: what it keeps of them comes  *)
(* last.                                                                   *)
Filtering(r, q, p) ==
  /\ p \in Nat /\ turn \in Nat /\ limit = turn + Len(r) /\ fieldCPIs = r \o q
  /\ Enumerates(r, {s \in AllRefs : p < s})
  /\ Enumerates(q, {s \in KeptSlots : s <= p})

(* The first n fields are bound, each to its own number of q. *)
BoundTo(vars_1, q, fs) ==
  /\ DOMAIN vars_1 = {q[f] : f \in fs}
  /\ \A f \in fs : vars_1[q[f]] = image.fields[f].name

StaticUpTo(n) == {f \in 1 .. n : image.fields[f].static}
InstanceUpTo(n) == {f \in 1 .. n : ~image.fields[f].static}

BoundUpTo(q, n) ==
  BoundTo(staticVars, q, StaticUpTo(n)) /\ BoundTo(instanceVars, q, InstanceUpTo(n))

Binding(q) ==
  /\ turn \in 1 .. Len(image.fields) + 1
  /\ fieldCPIs \in Seq(Nat) /\ Len(fieldCPIs) = Len(q) - (turn - 1)
  /\ \A j \in 1 .. Len(fieldCPIs) : fieldCPIs[j] = q[j + (turn - 1)]
  /\ BoundUpTo(q, turn - 1)

EnoughRefs(q) == Enumerates(q, KeptSlots) /\ Len(image.fields) <= Len(q)

(***************************************************************************)
(* The indices collected are in the order of the file throughout, and a    *)
(* class with enough of them binds field for field.                        *)
(***************************************************************************)
BindInv ==
  /\ stage \in {"start", "noClass", "pool", "filter"} => staticVars = <<>> /\ instanceVars = <<>>
  /\ stage = "noClass" => ~image.magic
  /\ stage \in {"start", "pool"} => Enumerates(fieldCPIs, RefsBelow(next))
  /\ stage = "filter" => next = Len(image.pool) + 1 /\ \E r, q, p : Filtering(r, q, p)
  /\ stage = "fields" => \E q : Enumerates(q, KeptSlots) /\ (EnoughRefs(q) => Binding(q))
  /\ FieldsRead =>
       \E q : Enumerates(q, KeptSlots) /\ (EnoughRefs(q) => BoundUpTo(q, Len(image.fields)))

LEMMA BindInvInit == Init => BindInv
<1> SUFFICES ASSUME Init PROVE BindInv
  OBVIOUS
<1>1. /\ stage = "start" /\ next = 1 /\ fieldCPIs = <<>>
      /\ staticVars = <<>> /\ instanceVars = <<>>
  BY DEF Init, ParserInit
<1>2. RefsBelow(next) = {} /\ Len(fieldCPIs) = 0 /\ fieldCPIs \in Seq(Nat)
  BY <1>1, SMT DEF RefsBelow
<1>3. Enumerates(fieldCPIs, RefsBelow(next))
  BY <1>2, EnumerateNone
<1> QED
  BY <1>1, <1>3 DEF BindInv, FieldsRead

LEMMA ReadEntryBinds ==
  ASSUME BindInv, PoolInv, ReadEntry
  PROVE  BindInv'
<1>1. /\ stage = "pool" /\ stage' = "pool" /\ image' = image /\ next' = next + 1
      /\ staticVars' = staticVars /\ instanceVars' = instanceVars
      /\ Entry.tag # "unknown"
      /\ fieldCPIs' = IF Entry.tag = "Fieldref" THEN Append(fieldCPIs, slot) ELSE fieldCPIs
  BY DEF ReadEntry
<1>2. /\ next \in DOMAIN image.pool /\ Entry = image.pool[next]
      /\ slot = SlotOf(image, next) /\ next \in Nat \ {0}
  BY <1>1 DEF Entry, PoolInv
<1>3. Enumerates(fieldCPIs, RefsBelow(next))
  BY <1>1 DEF BindInv
<1>4. \A i : i \in 1 .. (next + 1) - 1 <=> i \in 1 .. next - 1 \/ i = next
  BY <1>2, SMT
<1>5. RefsBelow(next + 1) = IF Entry.tag = "Fieldref" THEN RefsBelow(next) \cup {slot} ELSE RefsBelow(next)
  BY <1>2, <1>4 DEF RefsBelow
<1>6. slot \in Nat /\ \A s \in RefsBelow(next) : s < slot
  <2>1. slot \in Nat
    BY <1>2, SlotsDiffer DEF PoolInv
  <2>2. ASSUME NEW s \in RefsBelow(next) PROVE s < slot
    <3>1. PICK i \in 1 .. next - 1 : s = SlotOf(image, i)
      BY DEF RefsBelow
    <3> QED
      BY <1>2, <3>1, SlotsAscend
  <2> QED
    BY <2>1, <2>2
<1>7. Enumerates(fieldCPIs', RefsBelow(next + 1))
  BY <1>1, <1>3, <1>5, <1>6, EnumerateMore
<1>8. RefsBelow(next)' = RefsBelow(next + 1)
  BY <1>1 DEF RefsBelow
<1> QED
  BY <1>1, <1>7, <1>8 DEF BindInv, FieldsRead

LEMMA EndPoolBinds ==
  ASSUME BindInv, PoolInv, EndPool
  PROVE  BindInv'
<1>1. /\ stage = "pool" /\ stage' = "filter" /\ image' = image /\ next' = next
      /\ staticVars' = staticVars /\ instanceVars' = instanceVars
      /\ turn' = 0 /\ limit' = Len(fieldCPIs) /\ fieldCPIs' = fieldCPIs
  BY DEF EndPool
<1>2. next = Len(image.pool) + 1
  BY AllRead DEF EndPool
<1>3. Enumerates(fieldCPIs, AllRefs)
  BY <1>1, <1>2 DEF BindInv, AllRefs
<1>4. image \in Images
  BY DEF PoolInv
<1>5. \A s \in AllRefs : s \in Nat /\ 0 < s
  <2> SUFFICES ASSUME NEW s \in AllRefs PROVE s \in Nat /\ 0 < s
    OBVIOUS
  <2>1. PICK n \in DOMAIN image.pool : s = SlotOf(image, n)
    BY <1>4, RefsAre
  <2>2. n \in Nat /\ n >= 1
    BY <1>4, <2>1, SlotsDiffer, SMT
  <2> QED
    BY <2>1, <2>2, WidesFinite, SMT
<1>6. {s \in AllRefs : 0 < s} = AllRefs /\ {s \in KeptSlots : s <= 0} = {}
  <2>1. ASSUME NEW s \in KeptSlots PROVE ~(s <= 0)
    <3>1. s \in Nat /\ 0 < s
      BY <1>4, <1>5, RefsAre
    <3> QED
      BY <3>1, SMT
  <2> QED
    BY <1>5, <2>1
<1>7. /\ Enumerates(<<>>, {s \in KeptSlots : s <= 0})
      /\ Enumerates(fieldCPIs, {s \in AllRefs : 0 < s})
  <2>1. <<>> \in Seq(Nat) /\ Len(<<>>) = 0
    BY SMT
  <2> QED
    BY <1>3, <1>6, <2>1, EnumerateNone
<1>8. fieldCPIs' = fieldCPIs \o <<>> /\ limit' = turn' + Len(fieldCPIs)
  <2>1. fieldCPIs \in Seq(Nat) /\ Len(fieldCPIs) \in Nat
    BY <1>3, SMT DEF Enumerates
  <2> QED
    BY <1>1, <2>1, SMT
<1>9. AllRefs' = AllRefs /\ KeptSlots' = KeptSlots
  BY <1>1 DEF AllRefs, RefsBelow, KeptSlots, Kept
<1>10. Filtering(fieldCPIs, <<>>, 0)'
  BY <1>1, <1>7, <1>8, <1>9 DEF Filtering
<1>11. \E r, q, p : Filtering(r, q, p)'
  BY <1>10
<1> QED
  BY <1>1, <1>2, <1>11 DEF BindInv, FieldsRead

LEMMA ConcatNumbers ==
  \A r, q, s \in Seq(Nat) : (r \o q) \o s = r \o (q \o s)
<1> SUFFICES ASSUME NEW r \in Seq(Nat), NEW q \in Seq(Nat), NEW s \in Seq(Nat)
    PROVE  (r \o q) \o s = r \o (q \o s)
  OBVIOUS
<1> DEFINE a == (r \o q) \o s
           b == r \o (q \o s)
<1>1. a \in Seq(Nat) /\ b \in Seq(Nat) /\ Len(a) = Len(b)
  BY SMT
<1>2. \A i \in 1 .. Len(a) : a[i] = b[i]
  BY SMT
<1> HIDE DEF a, b
<1>3. a = b
  BY <1>1, <1>2, SeqEqual
<1> QED
  BY <1>3 DEF a, b

LEMMA ConcatRest ==
  ASSUME NEW r \in Seq(Nat), NEW q \in Seq(Nat), Len(r) # 0
  PROVE  /\ Tail(r) \in Seq(Nat) /\ Head(r \o q) = Head(r)
         /\ Tail(r \o q) = Tail(r) \o q
<1> DEFINE t == Tail(r)
           a == Tail(r \o q)
           b == t \o q
<1>1. Len(r) \in Nat /\ Len(q) \in Nat /\ 1 \in 1 .. Len(r)
  BY SMT
<1>2. t \in Seq(Nat) /\ Len(t) = Len(r) - 1 /\ \A i \in 1 .. Len(t) : t[i] = r[i + 1]
  BY <1>1, SMT
<1>3. /\ r \o q \in Seq(Nat) /\ Len(r \o q) = Len(r) + Len(q)
      /\ \A i \in 1 .. Len(r) : (r \o q)[i] = r[i]
      /\ \A i \in 1 .. Len(q) : (r \o q)[Len(r) + i] = q[i]
  BY <1>1, SMT
<1>4. Head(r \o q) = Head(r)
  <2>1. Head(r \o q) = (r \o q)[1] /\ Head(r) = r[1]
    BY <1>1, <1>3, SMT
  <2> QED
    BY <1>1, <1>3, <2>1
<1>5. /\ a \in Seq(Nat) /\ Len(a) = Len(r \o q) - 1
      /\ \A i \in 1 .. Len(a) : a[i] = (r \o q)[i + 1]
  <2> DEFINE w == r \o q
  <2>1. w \in Seq(Nat) /\ Len(w) # 0
    BY <1>1, <1>3, SMT
  <2>2. a = Tail(w)
    OBVIOUS
  <2> HIDE DEF w, a
  <2>3. a \in Seq(Nat) /\ Len(a) = Len(w) - 1 /\ \A i \in 1 .. Len(a) : a[i] = w[i + 1]
    BY <2>1, <2>2, SMT
  <2> QED
    BY <2>3 DEF w
<1> HIDE DEF t, a
<1>6. /\ b \in Seq(Nat) /\ Len(b) = Len(t) + Len(q)
      /\ \A i \in 1 .. Len(t) : b[i] = t[i]
      /\ \A i \in 1 .. Len(q) : b[Len(t) + i] = q[i]
  <2>1. t \in Seq(Nat)
    BY <1>2
  <2> QED
    BY <2>1, SMT
<1> HIDE DEF b
<1>7. Len(a) = Len(b) /\ Len(t) \in Nat
  BY <1>1, <1>2, <1>3, <1>5, <1>6, SMT
<1>8. ASSUME NEW i \in 1 .. Len(a) PROVE a[i] = b[i]
  <2>1. a[i] = (r \o q)[i + 1] /\ i \in Nat
    <3>1. Len(a) \in Nat
      BY <1>1, <1>3, <1>5, SMT
    <3>2. i \in Nat
      BY <3>1, SMT
    <3> QED
      BY <1>5, <3>2
  <2>2. CASE i <= Len(t)
    <3>1. i \in 1 .. Len(t) /\ i + 1 \in 1 .. Len(r)
      BY <1>1, <1>2, <1>7, <2>1, <2>2, SMT
    <3> QED
      BY <1>2, <1>3, <1>6, <2>1, <3>1
  <2>3. CASE i > Len(t)
    <3> DEFINE j == i - Len(t)
    <3>1. j \in 1 .. Len(q) /\ i + 1 = Len(r) + j /\ i = Len(t) + j
      BY <1>1, <1>2, <1>3, <1>5, <1>7, <2>1, <2>3, SMT
    <3> HIDE DEF j
    <3> QED
      BY <1>3, <1>6, <2>1, <3>1
  <2>4. i <= Len(t) \/ i > Len(t)
    BY <1>7, <2>1, SMT
  <2> QED
    BY <2>2, <2>3, <2>4
<1>9. a = b
  BY <1>5, <1>6, <1>7, <1>8, SeqEqual
<1> QED
  BY <1>2, <1>4, <1>9 DEF a, b, t

LEMMA FilterOneBinds ==
  ASSUME BindInv, PoolInv, FilterOne
  PROVE  BindInv'
<1>1. /\ stage = "filter" /\ stage' = "filter" /\ image' = image /\ next' = next
      /\ staticVars' = staticVars /\ instanceVars' = instanceVars
      /\ turn' = turn + 1 /\ limit' = limit /\ turn < limit
  BY DEF FilterOne, MoreToFilter
<1>2. image \in Images /\ next = Len(image.pool) + 1
  BY <1>1 DEF PoolInv, BindInv
<1>3. PICK r, q, p : Filtering(r, q, p)
  BY <1>1 DEF BindInv
<1> DEFINE h == Head(r)
           t == Tail(r)
           back == IF pool[h].class = "java" THEN <<>> ELSE <<h>>
           kept == {s \in KeptSlots : s <= p}
<1>4. /\ p \in Nat /\ turn \in Nat /\ limit = turn + Len(r) /\ fieldCPIs = r \o q
      /\ Enumerates(r, {s \in AllRefs : p < s}) /\ Enumerates(q, kept)
  BY <1>3 DEF Filtering
<1>5. r \in Seq(Nat) /\ q \in Seq(Nat) /\ Len(r) \in Nat /\ Len(r) # 0 /\ Len(q) \in Nat
  <2>1. r \in Seq(Nat) /\ q \in Seq(Nat)
    BY <1>4 DEF Enumerates
  <2> QED
    BY <1>1, <1>4, <2>1, SMT
<1>6. /\ h \in AllRefs /\ p < h /\ h \in Nat
      /\ \A s \in AllRefs : p < s => s = h \/ h < s
      /\ Len(t) = Len(r) - 1
      /\ Enumerates(t, {s \in {x \in AllRefs : p < x} : h < s})
  <2> DEFINE rest == {x \in AllRefs : p < x}
  <2>1. Enumerates(r, rest)
    BY <1>4
  <2>2. \A x : x \in rest <=> x \in AllRefs /\ p < x
    OBVIOUS
  <2> HIDE DEF rest
  <2>3. /\ h \in rest /\ \A s \in rest : s = h \/ h < s
        /\ Len(t) = Len(r) - 1
        /\ Enumerates(t, {s \in rest : h < s})
    BY <1>5, <2>1, EnumerateRest
  <2>4. h \in Nat
    BY <1>2, <2>2, <2>3, RefsAre
  <2> QED
    BY <2>2, <2>3, <2>4 DEF rest
<1>7. t \in Seq(Nat) /\ Head(fieldCPIs) = h /\ Tail(fieldCPIs) = t \o q
  BY <1>4, <1>5, ConcatRest
<1>8. fieldCPIs' = t \o (q \o back)
  <2>1. fieldCPIs' = Tail(fieldCPIs) \o back
    BY <1>7 DEF FilterOne
  <2>2. back \in Seq(Nat)
    BY <1>6, SMT
  <2> HIDE DEF back, t
  <2>3. (t \o q) \o back = t \o (q \o back)
    BY <1>5, <1>7, <2>2, ConcatNumbers
  <2> QED
    BY <1>7, <2>1, <2>3
<1>9. PICK n \in DOMAIN image.pool : h = SlotOf(image, n) /\ image.pool[n].tag = "Fieldref"
  BY <1>2, <1>6, RefsAre
<1>10. pool[h] = image.pool[n]
  <2>1. n \in 1 .. next - 1
    BY <1>2, SlotsDiffer, SMT
  <2> QED
    BY <1>9, <2>1 DEF PoolInv
<1>11. h \in KeptSlots <=> pool[h].class # "java"
  <2>1. h \in KeptSlots <=> n \in Kept
    BY <1>2, <1>9, RefsAre
  <2> QED
    BY <1>9, <1>10, <2>1 DEF Kept
<1>12. {s \in {x \in AllRefs : p < x} : h < s} = {s \in AllRefs : h < s}
  <2>1. ASSUME NEW s \in AllRefs, h < s PROVE p < s
    <3>1. s \in Nat
      BY <1>2, RefsAre
    <3> QED
      BY <1>4, <1>6, <2>1, <3>1, SMT
  <2> QED
    BY <2>1
<1>13. ASSUME NEW s \in KeptSlots
       PROVE  s <= h <=> s <= p \/ s = h
  <2>1. s \in AllRefs /\ s \in Nat
    BY <1>2, RefsAre
  <2>2. p < s => s = h \/ h < s
    BY <1>6, <2>1
  <2> QED
    BY <1>4, <1>6, <2>1, <2>2, SMT
<1>14. Enumerates(q \o back, {s \in KeptSlots : s <= h})
  <2>1. CASE pool[h].class = "java"
    <3>1. {s \in KeptSlots : s <= h} = kept
      BY <1>11, <1>13, <2>1
    <3>2. q \o back = q
      BY <1>5, <2>1, SMT
    <3> HIDE DEF kept
    <3> QED
      BY <1>4, <3>1, <3>2
  <2>2. CASE pool[h].class # "java"
    <3>1. {s \in KeptSlots : s <= h} = kept \cup {h}
      <4>1. h \in KeptSlots
        BY <1>11, <2>2
      <4> QED
        BY <1>13, <4>1
    <3>2. q \o back = Append(q, h)
      <4>1. back = <<h>>
        BY <2>2
      <4> HIDE DEF back, h
      <4> QED
        BY <1>5, <1>6, <4>1, SMT
    <3>3. \A s \in kept : s < h
      <4> SUFFICES ASSUME NEW s \in kept PROVE s < h
        OBVIOUS
      <4>1. s \in Nat /\ s <= p
        BY <1>2, RefsAre
      <4> QED
        BY <1>4, <1>6, <4>1, SMT
    <3>4. Enumerates(q, kept) /\ h \in Nat
      BY <1>4, <1>6
    <3> HIDE DEF kept, h
    <3>5. Enumerates(Append(q, h), kept \cup {h})
      BY <3>3, <3>4, EnumerateMore
    <3> QED
      BY <3>1, <3>2, <3>5
  <2> QED
    BY <2>1, <2>2
<1>15. limit' = turn' + Len(t) /\ turn' \in Nat
  BY <1>1, <1>4, <1>5, <1>6, SMT
<1>16. AllRefs' = AllRefs /\ KeptSlots' = KeptSlots
  BY <1>1 DEF AllRefs, RefsBelow, KeptSlots, Kept
<1>17. \E r_1, q_1, p_1 : Filtering(r_1, q_1, p_1)'
  <2> SUFFICES ASSUME NEW a, NEW b, NEW c, a = t, b = q \o back, c = h
      PROVE  Filtering(a, b, c)'
    OBVIOUS
  <2> HIDE DEF t, h, back
  <2> QED
    BY <1>6, <1>8, <1>12, <1>14, <1>15, <1>16 DEF Filtering
<1> QED
  BY <1>1, <1>2, <1>17 DEF BindInv, FieldsRead

LEMMA EndFilterBinds ==
  ASSUME BindInv, PoolInv, EndFilter
  PROVE  BindInv'
<1>1. /\ stage = "filter" /\ stage' = "fields" /\ image' = image /\ fieldCPIs' = fieldCPIs
      /\ staticVars' = staticVars /\ instanceVars' = instanceVars
      /\ turn' = 1 /\ ~(turn < limit)
  BY DEF EndFilter, MoreToFilter
<1>2. image \in Images /\ staticVars = <<>> /\ instanceVars = <<>>
  BY <1>1 DEF PoolInv, BindInv
<1>3. PICK r, q, p : Filtering(r, q, p)
  BY <1>1 DEF BindInv
<1>4. /\ turn \in Nat /\ limit = turn + Len(r) /\ fieldCPIs = r \o q /\ p \in Nat
      /\ Enumerates(r, {s \in AllRefs : p < s}) /\ Enumerates(q, {s \in KeptSlots : s <= p})
      /\ r \in Seq(Nat) /\ q \in Seq(Nat)
  BY <1>3 DEF Filtering, Enumerates
<1>5. Len(r) = 0 /\ fieldCPIs = q
  <2>1. Len(r) = 0
    BY <1>1, <1>4, SMT
  <2> QED
    BY <1>4, <2>1, SMT
<1>6. {s \in KeptSlots : s <= p} = KeptSlots
  <2>1. ASSUME NEW s \in KeptSlots PROVE s <= p
    <3>1. s \in AllRefs /\ s \in Nat
      BY <1>2, RefsAre
    <3>2. ~(p < s)
      <4> SUFFICES ASSUME p < s PROVE FALSE
        OBVIOUS
      <4>1. PICK j \in 1 .. Len(r) : r[j] = s
        BY <1>4, <3>1 DEF Enumerates
      <4> QED
        BY <1>5, <4>1, SMT
    <3> QED
      BY <1>4, <3>1, <3>2, SMT
  <2> QED
    BY <2>1
<1>7. Enumerates(q, KeptSlots)
  BY <1>4, <1>6
<1>8. ASSUME Len(image.fields) <= Len(q)
      PROVE  Binding(q)'
  <2>1. turn' \in 1 .. Len(image.fields) + 1
    BY <1>1, <1>2, PoolAssumption, SMT
  <2>2. /\ Len(fieldCPIs') = Len(q) - (turn' - 1)
        /\ \A j \in 1 .. Len(fieldCPIs') : fieldCPIs'[j] = q[j + (turn' - 1)]
    BY <1>1, <1>4, <1>5, SMT
  <2>3. BoundUpTo(q, turn - 1)'
    <3>1. 1 .. turn' - 1 = {}
      BY <1>1, SMT
    <3>2. StaticUpTo(turn - 1)' = {} /\ InstanceUpTo(turn - 1)' = {}
      BY <3>1 DEF StaticUpTo, InstanceUpTo
    <3>3. DOMAIN staticVars' = {} /\ DOMAIN instanceVars' = {}
      BY <1>1, <1>2, SMT
    <3> QED
      BY <3>2, <3>3 DEF BoundUpTo, BoundTo
  <2> QED
    BY <1>1, <1>4, <1>5, <2>1, <2>2, <2>3 DEF Binding
<1>9. KeptSlots' = KeptSlots
  BY <1>1 DEF KeptSlots, Kept
<1> QED
  BY <1>1, <1>7, <1>8, <1>9 DEF BindInv, EnoughRefs, FieldsRead

LEMMA BindMore ==
  ASSUME NEW vars_1, NEW q, NEW fs, BoundTo(vars_1, q, fs), NEW n,
         \A f \in fs : q[f] # q[n]
  PROVE  BoundTo(Bind(vars_1, q[n], image.fields[n].name), q, fs \cup {n})
<1> DEFINE b == Bind(vars_1, q[n], image.fields[n].name)
<1>1. DOMAIN b = DOMAIN vars_1 \cup {q[n]}
  BY DEF Bind
<1>2. /\ b[q[n]] = image.fields[n].name
      /\ \A i \in DOMAIN vars_1 : i # q[n] => b[i] = vars_1[i]
  BY DEF Bind
<1> HIDE DEF b
<1>3. DOMAIN b = {q[f] : f \in fs \cup {n}}
  BY <1>1 DEF BoundTo
<1>4. \A f \in fs \cup {n} : b[q[f]] = image.fields[f].name
  BY <1>2 DEF BoundTo
<1> QED
  BY <1>3, <1>4 DEF BoundTo, b

LEMMA ReadFieldBinds ==
  ASSUME BindInv, PoolInv, ReadField
  PROVE  BindInv'
<1> DEFINE field == image.fields[turn]
<1>1. /\ stage = "fields" /\ stage' = "fields" /\ image' = image /\ turn' = turn + 1
      /\ turn <= Len(image.fields)
      /\ fieldCPIs' = IF fieldCPIs = <<>> THEN <<>> ELSE Tail(fieldCPIs)
      /\ field.static =>
           /\ staticVars' = Bind(staticVars, FrontIndex, field.name)
           /\ instanceVars' = instanceVars
      /\ ~field.static =>
           /\ instanceVars' = Bind(instanceVars, FrontIndex, field.name)
           /\ staticVars' = staticVars
  BY DEF ReadField
<1>2. PICK q : Enumerates(q, KeptSlots) /\ (EnoughRefs(q) => Binding(q))
  BY <1>1 DEF BindInv
<1>3. KeptSlots' = KeptSlots
  BY <1>1 DEF KeptSlots, Kept
<1>4. ASSUME EnoughRefs(q)
      PROVE  Binding(q)'
  <2>1. /\ turn \in 1 .. Len(image.fields) + 1 /\ fieldCPIs \in Seq(Nat)
        /\ Len(fieldCPIs) = Len(q) - (turn - 1)
        /\ \A j \in 1 .. Len(fieldCPIs) : fieldCPIs[j] = q[j + (turn - 1)]
        /\ BoundUpTo(q, turn - 1)
    BY <1>2, <1>4 DEF Binding
  <2>2. Len(image.fields) \in Nat /\ q \in Seq(Nat) /\ Len(q) \in Nat /\ Len(image.fields) <= Len(q)
    <3>1. q \in Seq(Nat)
      BY <1>2 DEF Enumerates
    <3> QED
      BY <1>4, <3>1, PoolAssumption, SMT DEF PoolInv, EnoughRefs
  <2>3. /\ turn \in Nat /\ turn >= 1 /\ turn \in 1 .. Len(q) /\ Len(fieldCPIs) # 0
        /\ turn' \in 1 .. Len(image.fields) + 1
    <3>1. /\ turn' = turn + 1 /\ turn <= Len(image.fields) /\ turn \in 1 .. Len(image.fields) + 1
          /\ Len(fieldCPIs) = Len(q) - (turn - 1)
      BY <1>1, <2>1
    <3> QED
      BY <2>2, <3>1, SMT
  <2>4. fieldCPIs # <<>> /\ 1 \in 1 .. Len(fieldCPIs)
    BY <2>1, <2>2, <2>3, SMT
  <2>5. FrontIndex = q[turn]
    <3>1. FrontIndex = fieldCPIs[1]
      BY <2>1, <2>4, SMT DEF FrontIndex
    <3>2. 1 + (turn - 1) = turn
      BY <2>3, SMT
    <3> QED
      BY <2>1, <2>4, <3>1, <3>2
  <2>6. /\ fieldCPIs' \in Seq(Nat) /\ Len(fieldCPIs') = Len(q) - (turn' - 1)
        /\ \A j \in 1 .. Len(fieldCPIs') : fieldCPIs'[j] = q[j + (turn' - 1)]
    <3>1. /\ fieldCPIs' \in Seq(Nat) /\ Len(fieldCPIs') = Len(fieldCPIs) - 1
          /\ \A j \in 1 .. Len(fieldCPIs') : fieldCPIs'[j] = fieldCPIs[j + 1]
      BY <1>1, <2>1, <2>4, SMT
    <3>2. ASSUME NEW j \in 1 .. Len(fieldCPIs')
          PROVE  fieldCPIs'[j] = q[j + (turn' - 1)]
      <4>1. j + 1 \in 1 .. Len(fieldCPIs) /\ (j + 1) + (turn - 1) = j + (turn' - 1)
        BY <1>1, <2>1, <2>2, <2>3, <3>1, SMT
      <4> QED
        BY <2>1, <3>1, <4>1
    <3>3. Len(fieldCPIs') = Len(q) - (turn' - 1)
      BY <1>1, <2>1, <2>2, <2>3, <3>1, SMT
    <3> QED
      BY <3>1, <3>2, <3>3
  <2>7. \A f : f \in 1 .. turn' - 1 <=> f \in 1 .. turn - 1 \/ f = turn
    BY <1>1, <2>3, SMT
  <2>8. ASSUME NEW f \in 1 .. turn - 1 PROVE q[f] # q[turn]
    <3>1. f \in 1 .. Len(q) /\ f < turn
      BY <2>2, <2>3, SMT
    <3>2. q[f] < q[turn] /\ q[f] \in Nat
      BY <1>2, <2>3, <3>1 DEF Enumerates
    <3> QED
      BY <3>2, SMT
  <2>9. BoundUpTo(q, turn - 1)'
    <3>1. /\ StaticUpTo(turn - 1) \subseteq 1 .. turn - 1
          /\ InstanceUpTo(turn - 1) \subseteq 1 .. turn - 1
      BY DEF StaticUpTo, InstanceUpTo
    <3>2. CASE field.static
      <4>1. /\ StaticUpTo(turn - 1)' = StaticUpTo(turn - 1) \cup {turn}
            /\ InstanceUpTo(turn - 1)' = InstanceUpTo(turn - 1)
        BY <1>1, <2>7, <3>2 DEF StaticUpTo, InstanceUpTo
      <4>2. BoundTo(Bind(staticVars, q[turn], field.name), q, StaticUpTo(turn - 1) \cup {turn})
        BY <2>1, <2>8, <3>1, BindMore DEF BoundUpTo
      <4> QED
        BY <1>1, <2>1, <2>5, <3>2, <4>1, <4>2 DEF BoundUpTo, BoundTo
    <3>3. CASE ~field.static
      <4>1. /\ StaticUpTo(turn - 1)' = StaticUpTo(turn - 1)
            /\ InstanceUpTo(turn - 1)' = InstanceUpTo(turn - 1) \cup {turn}
        BY <1>1, <2>7, <3>3 DEF StaticUpTo, InstanceUpTo
      <4>2. BoundTo(Bind(instanceVars, q[turn], field.name), q, InstanceUpTo(turn - 1) \cup {turn})
        BY <2>1, <2>8, <3>1, BindMore DEF BoundUpTo
      <4> QED
        BY <1>1, <2>1, <2>5, <3>3, <4>1, <4>2 DEF BoundUpTo, BoundTo
    <3> QED
      BY <3>2, <3>3
  <2> QED
    BY <1>1, <2>3, <2>6, <2>9 DEF Binding
<1>5. EnoughRefs(q)' <=> EnoughRefs(q)
  BY <1>1, <1>3 DEF EnoughRefs
<1>6. \E q_1 : Enumerates(q_1, KeptSlots') /\ (EnoughRefs(q_1)' => Binding(q_1)')
  BY <1>2, <1>3, <1>4, <1>5
<1> QED
  BY <1>1, <1>6 DEF BindInv, FieldsRead

LEMMA EndFieldsBinds ==
  ASSUME BindInv, PoolInv, EndFields
  PROVE  BindInv'
<1>1. /\ stage = "fields" /\ stage' = "parsed" /\ image' = image /\ turn > Len(image.fields)
      /\ staticVars' = staticVars /\ instanceVars' = instanceVars
  BY DEF EndFields
<1>2. PICK q : Enumerates(q, KeptSlots) /\ (EnoughRefs(q) => Binding(q))
  BY <1>1 DEF BindInv
<1>3. KeptSlots' = KeptSlots
  BY <1>1 DEF KeptSlots, Kept
<1>4. ASSUME EnoughRefs(q)
      PROVE  BoundUpTo(q, Len(image.fields))'
  <2>1. turn \in 1 .. Len(image.fields) + 1 /\ BoundUpTo(q, turn - 1)
    BY <1>2, <1>4 DEF Binding
  <2>2. turn - 1 = Len(image.fields)
    BY <1>1, <2>1, PoolAssumption, SMT DEF PoolInv
  <2> QED
    BY <1>1, <2>1, <2>2 DEF BoundUpTo, BoundTo, StaticUpTo, InstanceUpTo
<1>5. EnoughRefs(q)' <=> EnoughRefs(q)
  BY <1>1, <1>3 DEF EnoughRefs
<1>6. \E q_1 : Enumerates(q_1, KeptSlots')
               /\ (EnoughRefs(q_1)' => BoundUpTo(q_1, Len(image.fields))')
  BY <1>2, <1>3, <1>4, <1>5
<1> QED
  BY <1>1, <1>6 DEF BindInv

(* What comes behind the parser leaves the class as it is. *)
LEMMA FieldsStay ==
  ASSUME BindInv, UNCHANGED <<image, staticVars, instanceVars>>,
         FieldsRead' => FieldsRead,
         stage' \notin {"start", "pool", "filter", "fields"},
         stage' = "noClass" => ~image.magic /\ staticVars = <<>> /\ instanceVars = <<>>
  PROVE  BindInv'
<1>1. KeptSlots' = KeptSlots
  BY DEF KeptSlots, Kept
<1>2. ASSUME FieldsRead'
      PROVE  \E q : Enumerates(q, KeptSlots') /\ (EnoughRefs(q)' => BoundUpTo(q, Len(image.fields))')
  <2>1. PICK q : Enumerates(q, KeptSlots) /\ (EnoughRefs(q) => BoundUpTo(q, Len(image.fields)))
    BY <1>2 DEF BindInv
  <2>2. EnoughRefs(q)' <=> EnoughRefs(q)
    BY <1>1 DEF EnoughRefs
  <2>3. BoundUpTo(q, Len(image.fields))' <=> BoundUpTo(q, Len(image.fields))
    BY DEF BoundUpTo, BoundTo, StaticUpTo, InstanceUpTo
  <2> QED
    BY <1>1, <2>1, <2>2, <2>3
<1> QED
  BY <1>2 DEF BindInv

LEMMA BindInvStep ==
  ASSUME BindInv, PoolInv, Next
  PROVE  BindInv'
<1>1. CASE ParseStep
  <2>1. CASE NotAClass
    <3>1. /\ ~FieldsRead' /\ stage' = "noClass" /\ ~image.magic /\ stage = "start"
          /\ UNCHANGED <<image, staticVars, instanceVars>>
      BY <2>1 DEF NotAClass, FieldsRead
    <3> QED
      BY <3>1, FieldsStay DEF BindInv
  <2>2. CASE Open
    <3>1. /\ stage = "start" /\ stage' = "pool"
          /\ UNCHANGED <<image, next, fieldCPIs, staticVars, instanceVars>>
      BY <2>2 DEF Open
    <3>2. RefsBelow(next)' = RefsBelow(next)
      BY <3>1 DEF RefsBelow
    <3> QED
      BY <3>1, <3>2 DEF BindInv, FieldsRead
  <2>3. CASE TagNotFound
    <3>1. /\ stage' = "exited" /\ ~FieldsRead'
          /\ UNCHANGED <<image, staticVars, instanceVars>>
      BY <2>3 DEF TagNotFound, FieldsRead
    <3> QED
      BY <3>1, FieldsStay
  <2> QED
    BY <1>1, <2>1, <2>2, <2>3, ReadEntryBinds, EndPoolBinds, FilterOneBinds, EndFilterBinds,
       ReadFieldBinds, EndFieldsBinds DEF ParseStep, Parse
<1>2. CASE CompileNoClass
  <2>1. /\ stage = "noClass" /\ stage' = "crashed"
        /\ UNCHANGED <<image, staticVars, instanceVars>>
    BY <1>2 DEF CompileNoClass, Become
  <2>2. ~FieldsRead'
    BY <2>1 DEF BindInv, FieldsRead
  <2> QED
    BY <2>1, <2>2, FieldsStay
<1>3. ASSUME UNCHANGED <<image, staticVars, instanceVars>>,
             stage \notin {"start", "noClass", "exited", "pool", "filter", "fields"},
             stage' \notin {"start", "noClass", "exited", "pool", "filter", "fields"}
      PROVE  BindInv'
  <2>1. FieldsRead' => FieldsRead
    BY <1>3 DEF FieldsRead
  <2> QED
    BY <1>3, <2>1, FieldsStay
<1>4. CASE StartListing \/ EndListing \/ StartCodeGen \/ AssembleOverrun \/ EndCodeGen
  <2>1. /\ UNCHANGED <<image, staticVars, instanceVars>>
        /\ stage \in {"parsed", "listing", "listed", "codeGen"}
        /\ stage' \in {"listing", "listed", "codeGen", "astray", "clinit", "done"}
    BY <1>4 DEF StartListing, EndListing, StartCodeGen, AssembleOverrun, EndCodeGen, Translated,
       Compiling, Become
  <2> QED
    BY <1>3, <2>1
<1>5. CASE ListOne \/ ListNextMethod \/ SkipMethod \/ CodeGenOne \/ AssembleMethod
  <2>1. /\ UNCHANGED <<image, staticVars, instanceVars>>
        /\ stage \in {"listing", "codeGen"} /\ stage' = stage
    BY <1>5 DEF ListOne, ListNextMethod, Listing, SkipMethod, CodeGenOne, AssembleMethod,
       Translated, Compiling, parserVars
  <2> QED
    BY <1>3, <2>1
<1>6. CASE ListOperand
  <2>1. /\ UNCHANGED <<image, staticVars, instanceVars>>
        /\ stage = "listing" /\ stage' \in {"listing", "crashed"}
    BY <1>6 DEF ListOperand, AtOperand, Listing, Become, parserVars
  <2> QED
    BY <1>3, <2>1
<1>7. CASE RunClinit
  <2>1. /\ UNCHANGED <<image, staticVars, instanceVars>>
        /\ stage = "clinit" /\ stage' \in {"main", "crashed"}
    BY <1>7 DEF RunClinit, Call, Become
  <2> QED
    BY <1>3, <2>1
<1>8. CASE RunMain
  <2>1. /\ UNCHANGED <<image, staticVars, instanceVars>>
        /\ stage = "main" /\ stage' \in {"done", "crashed"}
    BY <1>8 DEF RunMain, Call, Become
  <2> QED
    BY <1>3, <2>1
<1> QED
  BY <1>1, <1>2, <1>4, <1>5, <1>6, <1>7, <1>8 DEF Next

(* One behind the other, KeptRefs are the Fieldrefs that are kept. *)
LEMMA KeptRefsAre ==
  ASSUME image \in Images, NEW q, Enumerates(q, KeptSlots)
  PROVE  /\ DOMAIN KeptRefs = 1 .. Len(q)
         /\ \A f \in 1 .. Len(q) : SlotOf(image, KeptRefs[f]) = q[f]
<1> DEFINE EntryAt(f) == CHOOSE n \in Kept : SlotOf(image, n) = q[f]
           r == [f \in 1 .. Len(q) |-> EntryAt(f)]
<1>1. Len(q) \in Nat /\ KeptSlots \subseteq Nat
  BY SMT DEF Enumerates
<1>2. Kept \subseteq DOMAIN image.pool /\ Kept \subseteq Nat
  <2>1. Kept \subseteq DOMAIN image.pool
    BY DEF Kept
  <2>2. DOMAIN image.pool \subseteq Nat
    BY SlotsDiffer, SMT
  <2> QED
    BY <2>1, <2>2
<1>3. \A i, j \in Kept : SlotOf(image, i) = SlotOf(image, j) => i = j
  BY <1>2, SlotsDiffer
<1>4. ASSUME NEW f \in 1 .. Len(q)
      PROVE  r[f] \in Kept /\ SlotOf(image, r[f]) = q[f]
  <2>1. \E n \in Kept : SlotOf(image, n) = q[f]
    BY DEF Enumerates, KeptSlots
  <2>2. EntryAt(f) \in Kept /\ SlotOf(image, EntryAt(f)) = q[f]
    BY <2>1
  <2> HIDE DEF EntryAt
  <2> QED
    BY <2>2
<1>5. \A n \in Kept : \E f \in 1 .. Len(q) : r[f] = n
  <2> SUFFICES ASSUME NEW n \in Kept PROVE \E f \in 1 .. Len(q) : r[f] = n
    OBVIOUS
  <2>1. PICK f \in 1 .. Len(q) : q[f] = SlotOf(image, n)
    BY DEF Enumerates, KeptSlots
  <2> QED
    BY <1>3, <1>4, <2>1
<1>6. DOMAIN r = 1 .. Len(q)
  OBVIOUS
<1> HIDE DEF r
<1>7. ASSUME NEW i \in 1 .. Len(q), NEW j \in 1 .. Len(q), i < j
      PROVE  r[i] < r[j]
  <2>1. q[i] < q[j] /\ q[i] \in Nat /\ q[j] \in Nat
    BY <1>7 DEF Enumerates
  <2>2. /\ r[i] \in Kept /\ r[j] \in Kept /\ r[i] \in Nat /\ r[j] \in Nat
        /\ SlotOf(image, r[i]) = q[i] /\ SlotOf(image, r[j]) = q[j]
    BY <1>2, <1>4
  <2>3. r[j] < r[i] => q[j] < q[i]
    BY <1>2, <2>2, SlotsDiffer
  <2>4. r[i] = r[j] => q[i] = q[j]
    BY <2>2
  <2> QED
    BY <2>1, <2>2, <2>3, <2>4, SMT
<1>8. Cardinality(Kept) = Len(q) /\ ExistsBijection(1 .. Len(q), Kept)
  <2>1. r \in [1 .. Len(q) -> Kept]
    <3>1. r = [f \in 1 .. Len(q) |-> r[f]]
      BY <1>6 DEF r
    <3> QED
      BY <1>4, <3>1
  <2>2. r \in Injection(1 .. Len(q), Kept)
    <3>1. ASSUME NEW i \in 1 .. Len(q), NEW j \in 1 .. Len(q), r[i] = r[j]
          PROVE  i = j
      <4>1. r[i] \in Nat /\ i \in Nat /\ j \in Nat
        BY <1>1, <1>2, <1>4, SMT
      <4>2. i < j => r[i] < r[j]
        BY <1>7
      <4>3. j < i => r[j] < r[i]
        BY <1>7
      <4> QED
        BY <3>1, <4>1, <4>2, <4>3, SMT
    <3> QED
      BY <2>1, <3>1 DEF Injection, IsInjective
  <2>3. r \in Bijection(1 .. Len(q), Kept)
    BY <1>5, <2>1, <2>2 DEF Bijection, Surjection
  <2> QED
    BY <1>1, <2>3, FS_CountingElements DEF ExistsBijection
<1>9. KeptRefs \in [1 .. Len(q) -> Kept] /\ Ascending(KeptRefs)
  <2>1. r \in [1 .. Len(q) -> Kept] /\ Ascending(r)
    <3>1. r = [f \in 1 .. Len(q) |-> r[f]]
      BY <1>6 DEF r
    <3> QED
      BY <1>4, <1>6, <1>7, <3>1 DEF Ascending
  <2> QED
    BY <1>8, <2>1 DEF KeptRefs
<1> DEFINE t == [f \in 1 .. Len(q) |-> SlotOf(image, KeptRefs[f])]
<1>10. \A f \in 1 .. Len(q) : KeptRefs[f] \in Kept /\ t[f] = SlotOf(image, KeptRefs[f])
  BY <1>9
<1>11. t \in Seq(Nat) /\ Len(t) = Len(q)
  <2>1. \A f \in 1 .. Len(q) : t[f] \in Nat
    BY <1>2, <1>10, SlotsDiffer
  <2>2. t \in [1 .. Len(q) -> Nat]
    BY <2>1
  <2> HIDE DEF t
  <2> QED
    BY <1>1, <2>2, SMT
<1>12. \A i, j \in 1 .. Len(q) : i < j => t[i] < t[j]
  <2> SUFFICES ASSUME NEW i \in 1 .. Len(q), NEW j \in 1 .. Len(q), i < j PROVE t[i] < t[j]
    OBVIOUS
  <2>1. KeptRefs[i] < KeptRefs[j]
    BY <1>9 DEF Ascending
  <2> QED
    BY <1>2, <1>10, <2>1, SlotsDiffer
<1>13. \A f \in 1 .. Len(q) : t[f] \in KeptSlots
  BY <1>10 DEF KeptSlots
<1> HIDE DEF t
<1>14. \A x \in KeptSlots : \E f \in 1 .. Len(q) : t[f] = x
  <2>1. KeptRefs \in Injection(1 .. Len(q), Kept)
    <3>1. ASSUME NEW i \in 1 .. Len(q), NEW j \in 1 .. Len(q), KeptRefs[i] = KeptRefs[j]
          PROVE  i = j
      <4>1. KeptRefs[i] \in Nat /\ i \in Nat /\ j \in Nat
        BY <1>1, <1>2, <1>10, SMT
      <4>2. /\ i < j => KeptRefs[i] < KeptRefs[j]
            /\ j < i => KeptRefs[j] < KeptRefs[i]
        BY <1>9 DEF Ascending
      <4> QED
        BY <3>1, <4>1, <4>2, SMT
    <3> QED
      BY <1>9, <3>1 DEF Injection, IsInjective
  <2>2. Cardinality(1 .. Len(q)) = Len(q)
    <3>1. 1 \in Int /\ Len(q) \in Int
      BY <1>1, SMT
    <3>2. Cardinality(1 .. Len(q)) = IF 1 > Len(q) THEN 0 ELSE Len(q) - 1 + 1
      BY <3>1, FS_Interval
    <3> QED
      BY <1>1, <3>2, SMT
  <2>3. IsFiniteSet(Kept)
    BY <1>1, <1>8, FS_NatBijection
  <2>4. KeptRefs \in Surjection(1 .. Len(q), Kept)
    BY <1>8, <2>1, <2>2, <2>3, FS_Injection
  <2>5. \A n \in Kept : \E f \in 1 .. Len(q) : KeptRefs[f] = n
    BY <2>4 DEF Surjection
  <2> QED
    BY <1>10, <2>5 DEF KeptSlots
<1>15. Enumerates(t, KeptSlots)
  BY <1>1, <1>11, <1>12, <1>13, <1>14 DEF Enumerates
<1>16. \A f \in 1 .. Len(q) : t[f] = q[f]
  BY <1>15, OneEnumeration
<1> QED
  BY <1>9, <1>10, <1>16

(***************************************************************************)
(* In a class that refers to its fields in the order it declares them, the *)
(* storage of each field, and no other, is found under its Fieldref, for   *)
(* every class file.                                                       *)
(***************************************************************************)
THEOREM FieldsAreBound == Spec => []FieldsBoundToTheirRefs
<1>1. ASSUME BindInv, PoolInv
      PROVE  FieldsBoundToTheirRefs
  <2> DEFINE N == Len(image.fields)
             Static == {f \in DOMAIN image.fields : image.fields[f].static}
             Index(f) == SlotOf(image, KeptRefs[f])
  <2> SUFFICES ASSUME FieldsRead, RefersInOrder
      PROVE  /\ DOMAIN staticVars = {Index(f) : f \in Static}
             /\ \A f \in Static : staticVars[Index(f)] = image.fields[f].name
             /\ DOMAIN instanceVars = {Index(f) : f \in DOMAIN image.fields \ Static}
             /\ \A f \in DOMAIN image.fields \ Static : instanceVars[Index(f)] = image.fields[f].name
    BY DEF FieldsBoundToTheirRefs
  <2>1. PICK q : Enumerates(q, KeptSlots) /\ (EnoughRefs(q) => BoundUpTo(q, N))
    BY <1>1 DEF BindInv
  <2>2. image \in Images /\ N \in Nat /\ DOMAIN image.fields = 1 .. N
    BY <1>1, PoolAssumption DEF PoolInv
  <2>3. /\ DOMAIN KeptRefs = 1 .. Len(q)
        /\ \A f \in 1 .. Len(q) : SlotOf(image, KeptRefs[f]) = q[f]
    BY <2>1, <2>2, KeptRefsAre
  <2>4. \A f \in 1 .. N : f \in 1 .. Len(q)
    BY <2>2, <2>3 DEF RefersInOrder
  <2>5. N <= Len(q)
    <3>1. Len(q) \in Nat
      BY <2>1, SMT DEF Enumerates
    <3>2. N # 0 => N \in 1 .. Len(q)
      BY <2>2, <2>4, SMT
    <3> QED
      BY <2>2, <3>1, <3>2, SMT
  <2>6. BoundUpTo(q, N)
    BY <2>1, <2>5 DEF EnoughRefs
  <2>7. \A f \in DOMAIN image.fields : Index(f) = q[f]
    BY <2>2, <2>3, <2>4
  <2>8. Static = StaticUpTo(N) /\ DOMAIN image.fields \ Static = InstanceUpTo(N)
    BY <2>2 DEF StaticUpTo, InstanceUpTo
  <2> QED
    BY <2>6, <2>7, <2>8 DEF BoundUpTo, BoundTo
<1>2. BindInv /\ PoolInv /\ [Next]_vars => BindInv'
  <2> SUFFICES ASSUME BindInv, PoolInv, UNCHANGED vars PROVE BindInv'
    BY BindInvStep
  <2>1. UNCHANGED parserVars
    BY DEF vars
  <2>2. /\ RefsBelow(next)' = RefsBelow(next) /\ KeptSlots' = KeptSlots /\ AllRefs' = AllRefs
        /\ Kept' = Kept
    BY <2>1 DEF parserVars, RefsBelow, KeptSlots, AllRefs, Kept
  <2>3. \A q : /\ EnoughRefs(q)' <=> EnoughRefs(q)
               /\ BoundUpTo(q, Len(image.fields))' <=> BoundUpTo(q, Len(image.fields))
               /\ Binding(q)' <=> Binding(q)
    BY <2>1, <2>2 DEF parserVars, EnoughRefs, BoundUpTo, BoundTo, StaticUpTo, InstanceUpTo, Binding
  <2>4. \A r, q, p : Filtering(r, q, p)' <=> Filtering(r, q, p)
    BY <2>1, <2>2 DEF parserVars, Filtering
  <2>5. FieldsRead' <=> FieldsRead
    BY <2>1 DEF parserVars, FieldsRead
  <2> QED
    BY <2>1, <2>2, <2>3, <2>4, <2>5 DEF parserVars, BindInv
<1>3. Init => PoolInv
  BY PoolInvInit
<1>4. PoolInv /\ [Next]_vars => PoolInv'
  BY PoolInvStep
<1> QED
  BY <1>1, <1>2, <1>3, <1>4, BindInvInit, PTL DEF Spec

=============================================================================
