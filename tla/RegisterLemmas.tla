--------------------------- MODULE RegisterLemmas ---------------------------
(***************************************************************************)
(* What pushes and pops do to a machine that holds at most as many         *)
(* operands as it has stack registers.                                     *)
(***************************************************************************)
EXTENDS Registers, TLAPS

Machine == [top : 0 .. MaxTop, reg : [Reg -> Content], frame : [Slot -> Content]]

(* What lies below the operands in the frame is the same in s and t. *)
SameFrame(s, t) == \A x \in 0 .. FrameJavaStack - 1 : t.frame[x] = s.frame[x]

LEMMA FrameAreas ==
  /\ FrameCalleeSaved = 6 /\ FrameLocalVars = 11
  /\ FrameJavaStack \in Nat /\ FrameJavaStack = 11 + MaxLocals
  /\ Slot = 0 .. FrameJavaStack + MaxTop
BY FrameAssumption, SMT
   DEF FrameCalleeSaved, FrameLocalVars, FrameJavaStack, NArgs, NRegs, Slot

LEMMA PopFew ==
  ASSUME MaxTop <= NRegs, NEW s \in Machine, s.top >= 1
  PROVE  /\ PopVirtualStack(s) \in Machine
         /\ PopVirtualStack(s).top = s.top - 1
         /\ PopVirtualStack(s).reg = s.reg
         /\ PopVirtualStack(s).frame = s.frame
         /\ GetReg(PopVirtualStack(s)) = s.top - 1
         /\ Popped(PopVirtualStack(s)) = s.reg[s.top - 1]
<1> DEFINE t == [s EXCEPT !.top = @ - 1]
<1>1. s.top \in 1 .. 5 /\ s.top - 1 \in 0 .. MaxTop
  BY FrameAssumption, SMT DEF Machine, NRegs
<1>2. t \in Machine /\ t.top = s.top - 1 /\ t.reg = s.reg /\ t.frame = s.frame
  BY <1>1, SMT DEF Machine
<1>3. ~(t.top >= NRegs) /\ t.top % NRegs = s.top - 1
  BY <1>1, <1>2, SMT DEF NRegs
<1>4. PopVirtualStack(s) = t
  BY <1>3, Zenon DEF PopVirtualStack
<1> QED
  BY <1>2, <1>3, <1>4 DEF Popped, GetReg

LEMMA PushFew ==
  ASSUME MaxTop <= NRegs, NEW s \in Machine, s.top < MaxTop
  PROVE  /\ PushVirtualStack(s) \in Machine
         /\ PushVirtualStack(s).top = s.top + 1
         /\ PushVirtualStack(s).reg = s.reg
         /\ SameFrame(s, PushVirtualStack(s))
<1> DEFINE t == [s EXCEPT !.top = @ + 1]
           u == [t EXCEPT !.frame[FrameJavaStack + t.top] = t.reg[GetReg(t)]]
<1>1. s.top \in 0 .. 4 /\ MaxTop \in Nat
  BY FrameAssumption, SMT DEF Machine, NRegs
<1>2. t \in Machine /\ t.top = s.top + 1 /\ t.reg = s.reg /\ t.frame = s.frame
  BY <1>1, SMT DEF Machine
<1>3. t.reg[GetReg(t)] \in Content
  BY <1>1, <1>2, SMT DEF Machine, GetReg, Reg, NRegs
<1>4. FrameJavaStack + t.top \in Slot
  BY <1>1, <1>2, FrameAreas, SMT DEF Machine
<1> HIDE DEF t
<1>5. /\ u \in Machine /\ u.top = t.top /\ u.reg = t.reg
      /\ \A x \in 0 .. FrameJavaStack - 1 : u.frame[x] = t.frame[x]
  <2>1. u.frame = [t.frame EXCEPT ![FrameJavaStack + t.top] = t.reg[GetReg(t)]]
    BY <1>2, Zenon DEF Machine
  <2>2. u.frame \in [Slot -> Content] /\ u.top = t.top /\ u.reg = t.reg
    BY <1>2, <1>3, <1>4, <2>1, Zenon DEF Machine
  <2>3. t.frame \in [Slot -> Content] /\ u \in Machine
    BY <1>2, <2>2, Zenon DEF Machine
  <2>4. \A x \in 0 .. FrameJavaStack - 1 : x # FrameJavaStack + t.top /\ x \in Slot
    BY <1>1, <1>2, FrameAreas, SMT
  <2> QED
    BY <2>1, <2>2, <2>3, <2>4, Zenon
<1>6. PushVirtualStack(s) = t \/ PushVirtualStack(s) = u
  BY Zenon DEF PushVirtualStack, t
<1> QED
  BY <1>2, <1>5, <1>6 DEF SameFrame

(* Hexadecimal offsets do no harm where nothing is saved. *)
LEMMA NoHexSpill ==
  ASSUME HexTop < NRegs, NEW s \in Machine, s.top < HexTop, NEW v
  PROVE  PushHexValue(s, v) = PushValue(s, v)
<1> DEFINE r == [s EXCEPT !.reg[GetReg(s)] = v]
           t == [r EXCEPT !.top = @ + 1]
<1>1. s.top \in Nat /\ s.top + 1 < NRegs
  BY FrameAssumption, SMT DEF Machine, NRegs
<1>2. r.top = s.top /\ t.top = r.top + 1
  BY DEF Machine
<1>3. ~(t.top >= NRegs)
  BY <1>1, <1>2, SMT DEF NRegs
<1> QED
  BY <1>3, Zenon DEF PushHexValue, PushValue, PushVirtualStackHex, PushVirtualStack

LEMMA PushValueFew ==
  ASSUME MaxTop <= NRegs, NEW s \in Machine, s.top < MaxTop, NEW v \in Content
  PROVE  /\ PushValue(s, v) \in Machine
         /\ PushValue(s, v).top = s.top + 1
         /\ PushValue(s, v).reg = [s.reg EXCEPT ![s.top] = v]
         /\ SameFrame(s, PushValue(s, v))
<1> DEFINE t == [s EXCEPT !.reg[GetReg(s)] = v]
<1>1. s.top \in 0 .. 4 /\ GetReg(s) = s.top /\ s.top \in Reg
  BY FrameAssumption, SMT DEF Machine, NRegs, GetReg, Reg
<1>2. /\ t \in Machine /\ t.top = s.top /\ t.frame = s.frame
      /\ t.reg = [s.reg EXCEPT ![s.top] = v]
  BY <1>1, SMT DEF Machine
<1>3. PushValue(s, v) = PushVirtualStack(t)
  BY DEF PushValue
<1> HIDE DEF t
<1>4. t.top < MaxTop
  BY <1>2
<1>5. /\ PushVirtualStack(t) \in Machine /\ PushVirtualStack(t).top = t.top + 1
      /\ PushVirtualStack(t).reg = t.reg /\ SameFrame(t, PushVirtualStack(t))
  BY <1>2, <1>4, PushFew
<1>6. SameFrame(s, PushVirtualStack(t))
  BY <1>2, <1>5, Zenon DEF SameFrame
<1> QED
  BY <1>2, <1>3, <1>5, <1>6, Zenon

-----------------------------------------------------------------------------
(* s holds the operands pushed since _top was b, in registers b to top - 1, *)
(* above a frame as the prologue and the stores of locals leave it.         *)
Sound(s, b) ==
  /\ s \in Machine /\ b \in 0 .. s.top
  /\ \A x \in FrameCalleeSaved .. FrameLocalVars - 1 : s.frame[x] = Other
  /\ \A x \in FrameLocalVars .. FrameJavaStack - 1 : s.frame[x] \in Word
  /\ \A j \in b .. s.top - 1 : s.reg[j] \in Word

OperandsOf(s, b) == [i \in 1 .. s.top - b |-> s.reg[b + i - 1]]

LocalsOf(s) == [l \in Locals |-> s.frame[FrameLocalVars + l]]

LEMMA OperandsAre ==
  ASSUME MaxTop <= NRegs, NEW s, NEW b, Sound(s, b)
  PROVE  /\ OperandsOf(s, b) \in Seq(Word) /\ Len(OperandsOf(s, b)) = s.top - b
         /\ s.top \in 0 .. 5 /\ s.top - b \in 0 .. 5
         /\ \A k \in 1 .. s.top - b : 
               OperandsOf(s, b)[s.top - b + 1 - k] = s.reg[s.top - k] /\ s.reg[s.top - k] \in Word
<1>1. s.top \in 0 .. 5 /\ b \in 0 .. s.top /\ s.top - b \in 0 .. 5
  BY FrameAssumption, SMT DEF Sound, Machine, NRegs
<1>2. \A i \in 1 .. s.top - b : b + i - 1 \in b .. s.top - 1
  BY <1>1, SMT
<1>3. \A i \in 1 .. s.top - b : s.reg[b + i - 1] \in Word
  BY <1>2 DEF Sound
<1>4. OperandsOf(s, b) \in Seq(Word) /\ Len(OperandsOf(s, b)) = s.top - b
  <2> DEFINE n == s.top - b
             f == [i \in 1 .. n |-> s.reg[b + i - 1]]
  <2>1. n \in Nat
    BY <1>1, SMT
  <2>2. f \in [1 .. n -> Word] /\ OperandsOf(s, b) = f
    BY <1>3 DEF OperandsOf
  <2> HIDE DEF f, n
  <2>3. f \in Seq(Word) /\ Len(f) = n
    BY <2>1, <2>2, SMT
  <2> QED
    BY <2>2, <2>3 DEF n
<1>5. ASSUME NEW k \in 1 .. s.top - b
      PROVE  OperandsOf(s, b)[s.top - b + 1 - k] = s.reg[s.top - k] /\ s.reg[s.top - k] \in Word
  <2>1. s.top - b + 1 - k \in 1 .. s.top - b /\ b + (s.top - b + 1 - k) - 1 = s.top - k
    BY <1>1, SMT
  <2> QED
    BY <1>3, <2>1, SMT DEF OperandsOf
<1> QED
  BY <1>1, <1>4, <1>5

LEMMA SameBelow ==
  ASSUME NEW s, NEW t, SameFrame(s, t)
  PROVE  /\ \A x \in FrameCalleeSaved .. FrameLocalVars - 1 : t.frame[x] = s.frame[x]
         /\ \A x \in FrameLocalVars .. FrameJavaStack - 1 : t.frame[x] = s.frame[x]
         /\ LocalsOf(t) = LocalsOf(s)
<1>1. /\ \A x \in FrameCalleeSaved .. FrameLocalVars - 1 : x \in 0 .. FrameJavaStack - 1
      /\ \A x \in FrameLocalVars .. FrameJavaStack - 1 : x \in 0 .. FrameJavaStack - 1
      /\ \A l \in Locals : FrameLocalVars + l \in 0 .. FrameJavaStack - 1
  BY FrameAreas, FrameAssumption, SMT DEF Locals
<1> QED
  BY <1>1, Zenon DEF SameFrame, LocalsOf

(* Lowering _top by k drops the k operands on top. *)
LEMMA LowerKeeps ==
  ASSUME MaxTop <= NRegs, NEW s, NEW b, Sound(s, b), NEW k \in 0 .. s.top - b,
         NEW t \in Machine, t.top = s.top - k, SameFrame(s, t),
         \A j \in b .. t.top - 1 : t.reg[j] = s.reg[j]
  PROVE  /\ Sound(t, b) /\ LocalsOf(t) = LocalsOf(s)
         /\ OperandsOf(t, b) = SubSeq(OperandsOf(s, b), 1, Len(OperandsOf(s, b)) - k)
<1>1. s.top \in 0 .. 5 /\ b \in 0 .. s.top /\ s.top - b \in 0 .. 5
  BY OperandsAre DEF Sound
<1>2. b \in 0 .. t.top /\ \A j \in b .. t.top - 1 : j \in b .. s.top - 1
  BY <1>1, SMT
<1>3. Sound(t, b) /\ LocalsOf(t) = LocalsOf(s)
  BY <1>2, SameBelow DEF Sound
<1>4. OperandsOf(t, b) \in Seq(Word) /\ Len(OperandsOf(t, b)) = t.top - b
  BY <1>3, OperandsAre
<1>5. OperandsOf(s, b) \in Seq(Word) /\ Len(OperandsOf(s, b)) = s.top - b
  BY OperandsAre
<1>6. \A i \in 1 .. t.top - b : OperandsOf(t, b)[i] = OperandsOf(s, b)[i]
  <2> SUFFICES ASSUME NEW i \in 1 .. t.top - b
               PROVE  OperandsOf(t, b)[i] = OperandsOf(s, b)[i]
    OBVIOUS
  <2>1. i \in 1 .. s.top - b /\ b + i - 1 \in b .. t.top - 1
    BY <1>1, <1>2, SMT
  <2> QED
    BY <2>1 DEF OperandsOf
<1>7. OperandsOf(t, b) = SubSeq(OperandsOf(s, b), 1, s.top - b - k)
  BY <1>1, <1>2, <1>4, <1>5, <1>6, SMTT(20)
<1> QED
  BY <1>3, <1>5, <1>7

(* Pushing a value appends it. *)
LEMMA PushAppends ==
  ASSUME MaxTop <= NRegs, NEW s, NEW b, Sound(s, b), s.top < MaxTop, NEW v \in Word
  PROVE  /\ Sound(PushValue(s, v), b) /\ LocalsOf(PushValue(s, v)) = LocalsOf(s)
         /\ OperandsOf(PushValue(s, v), b) = Append(OperandsOf(s, b), v)
         /\ PushValue(s, v).top = s.top + 1
<1> DEFINE t == PushValue(s, v)
<1>1. s.top \in 0 .. 4 /\ b \in 0 .. s.top /\ s.top - b \in 0 .. 4 /\ s \in Machine
  BY FrameAssumption, SMT DEF Sound, Machine, NRegs
<1>2. /\ t \in Machine /\ t.top = s.top + 1 /\ SameFrame(s, t)
      /\ t.reg = [s.reg EXCEPT ![s.top] = v]
  BY <1>1, PushValueFew DEF Content
<1> HIDE DEF t
<1>3. s.reg \in [Reg -> Content] /\ s.top \in Reg /\ \A j \in b .. s.top - 1 : j \in Reg /\ j # s.top
  <2>1. s.reg \in [Reg -> Content]
    BY <1>1 DEF Machine
  <2> QED
    BY <1>1, <2>1, SMT DEF Reg, NRegs
<1>4. t.reg[s.top] = v /\ \A j \in b .. s.top - 1 : t.reg[j] = s.reg[j]
  BY <1>2, <1>3, Zenon
<1>5. b \in 0 .. t.top /\ \A j \in b .. t.top - 1 : j = s.top \/ j \in b .. s.top - 1
  BY <1>1, <1>2, SMT
<1>6. \A j \in b .. t.top - 1 : t.reg[j] \in Word
  BY <1>4, <1>5 DEF Sound
<1>7. Sound(t, b) /\ LocalsOf(t) = LocalsOf(s)
  BY <1>2, <1>5, <1>6, SameBelow DEF Sound
<1>8. OperandsOf(t, b) \in Seq(Word) /\ Len(OperandsOf(t, b)) = t.top - b
  BY <1>7, OperandsAre
<1>9. OperandsOf(s, b) \in Seq(Word) /\ Len(OperandsOf(s, b)) = s.top - b
  BY OperandsAre
<1>11. OperandsOf(t, b)[s.top - b + 1] = v
  <2>1. s.top - b + 1 \in 1 .. t.top - b /\ b + (s.top - b + 1) - 1 = s.top
    BY <1>1, <1>2, SMT
  <2> QED
    BY <1>4, <2>1, SMT DEF OperandsOf
<1>12. \A i \in 1 .. s.top - b : OperandsOf(t, b)[i] = OperandsOf(s, b)[i]
  <2> SUFFICES ASSUME NEW i \in 1 .. s.top - b
               PROVE  OperandsOf(t, b)[i] = OperandsOf(s, b)[i]
    OBVIOUS
  <2>1. i \in 1 .. t.top - b /\ b + i - 1 \in b .. s.top - 1
    BY <1>1, <1>2, SMT
  <2> QED
    BY <1>4, <2>1 DEF OperandsOf
<1>13. OperandsOf(t, b) = Append(OperandsOf(s, b), v)
  BY <1>1, <1>2, <1>8, <1>9, <1>11, <1>12, SMTT(20)
<1> QED
  BY <1>2, <1>7, <1>13 DEF t

LEMMA NoOperands ==
  ASSUME NEW s PROVE s.top \in Nat => OperandsOf(s, s.top) = <<>>
BY SMT DEF OperandsOf

LEMMA PrologueSound ==
  ASSUME NEW v \in Word, NEW n \in 0 .. MaxTop,
         NEW s, s = [top |-> n, reg |-> [r \in Reg |-> Other], frame |-> Prologue(v)]
  PROVE  Sound(s, n) /\ OperandsOf(s, n) = <<>>
<1>1. s \in Machine /\ s.top = n
  BY DEF Machine, Prologue, Content
<1>2. n \in Nat /\ n \in 0 .. n /\ \A j \in n .. n - 1 : s.reg[j] \in Word
  BY FrameAssumption, SMT
<1>3. /\ \A x \in FrameCalleeSaved .. FrameLocalVars - 1 :
           x \in Slot /\ ~(x \in FrameLocalVars .. FrameJavaStack - 1)
      /\ \A x \in FrameLocalVars .. FrameJavaStack - 1 : x \in Slot
  BY FrameAreas, FrameAssumption, SMT
<1>4. /\ \A x \in FrameCalleeSaved .. FrameLocalVars - 1 : s.frame[x] = Other
      /\ \A x \in FrameLocalVars .. FrameJavaStack - 1 : s.frame[x] \in Word
  BY <1>3 DEF Prologue
<1>5. Sound(s, n)
  BY <1>1, <1>2, <1>4 DEF Sound
<1> QED
  BY <1>1, <1>2, <1>5, NoOperands

(* A value stored in a local variable. *)
Stored(s, l, v) == [s EXCEPT !.frame[FrameLocalVars + l] = v]

LEMMA StoreInFrame ==
  ASSUME NEW s \in Machine, NEW l \in Locals, NEW v \in Content,
         NEW b
  PROVE  /\ Stored(s, l, v) \in Machine /\ Stored(s, l, v).top = s.top /\ Stored(s, l, v).reg = s.reg
         /\ \A x \in FrameCalleeSaved .. FrameLocalVars - 1 : Stored(s, l, v).frame[x] = s.frame[x]
         /\ LocalsOf(Stored(s, l, v)) = [LocalsOf(s) EXCEPT ![l] = v]
         /\ Sound(s, b) /\ v \in Word
              => Sound(Stored(s, l, v), b) /\ OperandsOf(Stored(s, l, v), b) = OperandsOf(s, b)
<1> DEFINE t == Stored(s, l, v)
<1>1. /\ t.top = s.top /\ t.reg = s.reg
      /\ t.frame = [s.frame EXCEPT ![FrameLocalVars + l] = v]
      /\ s.frame \in [Slot -> Content] /\ t = [s EXCEPT !.frame = t.frame]
  BY Zenon DEF Machine, Stored
<1> HIDE DEF t
<1>2. t \in Machine
  <2>1. t.frame \in [Slot -> Content]
    BY <1>1, Zenon
  <2> QED
    BY <1>1, <2>1, Zenon DEF Machine
<1>3. /\ \A x \in FrameCalleeSaved .. FrameLocalVars - 1 : x \in Slot /\ x # FrameLocalVars + l
      /\ \A x \in FrameLocalVars .. FrameJavaStack - 1 : x \in Slot
      /\ \A k \in Locals : FrameLocalVars + k \in Slot /\ (k # l => FrameLocalVars + k # FrameLocalVars + l)
  BY FrameAreas, FrameAssumption, SMT DEF Locals
<1>4. \A x \in FrameCalleeSaved .. FrameLocalVars - 1 : t.frame[x] = s.frame[x]
  BY <1>1, <1>3, Zenon
<1>5. LocalsOf(t) = [LocalsOf(s) EXCEPT ![l] = v]
  BY <1>1, <1>3, Zenon DEF LocalsOf
<1>6. ASSUME Sound(s, b), v \in Word PROVE Sound(t, b) /\ OperandsOf(t, b) = OperandsOf(s, b)
  <2>1. \A x \in FrameCalleeSaved .. FrameLocalVars - 1 : t.frame[x] = Other
    BY <1>4, <1>6, Zenon DEF Sound
  <2>2. \A x \in FrameLocalVars .. FrameJavaStack - 1 : t.frame[x] \in Word
    <3>1. \A x \in FrameLocalVars .. FrameJavaStack - 1 : s.frame[x] \in Word /\ x \in Slot
      BY <1>3, <1>6 DEF Sound
    <3> QED
      BY <1>1, <1>6, <3>1
  <2>3. b \in 0 .. t.top /\ \A j \in b .. t.top - 1 : t.reg[j] \in Word
    <3>1. b \in 0 .. s.top /\ \A j \in b .. s.top - 1 : s.reg[j] \in Word
      BY <1>6 DEF Sound
    <3> QED
      BY <1>1, <3>1, Zenon
  <2>4. Sound(t, b)
    BY <1>2, <2>1, <2>2, <2>3 DEF Sound
  <2> QED
    BY <1>1, <2>4, SMT DEF OperandsOf
<1> QED
  BY <1>1, <1>2, <1>4, <1>5, <1>6 DEF t

=============================================================================
