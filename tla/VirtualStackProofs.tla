------------------------- MODULE VirtualStackProofs -------------------------
(***************************************************************************)
(* With at most as many operands as stack registers, and hexadecimal       *)
(* literals and results only where none is saved, the generated code       *)
(* implements the operand stack: for every set of values, every number of  *)
(* locals and every operation.                                             *)
(***************************************************************************)
EXTENDS VirtualStack, RegisterLemmas

IInv == Sound(m, stale) /\ statics \in [Fields -> Word] /\ given \in Seq(Word)

Stack == [i \in 1 .. Depth |-> Place(m, stale + i - 1)]

LEMMA PlacesAreRegisters ==
  ASSUME MaxTop <= NRegs, Sound(m, stale)
  PROVE  Stack = OperandsOf(m, stale)
<1>1. m.top \in 0 .. 5 /\ stale \in 0 .. m.top
  BY OperandsAre DEF Sound
<1>2. \A i \in 1 .. Depth : Place(m, stale + i - 1) = m.reg[stale + i - 1]
  <2> SUFFICES ASSUME NEW i \in 1 .. Depth
               PROVE  Place(m, stale + i - 1) = m.reg[stale + i - 1]
    OBVIOUS
  <2>1. (stale + i - 1) % NRegs = stale + i - 1 /\ stale + i - 1 >= m.top - NRegs
    BY <1>1, SMT DEF Depth, NRegs
  <2> QED
    BY <2>1 DEF Place
<1> QED
  BY <1>2 DEF Depth, OperandsOf, Stack

LEMMA PlacesAreRegistersNext ==
  ASSUME MaxTop <= NRegs, Sound(m', stale')
  PROVE  Stack' = OperandsOf(m', stale')
<1>1. m'.top \in 0 .. 5 /\ stale' \in 0 .. m'.top
  BY OperandsAre DEF Sound
<1>2. \A i \in 1 .. Depth' : Place(m, stale + i - 1)' = m'.reg[stale' + i - 1]
  <2> SUFFICES ASSUME NEW i \in 1 .. Depth'
               PROVE  Place(m, stale + i - 1)' = m'.reg[stale' + i - 1]
    OBVIOUS
  <2>1. (stale' + i - 1) % NRegs = stale' + i - 1 /\ stale' + i - 1 >= m'.top - NRegs
    BY <1>1, SMT DEF Depth, NRegs
  <2> QED
    BY <2>1 DEF Place
<1> QED
  BY <1>2 DEF Depth, OperandsOf, Stack

-----------------------------------------------------------------------------
(* t is the machine of this state after k pops. *)
Dropped(t, k) ==
  /\ t \in Machine /\ t.top = m.top - k /\ t.reg = m.reg /\ t.frame = m.frame
  /\ GetReg(t) = m.top - k /\ Popped(t) = m.reg[m.top - k]

LEMMA PopsDrop ==
  ASSUME MaxTop <= NRegs, Sound(m, stale)
  PROVE  /\ Depth >= 1 => Dropped(Pop1, 1)
         /\ Depth >= 2 => Dropped(Pop1, 1) /\ Dropped(Pop2, 2)
         /\ Depth >= 3 => Dropped(Pop1, 1) /\ Dropped(Pop2, 2) /\ Dropped(Pop3, 3)
<1>1. m.top \in 0 .. 5 /\ stale \in 0 .. m.top /\ m \in Machine
  BY OperandsAre DEF Sound
<1>2. /\ Depth >= 1 => m.top >= 1
      /\ Depth >= 2 => Depth >= 1 /\ m.top - 1 >= 1 /\ (m.top - 1) - 1 = m.top - 2
      /\ Depth >= 3 => Depth >= 2 /\ m.top - 2 >= 1 /\ (m.top - 2) - 1 = m.top - 3
  BY <1>1, SMT DEF Depth
<1>3. Depth >= 1 => Dropped(Pop1, 1)
  BY <1>1, <1>2, PopFew DEF Pop1, Dropped
<1>4. Depth >= 2 => Dropped(Pop2, 2)
  <2> SUFFICES ASSUME Depth >= 2 PROVE Dropped(Pop2, 2)
    OBVIOUS
  <2>1. Pop1 \in Machine /\ Pop1.top >= 1 /\ Pop1.top - 1 = m.top - 2 /\ Pop1.reg = m.reg /\ Pop1.frame = m.frame
    BY <1>2, <1>3 DEF Dropped
  <2> QED
    BY <2>1, PopFew DEF Pop2, Dropped
<1>5. Depth >= 3 => Dropped(Pop3, 3)
  <2> SUFFICES ASSUME Depth >= 3 PROVE Dropped(Pop3, 3)
    OBVIOUS
  <2>1. Pop2 \in Machine /\ Pop2.top >= 1 /\ Pop2.top - 1 = m.top - 3 /\ Pop2.reg = m.reg /\ Pop2.frame = m.frame
    BY <1>2, <1>4 DEF Dropped
  <2> QED
    BY <2>1, PopFew DEF Pop3, Dropped
<1> QED
  BY <1>2, <1>3, <1>4, <1>5

(* A machine that agrees with one after k pops on what is left holds the   *)
(* operands below the k on top, which are those the pops read.             *)
LEMMA DropsOperands ==
  ASSUME MaxTop <= NRegs, Sound(m, stale), NEW k \in 0 .. Depth,
         NEW t \in Machine, t.top = m.top - k, SameFrame(m, t),
         \A j \in stale .. m.top - k - 1 : t.reg[j] = m.reg[j]
  PROVE  /\ Sound(t, stale) /\ LocalsOf(t) = LocalsOf(m)
         /\ OperandsOf(t, stale) = SubSeq(Stack, 1, Len(Stack) - k)
BY LowerKeeps, PlacesAreRegisters DEF Depth

LEMMA OperandsRead ==
  ASSUME MaxTop <= NRegs, Sound(m, stale)
  PROVE  /\ Stack \in Seq(Word) /\ Len(Stack) = Depth /\ Depth \in 0 .. 5
         /\ \A k \in 1 .. Depth : Stack[Len(Stack) + 1 - k] = m.reg[m.top - k] /\ m.reg[m.top - k] \in Word
BY OperandsAre, PlacesAreRegisters DEF Depth

(* A step that pushes a value on such a machine appends it. *)
LEMMA PushMaps ==
  ASSUME MaxTop <= NRegs, NEW t, Sound(t, stale), t.top < MaxTop, NEW v \in Word,
         m' = PushValue(t, v), stale' = stale
  PROVE  /\ Sound(m', stale') /\ LocalsOf(m') = LocalsOf(t)
         /\ Stack' = Append(OperandsOf(t, stale), v)
<1>1. Sound(m', stale') /\ LocalsOf(m') = LocalsOf(t) /\ OperandsOf(m', stale') = Append(OperandsOf(t, stale), v)
  BY PushAppends
<1> QED
  BY <1>1, PlacesAreRegistersNext

-----------------------------------------------------------------------------
LEMMA Untouched ==
  ASSUME MaxTop <= NRegs, Sound(m, stale)
  PROVE  /\ Sound(m, stale) /\ m \in Machine /\ SameFrame(m, m) /\ m.top \in Nat
         /\ Depth <= m.top /\ MaxTop \in Nat /\ (Room => m.top < MaxTop)
         /\ OperandsOf(m, stale) = Stack
BY OperandsAre, PlacesAreRegisters, FrameAssumption, StackAssumption, SMT DEF Sound, SameFrame, Depth, Room

LEMMA PushConstantMaps ==
  ASSUME MaxTop <= NRegs, IInv, PushConstant PROVE IInv' /\ JVM!Push
<1>1. PICK v \in Word : m' = PushValue(m, v)
  BY DEF PushConstant
<1>2. Sound(m', stale') /\ LocalsOf(m') = LocalsOf(m) /\ Stack' = Append(Stack, v)
  BY <1>1, Untouched, PushMaps DEF IInv, PushConstant, Quiet
<1>3. IInv'
  BY <1>2 DEF IInv, PushConstant, Quiet
<1> QED
  BY <1>2, <1>3 DEF JVM!Push, Stack, LocalsOf, PushConstant, Quiet

LEMMA PushLiteralMaps ==
  ASSUME MaxTop <= NRegs, HexTop < NRegs, IInv, PushLiteral PROVE IInv' /\ JVM!Push
<1>1. PICK v \in Word : m' = PushHexValue(m, v)
  BY DEF PushLiteral
<1>2. m' = PushValue(m, v)
  BY <1>1, NoHexSpill DEF PushLiteral, IInv, Sound
<1>3. PushConstant
  BY <1>2 DEF PushConstant, PushLiteral
<1> QED
  BY <1>3, PushConstantMaps

LEMMA LocalsHoldWords ==
  ASSUME IInv, NEW l \in Locals
  PROVE  /\ m.frame[FrameLocalVars + l] \in Word /\ LocalsOf(m)[l] = m.frame[FrameLocalVars + l]
         /\ FrameLocalVars + l \in FrameLocalVars .. FrameJavaStack - 1
<1>1. FrameLocalVars + l \in FrameLocalVars .. FrameJavaStack - 1
  BY FrameAreas, FrameAssumption, StackAssumption, SMT DEF Locals
<1> QED
  BY <1>1, Zenon DEF IInv, Sound, LocalsOf

LEMMA LoadLocalMaps ==
  ASSUME MaxTop <= NRegs, IInv, LoadLocal PROVE IInv' /\ JVM!Load
<1>1. PICK l \in Locals : m' = PushValue(m, m.frame[FrameLocalVars + l])
  BY DEF LoadLocal
<1>2. /\ Sound(m', stale') /\ LocalsOf(m') = LocalsOf(m)
      /\ Stack' = Append(Stack, LocalsOf(m)[l])
  BY <1>1, Untouched, LocalsHoldWords, PushMaps DEF IInv, LoadLocal, Quiet
<1>3. IInv'
  BY <1>2 DEF IInv, LoadLocal, Quiet
<1> QED
  BY <1>2, <1>3 DEF JVM!Load, Stack, LocalsOf, LoadLocal, Quiet

LEMMA GetStaticMaps ==
  ASSUME MaxTop <= NRegs, IInv, GetStatic PROVE IInv' /\ JVM!GetStatic
<1>1. PICK f \in Fields : m' = PushValue(m, statics[f])
  BY DEF GetStatic
<1>2. statics[f] \in Word /\ DOMAIN statics = Fields
  BY DEF IInv
<1>3. Sound(m', stale') /\ LocalsOf(m') = LocalsOf(m) /\ Stack' = Append(Stack, statics[f])
  BY <1>1, <1>2, Untouched, PushMaps DEF IInv, GetStatic, Quiet
<1>4. IInv'
  BY <1>3 DEF IInv, GetStatic, Quiet
<1> QED
  BY <1>2, <1>3, <1>4 DEF JVM!GetStatic, Stack, LocalsOf, GetStatic, Quiet

(* Pops followed by the push of a result. *)
LEMMA ReplaceMaps ==
  ASSUME MaxTop <= NRegs, IInv, NEW k \in 1 .. Depth, NEW t \in Machine, t.top = m.top - k,
         SameFrame(m, t), \A j \in stale .. m.top - k - 1 : t.reg[j] = m.reg[j],
         NEW v \in Word, m' = PushValue(t, v), stale' = stale
  PROVE  /\ Sound(m', stale') /\ LocalsOf(m') = LocalsOf(m)
         /\ Stack' = Append(SubSeq(Stack, 1, Len(Stack) - k), v)
<1>1. /\ Sound(t, stale) /\ LocalsOf(t) = LocalsOf(m)
      /\ OperandsOf(t, stale) = SubSeq(Stack, 1, Len(Stack) - k)
  <2>1. k \in 0 .. Depth
    BY OperandsRead, SMT DEF IInv
  <2> QED
    BY <2>1, DropsOperands DEF IInv
<1>2. m.top \in 0 .. MaxTop /\ t.top < MaxTop
  BY FrameAssumption, StackAssumption, SMT DEF IInv, Sound, Machine
<1> QED
  BY <1>1, <1>2, PushMaps

(* What the pops of this state read, and what is left. *)
LEMMA Operand ==
  ASSUME MaxTop <= NRegs, IInv
  PROVE  /\ Depth >= 1 => /\ 1 \in 1 .. Depth /\ Len(Stack) >= 1 /\ Dropped(Pop1, 1)
                          /\ Popped(Pop1) = Stack[Len(Stack) + 1 - 1] /\ Popped(Pop1) \in Word
         /\ Depth >= 2 => /\ 2 \in 1 .. Depth /\ Len(Stack) >= 2 /\ Dropped(Pop2, 2)
                          /\ Popped(Pop2) = Stack[Len(Stack) + 1 - 2] /\ Popped(Pop2) \in Word
         /\ Depth >= 3 => /\ 3 \in 1 .. Depth /\ Len(Stack) >= 3 /\ Dropped(Pop3, 3)
                          /\ Popped(Pop3) = Stack[Len(Stack) + 1 - 3] /\ Popped(Pop3) \in Word
         /\ Depth >= 2 => Depth >= 1
         /\ Depth >= 3 => Depth >= 2
<1>1. /\ Depth >= 1 => 1 \in 1 .. Depth
      /\ Depth >= 2 => 2 \in 1 .. Depth /\ Depth >= 1
      /\ Depth >= 3 => 3 \in 1 .. Depth /\ Depth >= 2
  BY OperandsRead, SMT DEF IInv
<1>2. ASSUME NEW t, NEW k \in 1 .. Depth, Dropped(t, k)
      PROVE  Popped(t) = Stack[Len(Stack) + 1 - k] /\ Popped(t) \in Word
  BY <1>2, OperandsRead DEF IInv, Dropped
<1>3. Len(Stack) = Depth /\ Sound(m, stale)
  BY OperandsRead DEF IInv
<1>4. Depth >= 1 => Popped(Pop1) = Stack[Len(Stack) + 1 - 1] /\ Popped(Pop1) \in Word /\ Dropped(Pop1, 1)
  BY <1>1, <1>2, <1>3, PopsDrop
<1>5. Depth >= 2 => Popped(Pop2) = Stack[Len(Stack) + 1 - 2] /\ Popped(Pop2) \in Word /\ Dropped(Pop2, 2)
  BY <1>1, <1>2, <1>3, PopsDrop
<1>6. Depth >= 3 => Popped(Pop3) = Stack[Len(Stack) + 1 - 3] /\ Popped(Pop3) \in Word /\ Dropped(Pop3, 3)
  BY <1>1, <1>2, <1>3, PopsDrop
<1> QED
  BY <1>1, <1>3, <1>4, <1>5, <1>6

LEMMA DroppedIsLike ==
  ASSUME NEW t, NEW k, Dropped(t, k)
  PROVE  /\ t \in Machine /\ t.top = m.top - k /\ SameFrame(m, t)
         /\ \A j \in stale .. m.top - k - 1 : t.reg[j] = m.reg[j]
BY DEF Dropped, SameFrame

LEMMA ComputeMaps ==
  ASSUME MaxTop <= NRegs, IInv, Compute PROVE IInv' /\ JVM!Compute
<1>1. PICK op \in Operations : m' = PushValue(Pop2, Result(op, Popped(Pop2), Popped(Pop1)))
  BY DEF Compute
<1> DEFINE v == Result(op, Popped(Pop2), Popped(Pop1))
<1>2. /\ Depth >= 2 /\ Depth >= 1 /\ Dropped(Pop2, 2) /\ 2 \in 1 .. Depth /\ Len(Stack) >= 2
      /\ Popped(Pop1) = Stack[Len(Stack) + 1 - 1] /\ Popped(Pop1) \in Word
      /\ Popped(Pop2) = Stack[Len(Stack) + 1 - 2] /\ Popped(Pop2) \in Word
  BY Operand DEF Compute
<1>3. v \in Word
  BY <1>2, FrameAssumption, StackAssumption
<1>4. /\ Sound(m', stale') /\ LocalsOf(m') = LocalsOf(m)
      /\ Stack' = Append(SubSeq(Stack, 1, Len(Stack) - 2), v)
  <2>1. m' = PushValue(Pop2, v) /\ stale' = stale
    BY <1>1 DEF Compute, Quiet
  <2> HIDE DEF v
  <2> QED
    BY <1>2, <1>3, <2>1, DroppedIsLike, ReplaceMaps
<1>5. IInv'
  BY <1>4 DEF IInv, Compute, Quiet
<1> QED
  BY <1>2, <1>4, <1>5, Zenon DEF JVM!Compute, JVM!Front, JVM!Operand, Stack, LocalsOf, Compute, Quiet

LEMMA ComputeBothMaps ==
  ASSUME MaxTop <= NRegs, IInv, ComputeBoth PROVE IInv' /\ JVM!Compute
<1>1. PICK op \in Operations :
        m' = PushValue([Pop2 EXCEPT !.reg[GetReg(Pop1)] = Result(op, Popped(Pop2), Popped(Pop1))],
                       Result(op, Popped(Pop2), Popped(Pop1)))
  BY DEF ComputeBoth
<1> DEFINE v == Result(op, Popped(Pop2), Popped(Pop1))
           t == [Pop2 EXCEPT !.reg[GetReg(Pop1)] = v]
<1>2. /\ Depth >= 2 /\ Depth >= 1 /\ Dropped(Pop1, 1) /\ Dropped(Pop2, 2) /\ 2 \in 1 .. Depth
      /\ Popped(Pop1) = Stack[Len(Stack) + 1 - 1] /\ Popped(Pop1) \in Word
      /\ Popped(Pop2) = Stack[Len(Stack) + 1 - 2] /\ Popped(Pop2) \in Word
      /\ Len(Stack) >= 2
  BY Operand DEF ComputeBoth
<1>3. v \in Word
  BY <1>2, FrameAssumption, StackAssumption
<1>4. m' = PushValue(t, v) /\ stale' = stale
  BY <1>1 DEF ComputeBoth, Quiet
<1> HIDE DEF v
<1>5. GetReg(Pop1) \in Reg /\ \A j \in stale .. m.top - 2 - 1 : j # GetReg(Pop1) /\ j \in Reg
  <2>1. GetReg(Pop1) = m.top - 1 /\ m.top \in 0 .. 5 /\ stale \in 0 .. m.top /\ m.top - stale >= 2
    BY <1>2, OperandsAre DEF Dropped, IInv, Sound, Depth
  <2> QED
    BY <2>1, SMT DEF Reg, NRegs
<1>6. /\ t \in Machine /\ t.top = m.top - 2 /\ SameFrame(m, t)
      /\ \A j \in stale .. m.top - 2 - 1 : t.reg[j] = m.reg[j]
  <2>1. Pop2 \in Machine /\ Pop2.top = m.top - 2 /\ Pop2.reg = m.reg /\ Pop2.frame = m.frame
    BY <1>2 DEF Dropped
  <2>2. v \in Content
    BY <1>3 DEF Content
  <2>3. /\ t.reg = [m.reg EXCEPT ![GetReg(Pop1)] = v] /\ m.reg \in [Reg -> Content]
        /\ t.top = m.top - 2 /\ t.frame = m.frame
    BY <2>1, Zenon DEF Machine
  <2>4. t.reg \in [Reg -> Content]
    BY <2>2, <2>3, Zenon
  <2> QED
    BY <1>5, <2>1, <2>3, <2>4, Zenon DEF Machine, SameFrame
<1> HIDE DEF t
<1>7. /\ Sound(m', stale') /\ LocalsOf(m') = LocalsOf(m)
      /\ Stack' = Append(SubSeq(Stack, 1, Len(Stack) - 2), v)
  BY <1>2, <1>3, <1>4, <1>6, ReplaceMaps
<1>8. IInv'
  BY <1>7 DEF IInv, ComputeBoth, Quiet
<1> QED
  BY <1>2, <1>7, <1>8, Zenon DEF JVM!Compute, JVM!Front, JVM!Operand, Stack, LocalsOf, ComputeBoth, Quiet, v

LEMMA InegMaps ==
  ASSUME MaxTop <= NRegs, IInv, Ineg PROVE IInv' /\ JVM!Negate
<1>1. /\ Depth >= 1 /\ Dropped(Pop1, 1) /\ 1 \in 1 .. Depth /\ Len(Stack) >= 1
      /\ Popped(Pop1) = Stack[Len(Stack) + 1 - 1] /\ Popped(Pop1) \in Word
  BY Operand DEF Ineg
<1>2. Negated(Popped(Pop1)) \in Word
  BY <1>1, FrameAssumption, StackAssumption
<1>3. /\ Sound(m', stale') /\ LocalsOf(m') = LocalsOf(m)
      /\ Stack' = Append(SubSeq(Stack, 1, Len(Stack) - 1), Negated(Popped(Pop1)))
  BY <1>1, <1>2, DroppedIsLike, ReplaceMaps DEF Ineg, Quiet
<1>4. IInv'
  BY <1>3 DEF IInv, Ineg, Quiet
<1> QED
  BY <1>1, <1>3, <1>4, Zenon DEF JVM!Negate, JVM!Front, JVM!Operand, Stack, LocalsOf, Ineg, Quiet

LEMMA DnegMaps ==
  ASSUME MaxTop <= NRegs, HexTop < NRegs, IInv, Dneg PROVE IInv' /\ JVM!Negate
<1> DEFINE t == [Pop1 EXCEPT !.reg[GetReg(m)] = Other]
<1>1. /\ Depth >= 1 /\ Dropped(Pop1, 1) /\ 1 \in 1 .. Depth /\ Len(Stack) >= 1
      /\ Popped(Pop1) = Stack[Len(Stack) + 1 - 1] /\ Popped(Pop1) \in Word
  BY Operand DEF Dneg
<1>2. Negated(Popped(Pop1)) \in Word
  BY <1>1, FrameAssumption, StackAssumption
<1>3. m' = PushHexValue(t, Negated(Popped(Pop1))) /\ stale' = stale /\ Pop1.top < HexTop
  BY DEF Dneg, Quiet
<1>4. GetReg(m) \in Reg /\ \A j \in stale .. m.top - 1 - 1 : j # GetReg(m) /\ j \in Reg
  <2>1. m.top \in 0 .. 5 /\ m.top - 1 < HexTop /\ stale \in 0 .. m.top
    BY <1>1, <1>3, OperandsAre DEF IInv, Sound, Dropped
  <2> QED
    BY <2>1, FrameAssumption, StackAssumption, SMT DEF Reg, NRegs, GetReg
<1>5. /\ t \in Machine /\ t.top = m.top - 1 /\ SameFrame(m, t)
      /\ \A j \in stale .. m.top - 1 - 1 : t.reg[j] = m.reg[j]
  <2>1. Pop1 \in Machine /\ Pop1.top = m.top - 1 /\ Pop1.reg = m.reg /\ Pop1.frame = m.frame
    BY <1>1 DEF Dropped
  <2>2. /\ t.reg = [m.reg EXCEPT ![GetReg(m)] = Other] /\ m.reg \in [Reg -> Content]
        /\ t.top = m.top - 1 /\ t.frame = m.frame
    BY <2>1, Zenon DEF Machine
  <2>3. t.reg \in [Reg -> Content]
    BY <2>2, Zenon DEF Content
  <2> QED
    BY <1>4, <2>1, <2>2, <2>3, Zenon DEF Machine, SameFrame
<1> HIDE DEF t
<1>6. /\ Sound(m', stale') /\ LocalsOf(m') = LocalsOf(m)
      /\ Stack' = Append(SubSeq(Stack, 1, Len(Stack) - 1), Negated(Popped(Pop1)))
  <2>1. t.top < HexTop
    BY <1>1, <1>3, <1>5 DEF Dropped
  <2> QED
    BY <1>1, <1>2, <1>3, <1>5, <2>1, NoHexSpill, ReplaceMaps
<1>7. IInv'
  BY <1>6 DEF IInv, Dneg, Quiet
<1> QED
  BY <1>1, <1>6, <1>7, Zenon DEF JVM!Negate, JVM!Front, JVM!Operand, Stack, LocalsOf, Dneg, Quiet

(* What a call is given, as the tuple of its operands from the top. *)
Taken(n) == [i \in 1 .. n |-> Stack[Len(Stack) + 1 - i]]

LEMMA TakenAre ==
  ASSUME MaxTop <= NRegs, IInv
  PROVE  /\ Depth >= 1 => <<Popped(Pop1)>> = Taken(1)
         /\ Depth >= 2 => <<Popped(Pop1), Popped(Pop2)>> = Taken(2)
         /\ Depth >= 3 => <<Popped(Pop1), Popped(Pop2), Popped(Pop3)>> = Taken(3)
         /\ \A n \in 1 .. Depth : Taken(n) \in Seq(Word)
<1>1. ASSUME NEW n \in 1 .. Depth PROVE Taken(n) \in Seq(Word)
  <2>1. \A i \in 1 .. n : Stack[Len(Stack) + 1 - i] \in Word
    <3>1. \A i \in 1 .. n : i \in 1 .. Depth
      BY OperandsRead, SMT DEF IInv
    <3> QED
      BY <3>1, OperandsRead DEF IInv
  <2>2. n \in Nat
    BY OperandsRead, SMT DEF IInv
  <2> QED
    BY <2>1, <2>2, SMT DEF Taken
<1>2. ASSUME Depth >= 1 PROVE <<Popped(Pop1)>> = Taken(1)
  <2>1. Popped(Pop1) = Stack[Len(Stack) + 1 - 1]
    BY <1>2, Operand
  <2> HIDE DEF Stack
  <2> QED
    BY <2>1, SMT DEF Taken
<1>3. ASSUME Depth >= 2 PROVE <<Popped(Pop1), Popped(Pop2)>> = Taken(2)
  <2>1. Popped(Pop1) = Stack[Len(Stack) + 1 - 1] /\ Popped(Pop2) = Stack[Len(Stack) + 1 - 2]
    BY <1>3, Operand
  <2> QED
    BY <2>1, SMT DEF Taken
<1>4. ASSUME Depth >= 3 PROVE <<Popped(Pop1), Popped(Pop2), Popped(Pop3)>> = Taken(3)
  <2>1. /\ Popped(Pop1) = Stack[Len(Stack) + 1 - 1] /\ Popped(Pop2) = Stack[Len(Stack) + 1 - 2]
        /\ Popped(Pop3) = Stack[Len(Stack) + 1 - 3]
    BY <1>4, Operand
  <2> QED
    BY <2>1, SMT DEF Taken
<1> QED
  BY <1>1, <1>2, <1>3, <1>4

LEMMA ArrayLoadMaps ==
  ASSUME MaxTop <= NRegs, HexTop < NRegs, IInv, ArrayLoad PROVE IInv' /\ JVM!CallFor
<1>1. PICK v \in Word : m' = PushHexValue(Pop2, v)
  BY DEF ArrayLoad
<1>2. /\ 2 \in 1 .. Depth /\ Len(Stack) >= 2 /\ Dropped(Pop2, 2) /\ given' = Taken(2) /\ given' \in Seq(Word)
      /\ statics' = statics /\ stale' = stale /\ Pop2.top < HexTop
  BY Operand, TakenAre DEF ArrayLoad
<1>3. /\ Sound(m', stale') /\ LocalsOf(m') = LocalsOf(m)
      /\ Stack' = Append(SubSeq(Stack, 1, Len(Stack) - 2), v)
  <2>1. m' = PushValue(Pop2, v)
    BY <1>1, <1>2, NoHexSpill DEF Dropped
  <2> QED
    BY <1>2, <2>1, DroppedIsLike, ReplaceMaps
<1>4. IInv'
  BY <1>2, <1>3 DEF IInv
<1>5. 2 \in 1 .. 2
  BY SMT
<1> QED
  BY <1>2, <1>3, <1>4, <1>5, Zenon DEF JVM!CallFor, JVM!Front, JVM!Operand, Stack, Taken, LocalsOf

LEMMA ArrayLengthMaps ==
  ASSUME MaxTop <= NRegs, IInv, ArrayLength PROVE IInv' /\ JVM!CallFor
<1>1. PICK v \in Word : m' = PushValue(Pop1, v)
  BY DEF ArrayLength
<1>2. /\ 1 \in 1 .. Depth /\ Len(Stack) >= 1 /\ Dropped(Pop1, 1) /\ given' = Taken(1) /\ given' \in Seq(Word)
      /\ statics' = statics /\ stale' = stale
  BY Operand, TakenAre DEF ArrayLength
<1>3. /\ Sound(m', stale') /\ LocalsOf(m') = LocalsOf(m)
      /\ Stack' = Append(SubSeq(Stack, 1, Len(Stack) - 1), v)
  BY <1>1, <1>2, DroppedIsLike, ReplaceMaps
<1>4. IInv'
  BY <1>2, <1>3 DEF IInv
<1>5. 1 \in 1 .. 2
  BY SMT
<1> QED
  BY <1>2, <1>3, <1>4, <1>5, Zenon DEF JVM!CallFor, JVM!Front, JVM!Operand, Stack, Taken, LocalsOf

LEMMA NewArrayMaps ==
  ASSUME MaxTop <= NRegs, HexTop < NRegs, IInv, NewArray PROVE IInv' /\ JVM!CallFor
<1>1. PICK v \in Word : m' = PushHexValue(Pop1, v)
  BY DEF NewArray
<1>2. m' = PushValue(Pop1, v)
  BY <1>1, Operand, NoHexSpill DEF NewArray, Dropped
<1>3. ArrayLength
  BY <1>2 DEF ArrayLength, NewArray
<1> QED
  BY <1>3, ArrayLengthMaps

(* Pops without a push. *)
LEMMA DropMaps ==
  ASSUME MaxTop <= NRegs, IInv, NEW k \in 1 .. Depth, Dropped(m', k), stale' = stale
  PROVE  /\ Sound(m', stale') /\ LocalsOf(m') = LocalsOf(m)
         /\ Stack' = SubSeq(Stack, 1, Len(Stack) - k)
<1>1. k \in 0 .. Depth
  BY OperandsRead, SMT DEF IInv
<1>2. /\ Sound(m', stale) /\ LocalsOf(m') = LocalsOf(m)
      /\ OperandsOf(m', stale) = SubSeq(Stack, 1, Len(Stack) - k)
  BY <1>1, DroppedIsLike, DropsOperands DEF IInv
<1> QED
  BY <1>2, PlacesAreRegistersNext

LEMMA TakeOneMaps ==
  ASSUME MaxTop <= NRegs, IInv, TakeOne PROVE IInv' /\ JVM!Consume
<1>1. /\ 1 \in 1 .. Depth /\ Len(Stack) >= 1 /\ Dropped(m', 1) /\ given' = Taken(1) /\ given' \in Seq(Word)
      /\ statics' = statics /\ stale' = stale
  BY Operand, TakenAre DEF TakeOne
<1>2. /\ Sound(m', stale') /\ LocalsOf(m') = LocalsOf(m)
      /\ Stack' = SubSeq(Stack, 1, Len(Stack) - 1)
  BY <1>1, DropMaps
<1>3. IInv'
  BY <1>1, <1>2 DEF IInv
<1>4. 1 \in 1 .. 3
  BY SMT
<1> QED
  BY <1>1, <1>2, <1>3, <1>4, Zenon DEF JVM!Consume, JVM!Front, JVM!Operand, Stack, Taken, LocalsOf

LEMMA IfCompareMaps ==
  ASSUME MaxTop <= NRegs, IInv, IfCompare PROVE IInv' /\ JVM!Consume
<1>1. Pop2.reg[GetReg(Pop1)] = Popped(Pop1)
  BY Operand DEF IfCompare, Dropped
<1>2. /\ 2 \in 1 .. Depth /\ Len(Stack) >= 2 /\ Dropped(m', 2) /\ given' = Taken(2) /\ given' \in Seq(Word)
      /\ statics' = statics /\ stale' = stale
  BY <1>1, Operand, TakenAre DEF IfCompare
<1>3. /\ Sound(m', stale') /\ LocalsOf(m') = LocalsOf(m)
      /\ Stack' = SubSeq(Stack, 1, Len(Stack) - 2)
  BY <1>2, DropMaps
<1>4. IInv'
  BY <1>2, <1>3 DEF IInv
<1>5. 2 \in 1 .. 3
  BY SMT
<1> QED
  BY <1>2, <1>3, <1>4, <1>5, Zenon DEF JVM!Consume, JVM!Front, JVM!Operand, Stack, Taken, LocalsOf

LEMMA ArrayStoreMaps ==
  ASSUME MaxTop <= NRegs, IInv, ArrayStore PROVE IInv' /\ JVM!Consume
<1>1. /\ 3 \in 1 .. Depth /\ Len(Stack) >= 3 /\ Dropped(m', 3) /\ given' = Taken(3) /\ given' \in Seq(Word)
      /\ statics' = statics /\ stale' = stale
  BY Operand, TakenAre DEF ArrayStore
<1>2. /\ Sound(m', stale') /\ LocalsOf(m') = LocalsOf(m)
      /\ Stack' = SubSeq(Stack, 1, Len(Stack) - 3)
  BY <1>1, DropMaps
<1>3. IInv'
  BY <1>1, <1>2 DEF IInv
<1>4. 3 \in 1 .. 3
  BY SMT
<1> QED
  BY <1>1, <1>2, <1>3, <1>4, Zenon DEF JVM!Consume, JVM!Front, JVM!Operand, Stack, Taken, LocalsOf

LEMMA StoreLocalMaps ==
  ASSUME MaxTop <= NRegs, IInv, StoreLocal PROVE IInv' /\ JVM!Store
<1>1. PICK l \in Locals : m' = [Pop1 EXCEPT !.frame[FrameLocalVars + l] = Popped(Pop1)]
  BY DEF StoreLocal
<1>2. /\ 1 \in 1 .. Depth /\ Len(Stack) >= 1 /\ Dropped(Pop1, 1)
      /\ Popped(Pop1) = Stack[Len(Stack) + 1 - 1] /\ Popped(Pop1) \in Word
      /\ statics' = statics /\ stale' = stale /\ given' = <<>>
  BY Operand DEF StoreLocal, Quiet
<1>3. /\ Sound(Pop1, stale) /\ LocalsOf(Pop1) = LocalsOf(m)
      /\ OperandsOf(Pop1, stale) = SubSeq(Stack, 1, Len(Stack) - 1)
  <2>1. 1 \in 0 .. Depth
    BY <1>2, OperandsRead, SMT DEF IInv
  <2> QED
    BY <1>2, <2>1, DroppedIsLike, DropsOperands DEF IInv
<1> DEFINE v == Popped(Pop1)
<1>4. /\ Pop1 \in Machine /\ m'.top = Pop1.top /\ m'.reg = Pop1.reg
      /\ m'.frame = [Pop1.frame EXCEPT ![FrameLocalVars + l] = v]
      /\ Pop1.frame \in [Slot -> Content]
  <2>1. Pop1 \in Machine
    BY <1>2 DEF Dropped
  <2> QED
    BY <1>1, <2>1, Zenon DEF Machine
<1>5. v \in Content
  BY <1>2 DEF Content
<1> HIDE DEF v
<1>6. m' \in Machine
  <2>1. m'.frame \in [Slot -> Content]
    BY <1>4, <1>5, Zenon
  <2> QED
    BY <1>1, <1>4, <2>1, Zenon DEF Machine
<1>7. /\ \A x \in FrameCalleeSaved .. FrameLocalVars - 1 : x \in Slot /\ x # FrameLocalVars + l
      /\ \A x \in FrameLocalVars .. FrameJavaStack - 1 : x \in Slot
      /\ \A k \in Locals : FrameLocalVars + k \in Slot /\ (k # l => FrameLocalVars + k # FrameLocalVars + l)
  BY FrameAreas, FrameAssumption, StackAssumption, SMT DEF Locals
<1>8. Sound(m', stale)
  <2>1. \A x \in FrameCalleeSaved .. FrameLocalVars - 1 : m'.frame[x] = Other
    BY <1>3, <1>4, <1>7, Zenon DEF Sound
  <2>2. \A x \in FrameLocalVars .. FrameJavaStack - 1 : m'.frame[x] \in Word
    BY <1>2, <1>3, <1>4, <1>7, Zenon DEF Sound, v
  <2> QED
    BY <1>3, <1>4, <1>6, <2>1, <2>2, Zenon DEF Sound
<1>9. LocalsOf(m') = [LocalsOf(m) EXCEPT ![l] = v]
  <2>1. LocalsOf(m') = [LocalsOf(Pop1) EXCEPT ![l] = v]
    BY <1>4, <1>7, Zenon DEF LocalsOf
  <2> QED
    BY <1>3, <2>1
<1>10. Stack' = SubSeq(Stack, 1, Len(Stack) - 1)
  <2>1. OperandsOf(m', stale) = OperandsOf(Pop1, stale)
    BY <1>4 DEF OperandsOf
  <2> QED
    BY <1>2, <1>3, <1>8, <2>1, PlacesAreRegistersNext
<1>11. IInv'
  BY <1>2, <1>8 DEF IInv
<1>12. v = Stack[Len(Stack) + 1 - 1] /\ DOMAIN LocalsOf(m) = Locals
  BY <1>2 DEF v, LocalsOf
<1> QED
  BY <1>2, <1>9, <1>10, <1>11, <1>12, Zenon DEF JVM!Store, JVM!Front, JVM!Operand, Stack, LocalsOf

(* One pop and one push of _top: the machine is back where it was. *)
LEMMA PopThenPush ==
  ASSUME MaxTop <= NRegs, IInv, Depth >= 1
  PROVE  LET t == PushVirtualStack(Pop1)
         IN  t \in Machine /\ t.top = m.top /\ t.reg = m.reg /\ SameFrame(m, t)
<1>1. Dropped(Pop1, 1) /\ m.top \in 1 .. MaxTop
  BY Operand, FrameAssumption, StackAssumption, SMT DEF IInv, Sound, Machine, Depth
<1>2. Pop1.top < MaxTop /\ Pop1.top + 1 = m.top /\ Pop1 \in Machine
  BY <1>1, FrameAssumption, StackAssumption, SMT DEF Dropped
<1> QED
  BY <1>1, <1>2, PushFew DEF Dropped, SameFrame

LEMMA DupMaps ==
  ASSUME MaxTop <= NRegs, IInv, Dup PROVE IInv' /\ JVM!Dup
<1> DEFINE t == PushVirtualStack(Pop1)
<1>1. t \in Machine /\ t.top = m.top /\ t.reg = m.reg /\ SameFrame(m, t)
  BY PopThenPush DEF Dup
<1>2. /\ Len(Stack) >= 1 /\ Popped(Pop1) = Stack[Len(Stack) + 1 - 1] /\ Popped(Pop1) \in Word
      /\ Dropped(Pop1, 1)
  BY Operand DEF Dup
<1>3. m' = PushValue(t, Popped(Pop1)) /\ stale' = stale /\ statics' = statics /\ given' = <<>>
  BY <1>1, <1>2 DEF Dup, Quiet, Dropped
<1> HIDE DEF t
<1>4. Sound(t, stale) /\ LocalsOf(t) = LocalsOf(m) /\ OperandsOf(t, stale) = Stack
  <2>1. 0 \in 0 .. Depth /\ t.top = m.top - 0 /\ SubSeq(Stack, 1, Len(Stack) - 0) = Stack
    BY <1>1, OperandsRead, Untouched, SMT DEF IInv
  <2> QED
    BY <1>1, <2>1, DropsOperands DEF IInv
<1>5. t.top < MaxTop
  BY <1>1, Untouched DEF IInv, Dup
<1>6. /\ Sound(m', stale') /\ LocalsOf(m') = LocalsOf(m)
      /\ Stack' = Append(Stack, Stack[Len(Stack) + 1 - 1])
  BY <1>2, <1>3, <1>4, <1>5, PushMaps
<1>7. IInv'
  BY <1>3, <1>6 DEF IInv
<1> QED
  BY <1>2, <1>3, <1>6, <1>7, Zenon DEF JVM!Dup, JVM!Operand, Stack, LocalsOf

LEMMA PutStaticMaps ==
  ASSUME MaxTop <= NRegs, IInv, PutStatic PROVE IInv' /\ JVM!PutStatic
<1>1. PICK f \in Fields : statics' = [statics EXCEPT ![f] = Popped(Pop1)]
  BY DEF PutStatic
<1>2. Depth >= 1 /\ Depth = 1
  BY SMT DEF PutStatic
<1>3. /\ Len(Stack) >= 1 /\ Popped(Pop1) = Stack[Len(Stack) + 1 - 1] /\ Popped(Pop1) \in Word
  BY <1>2, Operand
<1>4. m' \in Machine /\ m'.top = m.top /\ m'.reg = m.reg /\ SameFrame(m, m') /\ stale' = m.top /\ given' = <<>>
  BY <1>2, PopThenPush DEF PutStatic
<1>5. Sound(m', stale) /\ LocalsOf(m') = LocalsOf(m)
  <2>1. 0 \in 0 .. Depth /\ m'.top = m.top - 0
    BY <1>2, <1>4, Untouched, SMT DEF IInv
  <2> QED
    BY <1>4, <2>1, DropsOperands DEF IInv
<1>6. Sound(m', stale')
  <2>1. m.top \in Nat
    BY Untouched DEF IInv
  <2>2. stale' \in 0 .. m'.top /\ \A j \in stale' .. m'.top - 1 : m'.reg[j] \in Word
    BY <1>4, <2>1, SMT
  <2> QED
    BY <1>5, <2>2 DEF Sound
<1>7. Stack' = <<>>
  <2>1. m'.top \in Nat /\ stale' = m'.top
    BY <1>4, Untouched DEF IInv
  <2> QED
    BY <1>6, <2>1, NoOperands, PlacesAreRegistersNext
<1>8. SubSeq(Stack, 1, Len(Stack) - 1) = <<>>
  <2>1. Len(Stack) - 1 = 0 /\ Stack \in Seq(Word)
    BY <1>2, OperandsRead, SMT DEF IInv
  <2> HIDE DEF Stack
  <2> QED
    BY <2>1, SMT
<1>9. statics' \in [Fields -> Word] /\ DOMAIN statics = Fields
  BY <1>1, <1>3, Zenon DEF IInv
<1>10. IInv'
  BY <1>4, <1>6, <1>9, SMT DEF IInv
<1> QED
  BY <1>1, <1>3, <1>4, <1>5, <1>7, <1>8, <1>9, <1>10, Zenon DEF JVM!PutStatic, JVM!Front, JVM!Operand, Stack, LocalsOf

(* A method's prologue sets up a frame without operands. *)
LEMMA NextMethodMaps ==
  ASSUME MaxTop <= NRegs, IInv, NextMethod PROVE IInv' /\ JVM!Enter
<1>1. PICK v \in Word : m' = [top |-> m.top, reg |-> [r \in Reg |-> Other], frame |-> Prologue(v)]
  BY DEF NextMethod
<1>2. m.top \in 0 .. MaxTop /\ stale' = m.top /\ statics' = statics /\ given' = <<>>
  BY DEF IInv, Sound, Machine, NextMethod
<1>3. Sound(m', stale') /\ OperandsOf(m', stale') = <<>>
  BY <1>1, <1>2, PrologueSound
<1>4. Stack' = <<>>
  BY <1>3, PlacesAreRegistersNext
<1>5. IInv'
  BY <1>2, <1>3, SMT DEF IInv
<1> QED
  BY <1>2, <1>4, <1>5 DEF JVM!Enter, Stack

-----------------------------------------------------------------------------
LEMMA InitSound == Init => IInv
<1> SUFFICES ASSUME Init PROVE IInv
  OBVIOUS
<1>1. PICK v \in Word : m = [top |-> 0, reg |-> [r \in Reg |-> Other], frame |-> Prologue(v)]
  BY DEF Init
<1>2. 0 \in 0 .. MaxTop
  BY FrameAssumption, StackAssumption, SMT
<1>3. Sound(m, 0)
  BY <1>1, <1>2, PrologueSound
<1> QED
  BY <1>3, SMT DEF Init, IInv

(* Every step keeps the invariant and is a step of the abstract machine. *)
LEMMA StepSound ==
  ASSUME MaxTop <= NRegs, HexTop < NRegs, IInv, [Next]_vars
  PROVE  IInv' /\ [JVM!Next]_<<Stack, LocalsOf(m), statics, given>>
<1>1. CASE PushConstant
  BY <1>1, PushConstantMaps DEF JVM!Next
<1>2. CASE LoadLocal
  BY <1>2, LoadLocalMaps DEF JVM!Next
<1>3. CASE StoreLocal
  BY <1>3, StoreLocalMaps DEF JVM!Next
<1>4. CASE Dup
  BY <1>4, DupMaps DEF JVM!Next
<1>5. CASE Compute
  BY <1>5, ComputeMaps DEF JVM!Next
<1>6. CASE ComputeBoth
  BY <1>6, ComputeBothMaps DEF JVM!Next
<1>7. CASE Ineg
  BY <1>7, InegMaps DEF JVM!Next
<1>8. CASE Dneg
  BY <1>8, DnegMaps DEF JVM!Next
<1>9. CASE GetStatic
  BY <1>9, GetStaticMaps DEF JVM!Next
<1>10. CASE PutStatic
  BY <1>10, PutStaticMaps DEF JVM!Next
<1>11. CASE TakeOne
  BY <1>11, TakeOneMaps DEF JVM!Next
<1>12. CASE IfCompare
  BY <1>12, IfCompareMaps DEF JVM!Next
<1>13. CASE ArrayLoad
  BY <1>13, ArrayLoadMaps DEF JVM!Next
<1>14. CASE ArrayStore
  BY <1>14, ArrayStoreMaps DEF JVM!Next
<1>15. CASE ArrayLength
  BY <1>15, ArrayLengthMaps DEF JVM!Next
<1>16. CASE NextMethod
  BY <1>16, NextMethodMaps DEF JVM!Next
<1>17. CASE PushLiteral
  BY <1>17, PushLiteralMaps DEF JVM!Next
<1>18. CASE NewArray
  BY <1>18, NewArrayMaps DEF JVM!Next
<1>19. CASE UNCHANGED vars
  BY <1>19 DEF vars, IInv, Sound, Stack, Depth, Place, LocalsOf
<1> QED
  BY <1>1, <1>2, <1>3, <1>4, <1>5, <1>6, <1>7, <1>8, <1>9, <1>10, <1>11, <1>12, <1>13,
     <1>14, <1>15, <1>16, <1>17, <1>18, <1>19 DEF Next

LEMMA InvariantHolds == ASSUME MaxTop <= NRegs, HexTop < NRegs PROVE Spec => []IInv
<1>1. Init => IInv
  BY InitSound
<1>2. IInv /\ [Next]_vars => IInv'
  BY StepSound
<1> QED
  BY <1>1, <1>2, PTL DEF Spec

LEMMA InvariantTyped == IInv => TypeOK
BY DEF IInv, TypeOK, Sound, Machine

LEMMA InvariantKeepsFrame == IInv => FrameKept
BY DEF IInv, FrameKept, Sound

(***************************************************************************)
(* Registers, frame and _top stay what they should be: with no more        *)
(* operands than stack registers, pushVirtualStack and popVirtualStack     *)
(* never leave the area of the frame they own.                             *)
(***************************************************************************)
THEOREM Typed == ASSUME MaxTop <= NRegs, HexTop < NRegs PROVE Spec => []TypeOK
BY InvariantHolds, InvariantTyped, PTL

(***************************************************************************)
(* No operand is saved over the callee-saved registers that                *)
(* restoreRegsBeforeReturn reloads, nor a local variable with anything but *)
(* an operand.                                                             *)
(***************************************************************************)
THEOREM CallerRestored == ASSUME MaxTop <= NRegs, HexTop < NRegs PROVE Spec => []FrameKept
BY InvariantHolds, InvariantKeepsFrame, PTL

(***************************************************************************)
(* The code codeGenOne emits implements the operand stack of the bytecode, *)
(* step by step, as long as _top stays within the stack registers.         *)
(***************************************************************************)
THEOREM CodeImplementsBytecode ==
  ASSUME MaxTop <= NRegs, HexTop < NRegs PROVE Spec => ImplementsOperandStack
<1>1. Spec => []IInv
  BY InvariantHolds
<1>2. Init => JVM!Init
  <2> SUFFICES ASSUME Init PROVE JVM!Init
    OBVIOUS
  <2>1. m.top = 0 /\ stale = 0 /\ given = <<>>
    BY DEF Init
  <2>2. Stack = OperandsOf(m, stale) /\ OperandsOf(m, stale) = <<>>
    BY <2>1, InitSound, PlacesAreRegisters, NoOperands, SMT DEF IInv
  <2> QED
    BY <2>1, <2>2 DEF JVM!Init, Stack
<1>3. IInv /\ [Next]_vars => [JVM!Next]_<<Stack, LocalsOf(m), statics, given>>
  BY StepSound
<1> QED
  BY <1>1, <1>2, <1>3, PTL DEF Spec, ImplementsOperandStack, JVM!Spec, Stack, LocalsOf

=============================================================================
