------------------------------ MODULE JumpProofs ------------------------------
(***************************************************************************)
(* With at most as many operands as stack registers, and literals below    *)
(* the last of them, code with jumps does what its bytecode does until     *)
(* operands cross a jump to code translated with another _top; the         *)
(* caller's registers stay saved even then.                                *)
(***************************************************************************)
EXTENDS JumpCode, RegisterLemmas

(* What codeGenOne leaves for instruction i. *)
Translated(i) ==
  LET c == code[i]
  IN /\ c.op \in Ops /\ c.arg \in Args(c.op) /\ c.top \in 0 .. MaxTop
     /\ c.top >= Pops(c.op) /\ TopAfter(c.op, c.top) \in 0 .. MaxTop
     /\ entry[i] >= Pops(c.op)
     /\ c.op = "putstatic" => entry[i] = 1
     /\ c.op = "literal" => c.top < HexTop
     /\ \A t \in Successors(i, c.op, c.arg) : 
          t \in 1 .. MaxLength + 1 /\ entry[t] = entry[i] - Pops(c.op) + Pushes(c.op)
     /\ i < Len(code) => code[i + 1].top = TopAfter(c.op, c.top)
     /\ i = Len(code) => top = TopAfter(c.op, c.top)

CodeInv ==
  /\ code \in Seq(Instruction) /\ Len(code) <= MaxLength
  /\ top \in 0 .. MaxTop
  /\ entry \in [1 .. MaxLength + 1 -> Int]
  /\ entry[1] = 0
  /\ \A t \in 1 .. MaxLength + 1 : Unknown <= entry[t] /\ entry[t] <= Len(code)
  /\ \A i \in 1 .. Len(code) : Translated(i)

SavedKept(s) == \A x \in FrameCalleeSaved .. FrameLocalVars - 1 : s.frame[x] = Other

(* Machine s holds the operands st. *)
Holds(s, st) ==
  /\ Len(st) <= s.top
  /\ Sound(s, s.top - Len(st))
  /\ OperandsOf(s, s.top - Len(st)) = st

DataInv ==
  /\ stage \in {"codeGen", "run", "returned"}
  /\ m \in Machine /\ SavedKept(m)
  /\ statics \in [Fields -> Content] /\ values \in [Fields -> Word]
  /\ stack \in Seq(Word) /\ locals \in [Locals -> Word]
  /\ aligned \in BOOLEAN
  /\ aligned => pc = at /\ Holds(m, stack) /\ LocalsOf(m) = locals /\ statics = values

FlowInv ==
  IF stage = "codeGen" THEN pc = 1 /\ at = 1 /\ stack = <<>>
  ELSE /\ pc \in 1 .. Len(code) /\ at \in 1 .. Len(code)
       /\ m.top = code[pc].top
       /\ Len(stack) = entry[at]
       /\ \A t \in 1 .. MaxLength + 1 : entry[t] # Unknown => t <= Len(code)

IInv == CodeInv /\ DataInv /\ FlowInv

-----------------------------------------------------------------------------
(* What the instructions do to a machine that holds the operands st.       *)
LEMMA Pushed ==
  ASSUME MaxTop <= NRegs, NEW s \in Machine, SavedKept(s), s.top < MaxTop, NEW v \in Content
  PROVE  /\ PushValue(s, v) \in Machine /\ SavedKept(PushValue(s, v))
         /\ PushValue(s, v).top = s.top + 1
         /\ \A st : st \in Seq(Word) /\ Holds(s, st) /\ v \in Word
                      => /\ Holds(PushValue(s, v), Append(st, v))
                         /\ LocalsOf(PushValue(s, v)) = LocalsOf(s)
<1> DEFINE t == PushValue(s, v)
<1>1. t \in Machine /\ t.top = s.top + 1 /\ SameFrame(s, t)
  BY PushValueFew
<1>2. SavedKept(t)
  BY <1>1, SameBelow DEF SavedKept
<1>3. ASSUME NEW st \in Seq(Word), Holds(s, st), v \in Word
      PROVE  Holds(t, Append(st, v)) /\ LocalsOf(t) = LocalsOf(s)
  <2> DEFINE b == s.top - Len(st)
  <2>1. Sound(s, b) /\ OperandsOf(s, b) = st /\ Len(st) <= s.top
    BY <1>3 DEF Holds
  <2>2. Sound(t, b) /\ LocalsOf(t) = LocalsOf(s) /\ OperandsOf(t, b) = Append(st, v)
    BY <2>1, <1>3, PushAppends
  <2>3. t.top - Len(Append(st, v)) = b /\ Len(Append(st, v)) <= t.top
    BY <1>1, <2>1, FrameAssumption, SMT DEF Machine
  <2> QED
    BY <2>2, <2>3 DEF Holds
<1> QED
  BY <1>1, <1>2, <1>3

LEMMA Lowered ==
  ASSUME MaxTop <= NRegs, NEW s, NEW st \in Seq(Word), Holds(s, st), NEW k \in 0 .. Len(st),
         NEW t \in Machine, t.top = s.top - k, t.reg = s.reg, SameFrame(s, t)
  PROVE  Holds(t, SubSeq(st, 1, Len(st) - k)) /\ LocalsOf(t) = LocalsOf(s)
<1> DEFINE b == s.top - Len(st)
           u == SubSeq(st, 1, Len(st) - k)
<1>1. Sound(s, b) /\ OperandsOf(s, b) = st /\ Len(st) <= s.top /\ s.top \in Nat
  BY FrameAssumption, SMT DEF Holds, Sound, Machine
<1>2. k \in 0 .. s.top - b /\ s.top - b = Len(st)
  BY <1>1, SMT
<1>3. /\ Sound(t, b) /\ LocalsOf(t) = LocalsOf(s)
      /\ OperandsOf(t, b) = SubSeq(OperandsOf(s, b), 1, Len(OperandsOf(s, b)) - k)
  BY <1>1, <1>2, LowerKeeps
<1>4. Len(u) = Len(st) - k /\ t.top - Len(u) = b /\ Len(u) <= t.top
  BY <1>1, <1>2, SMT
<1> QED
  BY <1>1, <1>3, <1>4 DEF Holds

LEMMA Reads ==
  ASSUME MaxTop <= NRegs, NEW s, NEW st \in Seq(Word), Holds(s, st), NEW k \in 1 .. Len(st)
  PROVE  s.reg[s.top - k] = st[Len(st) + 1 - k] /\ st[Len(st) + 1 - k] \in Word
<1> DEFINE b == s.top - Len(st)
<1>1. Sound(s, b) /\ OperandsOf(s, b) = st /\ Len(st) <= s.top /\ s.top \in Nat
  BY FrameAssumption, SMT DEF Holds, Sound, Machine
<1>2. s.top - b = Len(st)
  BY <1>1, SMT
<1> HIDE DEF b
<1>3. \A j \in 1 .. s.top - b :
        OperandsOf(s, b)[s.top - b + 1 - j] = s.reg[s.top - j] /\ s.reg[s.top - j] \in Word
  BY <1>1, OperandsAre
<1>4. \A j \in 1 .. Len(st) : st[Len(st) + 1 - j] = s.reg[s.top - j] /\ s.reg[s.top - j] \in Word
  BY <1>1, <1>2, <1>3
<1> QED
  BY <1>4

LEMMA HoldsNone ==
  ASSUME NEW s \in Machine, SavedKept(s),
         \A x \in FrameLocalVars .. FrameJavaStack - 1 : s.frame[x] \in Word
  PROVE  Holds(s, <<>>)
<1>0. s.top \in Nat
  BY FrameAssumption, SMT DEF Machine
<1>1. /\ s.top - Len(<<>>) = s.top /\ Len(<<>>) <= s.top
      /\ s.top \in 0 .. s.top /\ s.top .. s.top - 1 = {}
  BY <1>0, SMT
<1>2. Sound(s, s.top)
  BY <1>1 DEF Sound, SavedKept
<1> QED
  BY <1>0, <1>1, <1>2, NoOperands DEF Holds

-----------------------------------------------------------------------------
(* Where the two are at the same instruction. *)
LEMMA Arrived ==
  ASSUME IInv, NEW op, At(op)
  PROVE  /\ stage = "run" /\ pc = at /\ pc \in 1 .. Len(code)
         /\ op \in Ops /\ Here.op = op /\ Here.arg \in Args(op)
         /\ m.top = Here.top /\ Pops(op) \in Nat /\ m.top >= Pops(op) /\ Len(stack) >= Pops(op)
         /\ TopAfter(op, m.top) \in 0 .. MaxTop
         /\ op = "putstatic" => Len(stack) = 1
         /\ op = "literal" => m.top < HexTop
         /\ \A t \in Successors(pc, op, Here.arg) :
              /\ t \in 1 .. Len(code)
              /\ entry[t] = Len(stack) - Pops(op) + Pushes(op)
              /\ code[t].top \in 0 .. MaxTop
         /\ pc + 1 \in 1 .. Len(code) => code[pc + 1].top = TopAfter(op, m.top)
<1>1. /\ stage = "run" /\ pc = at /\ Here.op = op /\ stage # "codeGen" /\ Here = code[pc]
  BY DEF At, Here
<1>2. /\ pc \in 1 .. Len(code) /\ m.top = Here.top /\ Len(stack) = entry[pc]
      /\ \A t \in 1 .. MaxLength + 1 : entry[t] # Unknown => t <= Len(code)
  BY <1>1 DEF IInv, FlowInv
<1>3. Translated(pc) /\ \A i \in 1 .. Len(code) : code[i].top \in 0 .. MaxTop
  BY <1>2 DEF IInv, CodeInv, Translated
<1>4. /\ op \in Ops /\ Here.arg \in Args(op) /\ m.top >= Pops(op) /\ Len(stack) >= Pops(op)
      /\ TopAfter(op, m.top) \in 0 .. MaxTop
      /\ op = "putstatic" => Len(stack) = 1
      /\ op = "literal" => m.top < HexTop
      /\ \A t \in Successors(pc, op, Here.arg) : 
           t \in 1 .. MaxLength + 1 /\ entry[t] = Len(stack) - Pops(op) + Pushes(op)
      /\ pc < Len(code) => code[pc + 1].top = TopAfter(op, m.top)
  BY <1>1, <1>2, <1>3 DEF Translated
<1>5. Len(stack) \in Nat /\ Pops(op) \in Nat /\ Pushes(op) \in Nat /\ Len(code) \in Nat
  BY SMT DEF Pops, Pushes, IInv, DataInv, CodeInv
<1>6. \A t \in Successors(pc, op, Here.arg) : entry[t] # Unknown /\ t \in 1 .. Len(code)
  BY <1>2, <1>4, <1>5, SMT DEF Unknown
<1>7. pc + 1 \in 1 .. Len(code) => pc < Len(code)
  BY <1>2, <1>5, SMT
<1> QED
  BY <1>1, <1>2, <1>3, <1>4, <1>5, <1>6, <1>7

(* The machine goes on to instruction t, the bytecode to at'. *)
LEMMA GoesOn ==
  ASSUME MaxTop <= NRegs, IInv, stage = "run", NEW t \in 1 .. Len(code),
         NEW s \in Machine, SavedKept(s), NEW st \in Seq(Word), Go(s, t, st),
         t = pc + 1 => s.top = code[t].top,
         aligned => Holds(s, st) /\ at' = t /\ locals' = LocalsOf(s) /\ statics' = values',
         at' \in 1 .. Len(code), entry[at'] = Len(st),
         locals' \in [Locals -> Word],
         statics' \in [Fields -> Content], values' \in [Fields -> Word]
  PROVE  IInv'
<1>1. /\ pc' = t /\ m' = [s EXCEPT !.top = code[t].top] /\ stack' = st /\ stage' = stage
      /\ aligned' = (aligned /\ (t = pc + 1 \/ st = <<>> \/ s.top = code[t].top))
      /\ code' = code /\ top' = top /\ entry' = entry
  BY DEF Go, translation
<1>2. CodeInv'
  BY <1>1 DEF IInv, CodeInv, Translated
<1>3. code[t].top \in 0 .. MaxTop
  BY DEF IInv, CodeInv, Translated
<1>4. m' \in Machine /\ m'.top = code[t].top /\ m'.reg = s.reg /\ m'.frame = s.frame
  BY <1>1, <1>3, SMTT(20) DEF Machine
<1>5. SavedKept(m') /\ LocalsOf(m') = LocalsOf(s)
  BY <1>4 DEF SavedKept, LocalsOf
<1>6. ASSUME aligned' PROVE Holds(m', st)
  <2>1. Holds(s, st) /\ (st = <<>> \/ s.top = code[t].top)
    BY <1>1, <1>6
  <2>2. CASE st = <<>>
    <3>1. \A x \in FrameLocalVars .. FrameJavaStack - 1 : m'.frame[x] \in Word
      BY <1>4, <2>1 DEF Holds, Sound
    <3> QED
      BY <1>4, <1>5, <2>2, <3>1, HoldsNone
  <2>3. CASE s.top = code[t].top
    <3>1. m' = s
      BY <1>1, <2>3 DEF Machine
    <3> QED
      BY <2>1, <3>1
  <2> QED
    BY <2>1, <2>2, <2>3
<1>7. DataInv'
  <2>1. aligned' \in BOOLEAN
    BY <1>1 DEF IInv, DataInv
  <2>2. aligned' => pc' = at' /\ LocalsOf(m') = locals' /\ statics' = values'
    BY <1>1, <1>5
  <2> QED
    BY <1>1, <1>4, <1>5, <1>6, <2>1, <2>2 DEF IInv, DataInv
<1>8. FlowInv'
  BY <1>1, <1>4 DEF IInv, FlowInv
<1> QED
  BY <1>2, <1>7, <1>8 DEF IInv

-----------------------------------------------------------------------------
(* The machine of this state and the bytecode's operands. *)
LEMMA Current ==
  ASSUME IInv
  PROVE  /\ m \in Machine /\ SavedKept(m) /\ m.top \in 0 .. MaxTop /\ MaxTop \in Nat
         /\ stack \in Seq(Word) /\ Len(stack) \in Nat /\ at \in Int
         /\ statics \in [Fields -> Content] /\ values \in [Fields -> Word]
         /\ locals \in [Locals -> Word]
         /\ aligned => /\ Holds(m, stack) /\ LocalsOf(m) = locals /\ statics = values
                       /\ \A x \in FrameLocalVars .. FrameJavaStack - 1 : m.frame[x] \in Word
<1>1. DataInv /\ m.top \in 0 .. MaxTop
  BY SMT DEF IInv, DataInv, Machine
<1>2. at \in Int
  BY SMT DEF IInv, FlowInv
<1> QED
  BY <1>1, <1>2, FrameAssumption, SMT DEF DataInv, Holds, Sound

(* Instructions that push v on the machine and w on the operand stack. *)
LEMMA PushKeeps ==
  ASSUME MaxTop <= NRegs, IInv, NEW op \in {"const", "literal", "load", "getstatic"}, At(op),
         NEW v \in Content, NEW w \in Word, aligned => v = w,
         Go(PushValue(m, v), pc + 1, Append(stack, w)), at' = at + 1,
         UNCHANGED <<statics, values, locals>>
  PROVE  IInv'
<1> DEFINE s  == PushValue(m, v)
           st == Append(stack, w)
<1>1. /\ stage = "run" /\ pc = at /\ pc \in 1 .. Len(code) /\ Len(code) \in Nat
      /\ pc + 1 \in 1 .. Len(code) /\ entry[pc + 1] = Len(stack) + 1
      /\ code[pc + 1].top = m.top + 1 /\ m.top < MaxTop
  <2>1. Pops(op) = 0 /\ Pushes(op) = 1 /\ TopAfter(op, m.top) = m.top + 1 - 0
    BY SMT DEF Pops, Pushes, TopAfter
  <2>2. pc + 1 \in Successors(pc, op, Here.arg)
    BY DEF Successors
  <2>3. Len(code) \in Nat
    BY SMT DEF IInv, CodeInv
  <2> QED
    BY <2>1, <2>2, <2>3, Arrived, Current, SMT
<1>2. s \in Machine /\ SavedKept(s) /\ s.top = m.top + 1
      /\ (aligned => Holds(s, st) /\ LocalsOf(s) = LocalsOf(m))
  <2>1. m \in Machine /\ SavedKept(m) /\ stack \in Seq(Word)
    BY Current
  <2>2. /\ s \in Machine /\ SavedKept(s) /\ s.top = m.top + 1
        /\ Holds(m, stack) /\ v \in Word 
             => Holds(s, Append(stack, v)) /\ LocalsOf(s) = LocalsOf(m)
    BY <1>1, <2>1, Pushed
  <2> QED
    BY <2>2, Current
<1>3. st \in Seq(Word) /\ Len(st) = Len(stack) + 1
  BY Current
<1>4. aligned => Holds(s, st) /\ at' = pc + 1 /\ locals' = LocalsOf(s) /\ statics' = values'
  BY <1>1, <1>2, Current
<1> HIDE DEF s, st
<1>5. Go(s, pc + 1, st)
  BY DEF s, st
<1>6. at' \in 1 .. Len(code) /\ entry[at'] = Len(st) /\ s.top = code[pc + 1].top
  BY <1>1, <1>2, <1>3
<1> QED
  BY <1>1, <1>2, <1>3, <1>4, <1>5, <1>6, Current, GoesOn

LEMMA ConstKeeps ==
  ASSUME MaxTop <= NRegs, IInv, Const PROVE IInv'
<1>1. At("const") /\ Here.arg \in Args("const")
  BY Arrived DEF Const
<1>2. Args("const") = Word
  BY DEF Args, Jumps
<1>3. Here.arg \in Word /\ Here.arg \in Content
  BY <1>1, <1>2 DEF Content
<1>4. /\ Go(PushValue(m, Here.arg), pc + 1, Append(stack, Here.arg)) /\ at' = at + 1
      /\ UNCHANGED <<statics, values, locals>>
  BY DEF Const
<1> QED
  BY <1>1, <1>3, <1>4, PushKeeps

LEMMA LiteralKeeps ==
  ASSUME MaxTop <= NRegs, HexTop < NRegs, IInv, Literal PROVE IInv'
<1>1. At("literal") /\ Here.arg \in Args("literal") /\ m.top < HexTop
  BY Arrived DEF Literal
<1>2. Args("literal") = Word
  BY DEF Args, Jumps
<1>3. Here.arg \in Word /\ Here.arg \in Content
  BY <1>1, <1>2 DEF Content
<1>4. PushHexValue(m, Here.arg) = PushValue(m, Here.arg)
  BY <1>1, Current, NoHexSpill
<1>5. /\ Go(PushValue(m, Here.arg), pc + 1, Append(stack, Here.arg)) /\ at' = at + 1
      /\ UNCHANGED <<statics, values, locals>>
  BY <1>4 DEF Literal
<1> QED
  BY <1>1, <1>3, <1>5, PushKeeps

LEMMA LoadKeeps ==
  ASSUME MaxTop <= NRegs, IInv, Load PROVE IInv'
<1>1. At("load") /\ Here.arg \in Locals
  BY Arrived DEF Load, Args, Jumps
<1> DEFINE v == m.frame[FrameLocalVars + Here.arg]
           w == locals[Here.arg]
<1>2. v \in Content
  <2>1. FrameLocalVars + Here.arg \in Slot
    BY <1>1, FrameAreas, FrameAssumption, SMT DEF Locals
  <2>2. m.frame \in [Slot -> Content]
    BY Current DEF Machine
  <2> QED
    BY <2>1, <2>2
<1>3. w \in Word /\ (aligned => v = w)
  <2>1. LocalsOf(m)[Here.arg] = v
    BY <1>1 DEF LocalsOf
  <2> QED
    BY <1>1, <2>1, Current
<1> QED
  BY <1>1, <1>2, <1>3, PushKeeps DEF Load

LEMMA GetStaticKeeps ==
  ASSUME MaxTop <= NRegs, IInv, GetStatic PROVE IInv'
<1>1. At("getstatic") /\ Here.arg \in Fields
  BY Arrived DEF GetStatic, Args, Jumps
<1>2. /\ statics[Here.arg] \in Content /\ values[Here.arg] \in Word
      /\ aligned => statics[Here.arg] = values[Here.arg]
  BY <1>1, Current
<1> QED
  BY <1>1, <1>2, PushKeeps DEF GetStatic

(* A machine k operands lower, with the registers and locals as they are. *)
LEMMA PoppedOff ==
  ASSUME MaxTop <= NRegs, IInv, NEW k \in 0 .. Len(stack), NEW s \in Machine,
         s.top = m.top - k, s.reg = m.reg, SameFrame(m, s)
  PROVE  /\ SavedKept(s) /\ Left(k) \in Seq(Word) /\ Len(Left(k)) = Len(stack) - k
         /\ aligned => /\ Holds(s, Left(k)) /\ LocalsOf(s) = locals
                       /\ \A j \in 1 .. Len(stack) : m.reg[m.top - j] = Operand(j)
         /\ \A j \in 1 .. Len(stack) : Operand(j) \in Word
<1>1. SavedKept(s)
  BY Current, SameBelow DEF SavedKept
<1>2. stack \in Seq(Word) /\ Left(k) \in Seq(Word) /\ Len(Left(k)) = Len(stack) - k
  BY Current, SMT DEF Left
<1>3. ASSUME aligned
      PROVE  /\ Holds(s, Left(k)) /\ LocalsOf(s) = locals
             /\ \A j \in 1 .. Len(stack) : m.reg[m.top - j] = Operand(j)
  <2>1. Holds(m, stack) /\ LocalsOf(m) = locals
    BY <1>3, Current
  <2>2. Holds(s, Left(k)) /\ LocalsOf(s) = LocalsOf(m)
    BY <1>2, <2>1, Lowered DEF Left
  <2> QED
    BY <1>2, <2>1, <2>2, Reads DEF Operand
<1>4. \A j \in 1 .. Len(stack) : Operand(j) \in Word
  BY <1>2, SMT DEF Operand
<1> QED
  BY <1>1, <1>2, <1>3, <1>4

LEMMA SameFrameAfter ==
  ASSUME NEW s, NEW t, t.frame = s.frame PROVE SameFrame(s, t)
BY DEF SameFrame

LEMMA PutStaticKeeps ==
  ASSUME MaxTop <= NRegs, IInv, PutStatic PROVE IInv'
<1> DEFINE s == PushVirtualStack(Pop1)
           v == Popped(Pop1)
<1>1. /\ At("putstatic") /\ Here.arg \in Fields /\ Len(stack) = 1 /\ m.top >= 1 /\ 1 \in 0 .. Len(stack)
      /\ Pops("putstatic") = 1 /\ Pushes("putstatic") = 0
  <2>1. Pops("putstatic") = 1 /\ Pushes("putstatic") = 0
    BY DEF Pops, Pushes
  <2> QED
    BY <2>1, Arrived, SMT DEF PutStatic, Args, Jumps
<1>2. /\ stage = "run" /\ pc = at /\ pc + 1 \in 1 .. Len(code) /\ entry[pc + 1] = 0
      /\ code[pc + 1].top = m.top
  <2>1. TopAfter("putstatic", m.top) = m.top + 0 - 0 /\ m.top \in Nat
    BY Current, SMT DEF Pushes, TopAfter
  <2>2. pc + 1 \in Successors(pc, "putstatic", Here.arg)
    BY DEF Successors
  <2>3. /\ stage = "run" /\ pc = at
        /\ pc + 1 \in 1 .. Len(code) /\ entry[pc + 1] = Len(stack) - 1 + 0
        /\ pc + 1 \in 1 .. Len(code) => code[pc + 1].top = TopAfter("putstatic", m.top)
    BY <1>1, <2>2, Arrived
  <2> QED
    BY <1>1, <2>1, <2>3, SMT
<1>3. /\ Pop1 \in Machine /\ Pop1.top = m.top - 1 /\ Pop1.reg = m.reg /\ Pop1.frame = m.frame
      /\ v = m.reg[m.top - 1] /\ v \in Content /\ m.top - 1 \in 0 .. 4
  <2>1. m \in Machine /\ m.top \in 0 .. MaxTop
    BY Current
  <2>2. m.top - 1 \in Reg /\ m.reg \in [Reg -> Content] /\ m.top - 1 \in 0 .. 4
    BY <1>1, <2>1, FrameAssumption, SMT DEF Machine, Reg, NRegs
  <2> QED
    BY <1>1, <2>1, <2>2, PopFew DEF Pop1
<1>4. s \in Machine /\ s.top = m.top /\ s.reg = m.reg /\ SameFrame(m, s)
  <2>1. Pop1.top < MaxTop /\ Pop1.top + 1 = m.top
    BY <1>1, <1>3, Current, SMT
  <2> QED
    BY <1>3, <2>1, PushFew DEF SameFrame
<1>5. /\ SavedKept(s) /\ LocalsOf(s) = LocalsOf(m)
      /\ \A x \in FrameLocalVars .. FrameJavaStack - 1 : s.frame[x] = m.frame[x]
  BY <1>4, Current, SameBelow DEF SavedKept
<1>6. /\ Left(1) \in Seq(Word) /\ Len(Left(1)) = 0 /\ Left(1) = <<>>
      /\ Operand(1) \in Word /\ (aligned => v = Operand(1))
  <2>1. /\ Left(1) \in Seq(Word) /\ Len(Left(1)) = Len(stack) - 1 /\ Operand(1) \in Word
        /\ aligned => m.reg[m.top - 1] = Operand(1)
    BY <1>1, <1>3, PoppedOff, SameFrameAfter
  <2> QED
    BY <1>1, <1>3, <2>1, SMT
<1>7. aligned => Holds(s, Left(1)) /\ LocalsOf(s) = locals
  BY <1>4, <1>5, <1>6, Current, HoldsNone
<1> HIDE DEF s, v
<1>8. /\ Go(s, pc + 1, Left(1)) /\ at' = at + 1 /\ locals' = locals
      /\ statics' = [statics EXCEPT ![Here.arg] = v]
      /\ values' = [values EXCEPT ![Here.arg] = Operand(1)]
  BY DEF PutStatic, s, v
<1>9. /\ statics' \in [Fields -> Content] /\ values' \in [Fields -> Word]
      /\ aligned => statics' = values'
  BY <1>3, <1>6, <1>8, Current
<1>10. aligned => Holds(s, Left(1)) /\ at' = pc + 1 /\ locals' = LocalsOf(s) /\ statics' = values'
  BY <1>2, <1>7, <1>8, <1>9
<1>11. at' \in 1 .. Len(code) /\ entry[at'] = Len(Left(1)) /\ s.top = code[pc + 1].top
  BY <1>2, <1>4, <1>6, <1>8
<1> QED
  BY <1>2, <1>4, <1>5, <1>6, <1>8, <1>9, <1>10, <1>11, Current, GoesOn

LEMMA StoreKeeps ==
  ASSUME MaxTop <= NRegs, IInv, Store PROVE IInv'
<1> DEFINE v == Popped(Pop1)
           l == Here.arg
           s == Stored(Pop1, l, v)
           b == Pop1.top - Len(Left(1))
<1>1. At("store") /\ Here.arg \in Args("store") /\ Args("store") = Locals
      /\ Pops("store") = 1 /\ Pushes("store") = 0 /\ m.top >= 1 /\ Len(stack) >= 1
  <2>1. Pops("store") = 1 /\ Pushes("store") = 0 /\ Args("store") = Locals
    BY DEF Pops, Pushes, Args, Jumps
  <2> QED
    BY <2>1, Arrived DEF Store
<1>2. /\ stage = "run" /\ pc = at /\ pc + 1 \in 1 .. Len(code) /\ entry[pc + 1] = Len(stack) - 1
      /\ code[pc + 1].top = m.top - 1
  <2>1. TopAfter("store", m.top) = m.top + 0 - 1 /\ m.top \in Nat /\ Len(stack) \in Nat
    BY Current, SMT DEF Pops, Pushes, TopAfter
  <2>2. pc + 1 \in Successors(pc, "store", Here.arg)
    BY DEF Successors
  <2>3. /\ stage = "run" /\ pc = at
        /\ pc + 1 \in 1 .. Len(code) /\ entry[pc + 1] = Len(stack) - 1 + 0
        /\ pc + 1 \in 1 .. Len(code) => code[pc + 1].top = TopAfter("store", m.top)
    BY <1>1, <2>2, Arrived
  <2> QED
    BY <1>1, <2>1, <2>3, SMT
<1>3. /\ Pop1 \in Machine /\ Pop1.top = m.top - 1 /\ Pop1.reg = m.reg /\ Pop1.frame = m.frame
      /\ v = m.reg[m.top - 1] /\ v \in Content
  <2>1. m \in Machine /\ m.top \in 0 .. MaxTop
    BY Current
  <2>2. m.top - 1 \in Reg /\ m.reg \in [Reg -> Content]
    BY <1>1, <2>1, FrameAssumption, SMT DEF Machine, Reg, NRegs
  <2> QED
    BY <1>1, <2>1, <2>2, PopFew DEF Pop1
<1>4. /\ SavedKept(Pop1) /\ Left(1) \in Seq(Word) /\ Len(Left(1)) = Len(stack) - 1
      /\ aligned => Holds(Pop1, Left(1)) /\ LocalsOf(Pop1) = locals /\ v = Operand(1)
      /\ Operand(1) \in Word
  <2>1. 1 \in 0 .. Len(stack) /\ 1 \in 1 .. Len(stack)
    BY <1>1, Current, SMT
  <2> QED
    BY <1>3, <2>1, PoppedOff, SameFrameAfter
<1> HIDE DEF v
<1>5. /\ s \in Machine /\ s.top = m.top - 1 /\ s.reg = m.reg
      /\ \A x \in FrameCalleeSaved .. FrameLocalVars - 1 : s.frame[x] = Pop1.frame[x]
      /\ LocalsOf(s) = [LocalsOf(Pop1) EXCEPT ![l] = v]
      /\ Sound(Pop1, b) /\ v \in Word => Sound(s, b) /\ OperandsOf(s, b) = OperandsOf(Pop1, b)
  <2>1. l \in Locals /\ Pop1 \in Machine /\ v \in Content
    BY <1>1, <1>3
  <2> HIDE DEF l, b
  <2>2. /\ s \in Machine /\ s.top = Pop1.top /\ s.reg = Pop1.reg
        /\ \A x \in FrameCalleeSaved .. FrameLocalVars - 1 : s.frame[x] = Pop1.frame[x]
        /\ LocalsOf(s) = [LocalsOf(Pop1) EXCEPT ![l] = v]
        /\ Sound(Pop1, b) /\ v \in Word => Sound(s, b) /\ OperandsOf(s, b) = OperandsOf(Pop1, b)
    BY <2>1, StoreInFrame
  <2> QED
    BY <1>3, <2>2
<1>6. SavedKept(s) /\ (aligned => Holds(s, Left(1)))
  BY <1>3, <1>4, <1>5 DEF SavedKept, Holds
<1> HIDE DEF s
<1>7. /\ Go(s, pc + 1, Left(1)) /\ at' = at + 1 /\ locals' = [locals EXCEPT ![l] = Operand(1)]
      /\ statics' = statics /\ values' = values
  BY DEF Store, Stored, s, v
<1>8. /\ aligned => Holds(s, Left(1)) /\ at' = pc + 1 /\ locals' = LocalsOf(s) /\ statics' = values'
      /\ locals' \in [Locals -> Word]
  BY <1>1, <1>2, <1>4, <1>5, <1>6, <1>7, Current
<1>9. at' \in 1 .. Len(code) /\ entry[at'] = Len(Left(1)) /\ s.top = code[pc + 1].top
  BY <1>2, <1>4, <1>5, <1>7
<1> QED
  BY <1>2, <1>4, <1>5, <1>6, <1>7, <1>8, <1>9, Current, GoesOn

LEMMA IfEqKeeps ==
  ASSUME MaxTop <= NRegs, IInv, IfEq PROVE IInv'
<1> DEFINE t == IF Popped(Pop1) = Zero THEN Here.arg ELSE pc + 1
           u == IF Operand(1) = Zero THEN Here.arg ELSE at + 1
<1>1. At("ifeq") /\ Pops("ifeq") = 1 /\ Pushes("ifeq") = 0 /\ m.top >= 1 /\ Len(stack) >= 1
      /\ Successors(pc, "ifeq", Here.arg) = {Here.arg, pc + 1}
  <2>1. Pops("ifeq") = 1 /\ Pushes("ifeq") = 0 /\ Successors(pc, "ifeq", Here.arg) = {Here.arg, pc + 1}
    BY DEF Pops, Pushes, Successors, Jumps
  <2> QED
    BY <2>1, Arrived DEF IfEq
<1>2. /\ stage = "run" /\ pc = at
      /\ \A w \in {Here.arg, pc + 1} : w \in 1 .. Len(code) /\ entry[w] = Len(stack) - 1
      /\ code[pc + 1].top = m.top - 1
  <2>1. TopAfter("ifeq", m.top) = m.top + 0 - 1 /\ m.top \in Nat /\ Len(stack) \in Nat
    BY Current, SMT DEF Pops, Pushes, TopAfter
  <2>2. /\ stage = "run" /\ pc = at
        /\ \A w \in {Here.arg, pc + 1} : w \in 1 .. Len(code) /\ entry[w] = Len(stack) - 1 + 0
        /\ pc + 1 \in 1 .. Len(code) => code[pc + 1].top = TopAfter("ifeq", m.top)
    BY <1>1, Arrived
  <2> QED
    BY <2>1, <2>2, SMT
<1>3. /\ Pop1 \in Machine /\ Pop1.top = m.top - 1 /\ Pop1.reg = m.reg /\ Pop1.frame = m.frame
      /\ Popped(Pop1) = m.reg[m.top - 1]
  BY <1>1, Current, PopFew DEF Pop1
<1>4. /\ SavedKept(Pop1) /\ Left(1) \in Seq(Word) /\ Len(Left(1)) = Len(stack) - 1
      /\ aligned => Holds(Pop1, Left(1)) /\ LocalsOf(Pop1) = locals /\ t = u
  <2>1. 1 \in 0 .. Len(stack) /\ 1 \in 1 .. Len(stack)
    BY <1>1, Current, SMT
  <2>2. /\ SavedKept(Pop1) /\ Left(1) \in Seq(Word) /\ Len(Left(1)) = Len(stack) - 1
        /\ aligned => Holds(Pop1, Left(1)) /\ LocalsOf(Pop1) = locals /\ Popped(Pop1) = Operand(1)
    BY <1>3, <2>1, PoppedOff, SameFrameAfter
  <2> QED
    BY <1>2, <2>2
<1>5. t \in {Here.arg, pc + 1} /\ u \in {Here.arg, pc + 1}
  BY <1>2
<1> HIDE DEF t, u
<1>6. /\ Go(Pop1, t, Left(1)) /\ at' = u /\ locals' = locals /\ statics' = statics /\ values' = values
  BY DEF IfEq, t, u
<1>7. /\ aligned => Holds(Pop1, Left(1)) /\ at' = t /\ locals' = LocalsOf(Pop1) /\ statics' = values'
      /\ t \in 1 .. Len(code) /\ at' \in 1 .. Len(code) /\ entry[at'] = Len(Left(1))
      /\ t = pc + 1 => Pop1.top = code[t].top
  BY <1>2, <1>3, <1>4, <1>5, <1>6, Current
<1> QED
  BY <1>2, <1>3, <1>4, <1>6, <1>7, Current, GoesOn

LEMMA IfCompareEqKeeps ==
  ASSUME MaxTop <= NRegs, IInv, IfCompareEq PROVE IInv'
<1> DEFINE t == IF Pop2.reg[GetReg(Pop1)] = Popped(Pop2) THEN Here.arg ELSE pc + 1
           u == IF Operand(1) = Operand(2) THEN Here.arg ELSE at + 1
           op == "if_icmpeq"
<1>1. At(op) /\ Pops(op) = 2 /\ Pushes(op) = 0 /\ m.top >= 2 /\ Len(stack) >= 2
      /\ Successors(pc, op, Here.arg) = {Here.arg, pc + 1}
  <2>1. Pops(op) = 2 /\ Pushes(op) = 0 /\ Successors(pc, op, Here.arg) = {Here.arg, pc + 1}
    BY DEF Pops, Pushes, Successors, Jumps
  <2> QED
    BY <2>1, Arrived DEF IfCompareEq
<1>2. /\ stage = "run" /\ pc = at
      /\ \A w \in {Here.arg, pc + 1} : w \in 1 .. Len(code) /\ entry[w] = Len(stack) - 2
      /\ code[pc + 1].top = m.top - 2
  <2>1. TopAfter(op, m.top) = m.top + 0 - 2 /\ m.top \in Nat /\ Len(stack) \in Nat
    BY Current, SMT DEF Pops, Pushes, TopAfter
  <2>2. /\ stage = "run" /\ pc = at
        /\ \A w \in {Here.arg, pc + 1} : w \in 1 .. Len(code) /\ entry[w] = Len(stack) - 2 + 0
        /\ pc + 1 \in 1 .. Len(code) => code[pc + 1].top = TopAfter(op, m.top)
    BY <1>1, Arrived
  <2> QED
    BY <2>1, <2>2, SMT
<1>3. /\ Pop1 \in Machine /\ Pop1.top = m.top - 1 /\ Pop1.reg = m.reg /\ Pop1.frame = m.frame
      /\ GetReg(Pop1) = m.top - 1
  <2>1. m.top >= 1
    BY <1>1, Current, SMT
  <2> QED
    BY <2>1, Current, PopFew DEF Pop1
<1>4. /\ Pop2 \in Machine /\ Pop2.top = m.top - 2 /\ Pop2.reg = m.reg /\ Pop2.frame = m.frame
      /\ Popped(Pop2) = m.reg[m.top - 2]
  <2>1. Pop1.top >= 1 /\ Pop1.top - 1 = m.top - 2
    BY <1>1, <1>3, Current, SMT
  <2> QED
    BY <1>3, <2>1, PopFew DEF Pop2
<1>5. /\ SavedKept(Pop2) /\ Left(2) \in Seq(Word) /\ Len(Left(2)) = Len(stack) - 2
      /\ aligned => Holds(Pop2, Left(2)) /\ LocalsOf(Pop2) = locals /\ t = u
  <2>1. 2 \in 0 .. Len(stack) /\ 1 \in 1 .. Len(stack) /\ 2 \in 1 .. Len(stack)
    BY <1>1, Current, SMT
  <2>2. /\ SavedKept(Pop2) /\ Left(2) \in Seq(Word) /\ Len(Left(2)) = Len(stack) - 2
        /\ aligned => /\ Holds(Pop2, Left(2)) /\ LocalsOf(Pop2) = locals
                      /\ \A j \in 1 .. Len(stack) : m.reg[m.top - j] = Operand(j)
    BY <1>4, <2>1, PoppedOff, SameFrameAfter
  <2>3. aligned => t = u
    BY <1>2, <1>3, <1>4, <2>1, <2>2
  <2> QED
    BY <2>2, <2>3
<1>6. t \in {Here.arg, pc + 1} /\ u \in {Here.arg, pc + 1}
  BY <1>2
<1> HIDE DEF t, u
<1>7. /\ Go(Pop2, t, Left(2)) /\ at' = u /\ locals' = locals /\ statics' = statics /\ values' = values
  BY DEF IfCompareEq, t, u
<1>8. /\ aligned => Holds(Pop2, Left(2)) /\ at' = t /\ locals' = LocalsOf(Pop2) /\ statics' = values'
      /\ t \in 1 .. Len(code) /\ at' \in 1 .. Len(code) /\ entry[at'] = Len(Left(2))
      /\ t = pc + 1 => Pop2.top = code[t].top
  BY <1>2, <1>4, <1>5, <1>6, <1>7, Current
<1> QED
  BY <1>2, <1>4, <1>5, <1>7, <1>8, Current, GoesOn

LEMMA GotoKeeps ==
  ASSUME MaxTop <= NRegs, IInv, Goto PROVE IInv'
<1>1. /\ At("goto") /\ stage = "run" /\ pc = at
      /\ Here.arg \in 1 .. Len(code) /\ entry[Here.arg] = Len(stack)
      /\ Here.arg = pc + 1 => code[Here.arg].top = m.top
  <2>1. Pops("goto") = 0 /\ Pushes("goto") = 0 /\ Successors(pc, "goto", Here.arg) = {Here.arg}
    BY DEF Pops, Pushes, Successors, Jumps
  <2>2. TopAfter("goto", m.top) = m.top /\ Len(stack) \in Nat
    BY <2>1, Current, SMT DEF TopAfter
  <2>3. /\ stage = "run" /\ pc = at
        /\ Here.arg \in 1 .. Len(code) /\ entry[Here.arg] = Len(stack) - 0 + 0
        /\ pc + 1 \in 1 .. Len(code) => code[pc + 1].top = TopAfter("goto", m.top)
    BY <2>1, Arrived DEF Goto
  <2> QED
    BY <2>2, <2>3 DEF Goto
<1>2. /\ Go(m, Here.arg, stack) /\ at' = Here.arg
      /\ statics' = statics /\ values' = values /\ locals' = locals
  BY DEF Goto
<1>3. aligned => Holds(m, stack) /\ at' = Here.arg /\ locals' = LocalsOf(m) /\ statics' = values'
  BY <1>2, Current
<1> QED
  BY <1>1, <1>2, <1>3, Current, GoesOn

LEMMA ReturnKeeps ==
  ASSUME IInv, Return PROVE IInv'
BY DEF IInv, CodeInv, DataInv, FlowInv, Translated, Return, At, translation, bytecode

-----------------------------------------------------------------------------
LEMMA StackEffect ==
  ASSUME NEW op
  PROVE  Pops(op) \in 0 .. 2 /\ Pushes(op) \in 0 .. 1
BY SMT DEF Pops, Pushes

LEMMA WhereTo ==
  ASSUME NEW i \in 1 .. MaxLength, NEW op \in Ops, NEW arg \in Args(op)
  PROVE  Successors(i, op, arg) \subseteq 1 .. MaxLength + 1
<1>1. i + 1 \in 1 .. MaxLength + 1 /\ 1 .. MaxLength \subseteq 1 .. MaxLength + 1
  BY JumpAssumption, SMT
<1>2. op \in Jumps => arg \in 1 .. MaxLength
  BY DEF Args, Jumps
<1> QED
  BY <1>1, <1>2 DEF Successors

LEMMA TranslateKeeps ==
  ASSUME IInv, NEW op \in Ops, NEW arg \in Args(op), Translate(op, arg) PROVE IInv'
<1>0. PICK n : n = Len(code)
  OBVIOUS
<1> DEFINE i     == n + 1
           ins   == [op |-> op, arg |-> arg, top |-> top]
           depth == entry[i] - Pops(op) + Pushes(op)
           next  == Successors(i, op, arg)
<1>1. /\ stage = "codeGen" /\ i <= MaxLength /\ entry[i] >= Pops(op)
      /\ op = "putstatic" => entry[i] = 1
      /\ op = "literal" => top < HexTop
      /\ top >= Pops(op) /\ TopAfter(op, top) <= MaxTop
      /\ \A t \in next : entry[t] \in {Unknown, depth}
      /\ code' = Append(code, ins) /\ top' = TopAfter(op, top)
      /\ entry' = [t \in DOMAIN entry |-> IF t \in next THEN depth ELSE entry[t]]
      /\ UNCHANGED <<stage, m, statics, pc, stack, locals, values, at, aligned>>
  BY <1>0 DEF Translate, bytecode
<1>2. /\ code \in Seq(Instruction) /\ n \in Nat /\ top \in 0 .. MaxTop /\ MaxTop \in Nat
      /\ entry \in [1 .. MaxLength + 1 -> Int] /\ entry[1] = 0
      /\ \A t \in 1 .. MaxLength + 1 : Unknown <= entry[t] /\ entry[t] <= n
      /\ \A j \in 1 .. n : Translated(j)
  BY <1>0, FrameAssumption, SMT DEF IInv, CodeInv
<1>3. i \in 1 .. MaxLength /\ i \in 1 .. MaxLength + 1 /\ MaxLength \in Nat
  BY <1>1, <1>2, JumpAssumption, SMT
<1>4. next \subseteq 1 .. MaxLength + 1
  BY <1>3, WhereTo
<1>5. entry[i] \in Nat /\ depth \in 0 .. n + 1
  <2>1. entry[i] \in Int /\ entry[i] <= n /\ entry[i] >= Pops(op)
    BY <1>1, <1>2, <1>3
  <2>2. Pops(op) \in 0 .. 2 /\ Pushes(op) \in 0 .. 1 /\ n \in Nat
    BY <1>2, StackEffect
  <2> QED
    BY <2>1, <2>2, SMT
<1>6. ins \in Instruction /\ TopAfter(op, top) \in 0 .. MaxTop
  <2>1. TopAfter(op, top) \in 0 .. MaxTop
    <3> DEFINE p == Pops(op)
               q == Pushes(op)
    <3>1. p \in 0 .. 2 /\ q \in 0 .. 1 /\ p <= top /\ TopAfter(op, top) <= MaxTop
      BY <1>1, StackEffect
    <3>2. TopAfter(op, top) = top + q \/ TopAfter(op, top) = top + q - p
      <4>1. CASE op = "putstatic"
        <5>1. TopAfter(op, top) = top + q - 0
          BY <4>1 DEF TopAfter
        <5> QED
          BY <5>1, <3>1, <1>2, SMT
      <4>2. CASE op # "putstatic"
        BY <4>2 DEF TopAfter
      <4> QED
        BY <4>1, <4>2
    <3> HIDE DEF p, q
    <3> QED
      BY <1>2, <3>1, <3>2, SMT
  <2>2. arg \in Word \cup Locals \cup Fields \cup 0 .. MaxLength
    BY JumpAssumption, SMT DEF Args
  <2> QED
    BY <1>2, <2>1, <2>2 DEF Instruction
<1>7. /\ code' \in Seq(Instruction) /\ Len(code') = i
      /\ code'[i] = ins /\ \A j \in 1 .. n : code'[j] = code[j]
  BY <1>0, <1>1, <1>2, <1>6, SMT
<1>8. /\ entry' \in [1 .. MaxLength + 1 -> Int]
      /\ \A t \in 1 .. MaxLength + 1 : entry'[t] = IF t \in next THEN depth ELSE entry[t]
  BY <1>1, <1>2, <1>5
<1>9. \A t \in 1 .. MaxLength + 1 : entry[t] # Unknown => entry'[t] = entry[t]
  BY <1>1, <1>8
<1> HIDE DEF ins, depth, next
<1>10. ASSUME NEW j \in 1 .. n PROVE Translated(j)'
  <2> DEFINE c == code[j]
  <2>1. /\ c.op \in Ops /\ c.arg \in Args(c.op) /\ c.top \in 0 .. MaxTop
        /\ c.top >= Pops(c.op) /\ TopAfter(c.op, c.top) \in 0 .. MaxTop
        /\ entry[j] >= Pops(c.op)
        /\ c.op = "putstatic" => entry[j] = 1
        /\ c.op = "literal" => c.top < HexTop
        /\ \A t \in Successors(j, c.op, c.arg) : 
             t \in 1 .. MaxLength + 1 /\ entry[t] = entry[j] - Pops(c.op) + Pushes(c.op)
        /\ j < n => code[j + 1].top = TopAfter(c.op, c.top)
        /\ j = n => top = TopAfter(c.op, c.top)
    BY <1>0, <1>2 DEF Translated
  <2> HIDE DEF c
  <2>2. j \in 1 .. MaxLength + 1 /\ j < i /\ j # i /\ (j < n => j + 1 \in 1 .. n) /\ (j < n \/ j = n)
    BY <1>2, <1>3, SMT
  <2>3. code'[j] = c
    BY <1>7 DEF c
  <2>4. entry'[j] = entry[j]
    <3>1. entry[j] # Unknown
      BY <1>2, <2>1, <2>2, StackEffect, SMT DEF Unknown
    <3> QED
      BY <1>9, <2>2, <3>1
  <2>5. ASSUME NEW t \in Successors(j, c.op, c.arg)
        PROVE  t \in 1 .. MaxLength + 1 /\ entry'[t] = entry[j] - Pops(c.op) + Pushes(c.op)
    <3>1. t \in 1 .. MaxLength + 1 /\ entry[t] = entry[j] - Pops(c.op) + Pushes(c.op)
      BY <2>1
    <3>2. entry[t] # Unknown
      BY <1>2, <2>1, <2>2, <3>1, StackEffect, SMT DEF Unknown
    <3> QED
      BY <1>9, <3>1, <3>2
  <2>6. code'[j + 1].top = TopAfter(c.op, c.top)
    <3>1. CASE j < n
      BY <1>7, <2>1, <2>2, <3>1
    <3>2. CASE j = n
      BY <1>7, <2>1, <3>2 DEF ins
    <3> QED
      BY <2>2, <3>1, <3>2
  <2> QED
    BY <1>7, <2>1, <2>2, <2>3, <2>4, <2>5, <2>6 DEF Translated
<1>11. Translated(i)'
  <2>1. /\ code'[i].op = op /\ code'[i].arg = arg /\ code'[i].top = top /\ ~(i < i) /\ Len(code') = i
    BY <1>2, <1>7, SMT DEF ins
  <2>2. entry[i] # Unknown
    BY <1>5, SMT DEF Unknown
  <2>3. entry'[i] = entry[i]
    BY <1>3, <1>9, <2>2
  <2>4. \A t \in Successors(i, op, arg) :
          t \in 1 .. MaxLength + 1 /\ entry'[t] = entry[i] - Pops(op) + Pushes(op)
    BY <1>4, <1>8 DEF next, depth
  <2> QED
    BY <1>1, <1>2, <1>6, <2>1, <2>3, <2>4 DEF Translated
<1>12. CodeInv'
  <2>1. \A j \in 1 .. Len(code') : j \in 1 .. n \/ j = i
    BY <1>2, <1>7, SMT
  <2>2. \A j \in 1 .. Len(code') : Translated(j)'
    BY <1>10, <1>11, <2>1
  <2>3. 1 \in 1 .. MaxLength + 1 /\ entry[1] # Unknown
    BY <1>2, <1>3, SMT DEF Unknown
  <2>4. entry'[1] = 0
    BY <1>2, <1>9, <2>3
  <2>5. \A t \in 1 .. MaxLength + 1 : Unknown <= entry'[t] /\ entry'[t] <= Len(code')
    BY <1>2, <1>5, <1>7, <1>8, SMT DEF Unknown
  <2> QED
    BY <1>1, <1>6, <1>7, <1>8, <2>2, <2>4, <2>5 DEF CodeInv
<1>13. DataInv'
  BY <1>1 DEF IInv, DataInv
<1>14. FlowInv'
  BY <1>1 DEF IInv, FlowInv
<1> QED
  BY <1>12, <1>13, <1>14 DEF IInv

(* The method is called with its operands and the frame of the prologue. *)
LEMMA CallKeeps ==
  ASSUME IInv, Call PROVE IInv'
<1>1. /\ stage = "codeGen" /\ code # <<>> /\ stage' = "run"
      /\ \A t \in DOMAIN entry : entry[t] # Unknown => t <= Len(code)
      /\ m' = [m EXCEPT !.top = code[1].top]
      /\ UNCHANGED <<code, top, entry, statics, pc, stack, locals, values, at, aligned>>
  BY DEF Call, translation, bytecode
<1>2. /\ code \in Seq(Instruction) /\ entry \in [1 .. MaxLength + 1 -> Int] /\ entry[1] = 0
      /\ pc = 1 /\ at = 1 /\ stack = <<>>
  BY <1>1 DEF IInv, CodeInv, FlowInv
<1>3. 1 \in 1 .. Len(code) /\ Len(stack) = 0
  BY <1>1, <1>2, SMT
<1>4. code[1].top \in 0 .. MaxTop
  BY <1>3 DEF IInv, CodeInv, Translated
<1>5. m' \in Machine /\ m'.top = code[1].top /\ m'.frame = m.frame
  BY <1>1, <1>4, Current, SMT DEF Machine
<1>6. SavedKept(m') /\ LocalsOf(m') = LocalsOf(m)
  BY <1>5, Current DEF SavedKept, LocalsOf
<1>7. aligned => Holds(m', <<>>)
  BY <1>5, <1>6, Current, HoldsNone
<1>8. CodeInv'
  BY <1>1 DEF IInv, CodeInv, Translated
<1>9. DataInv'
  BY <1>1, <1>2, <1>5, <1>6, <1>7 DEF IInv, DataInv
<1>10. FlowInv'
  BY <1>1, <1>2, <1>3, <1>5 DEF FlowInv
<1> QED
  BY <1>8, <1>9, <1>10 DEF IInv

LEMMA InitSound ==
  Init => IInv
<1> SUFFICES ASSUME Init PROVE IInv
  OBVIOUS
<1>1. PICK v \in Word :
        /\ m = [top |-> top, reg |-> [r \in Reg |-> Other], frame |-> Prologue(v)]
        /\ locals = [l \in Locals |-> v]
        /\ values = [f \in Fields |-> v] /\ statics = values
  BY DEF Init
<1>2. /\ top \in 0 .. MaxTop /\ stage = "codeGen" /\ code = <<>> /\ stack = <<>>
      /\ pc = 1 /\ at = 1 /\ aligned = TRUE
      /\ entry = [i \in 1 .. MaxLength + 1 |-> IF i = 1 THEN 0 ELSE Unknown]
  BY JumpAssumption DEF Init
<1>3. Sound(m, top) /\ OperandsOf(m, top) = <<>> /\ m.top = top
  BY <1>1, <1>2, PrologueSound
<1>4. SavedKept(m) /\ m \in Machine
  BY <1>3 DEF SavedKept, Sound
<1>5. Holds(m, <<>>)
  BY <1>3, <1>4, HoldsNone DEF Sound
<1>6. LocalsOf(m) = locals
  <2>1. \A l \in Locals : FrameLocalVars + l \in FrameLocalVars .. FrameJavaStack - 1
                         /\ FrameLocalVars + l \in Slot
    BY FrameAreas, FrameAssumption, SMT DEF Locals
  <2> QED
    BY <1>1, <2>1, Zenon DEF LocalsOf, Prologue
<1>7. DataInv
  BY <1>1, <1>2, <1>4, <1>5, <1>6, SMT DEF DataInv, Content
<1>8. CodeInv
  <2>1. /\ code \in Seq(Instruction) /\ Len(code) = 0 /\ Len(code) <= MaxLength
        /\ 1 .. Len(code) = {} /\ 1 \in 1 .. MaxLength + 1
    BY <1>2, JumpAssumption, SMT
  <2>2. /\ entry \in [1 .. MaxLength + 1 -> Int] /\ entry[1] = 0
        /\ \A t \in 1 .. MaxLength + 1 : Unknown <= entry[t] /\ entry[t] <= Len(code)
    BY <1>2, <2>1, SMT DEF Unknown
  <2> QED
    BY <1>2, <2>1, <2>2 DEF CodeInv
<1>9. FlowInv
  BY <1>2 DEF FlowInv
<1> QED
  BY <1>7, <1>8, <1>9 DEF IInv

LEMMA StepSound ==
  ASSUME MaxTop <= NRegs, HexTop < NRegs, IInv, [Next]_vars PROVE IInv'
<1>1. ASSUME NEW op \in Ops, NEW arg \in Args(op), Translate(op, arg) PROVE IInv'
  BY <1>1, TranslateKeeps
<1>2. ASSUME UNCHANGED vars PROVE IInv'
  BY <1>2 DEF vars, translation, bytecode, IInv, CodeInv, DataInv, FlowInv, Translated
<1> QED
  BY <1>1, <1>2, CallKeeps, ConstKeeps, LiteralKeeps, LoadKeeps, StoreKeeps, GetStaticKeeps, PutStaticKeeps,
     IfEqKeeps, IfCompareEqKeeps, GotoKeeps, ReturnKeeps DEF Next

LEMMA Invariant ==
  ASSUME MaxTop <= NRegs, HexTop < NRegs PROVE Spec => []IInv
<1>1. IInv /\ [Next]_vars => IInv'
  BY StepSound
<1> QED
  BY <1>1, InitSound, PTL DEF Spec

(* Every variable stays in its type: jumps lead to translated instructions. *)
THEOREM Typed == ASSUME MaxTop <= NRegs, HexTop < NRegs PROVE Spec => []TypeOK
<1>1. IInv => TypeOK
  <2> SUFFICES ASSUME IInv PROVE TypeOK
    OBVIOUS
  <2>1. /\ code \in Seq(Instruction) /\ Len(code) \in Nat /\ Len(code) <= MaxLength
        /\ MaxLength \in Nat \ {0}
    BY JumpAssumption, SMT DEF IInv, CodeInv
  <2>2. pc \in 1 .. MaxLength /\ at \in 1 .. MaxLength
    <3>1. pc \in 1 .. Len(code) \cup {1} /\ at \in 1 .. Len(code) \cup {1}
      BY DEF IInv, FlowInv
    <3> QED
      BY <2>1, <3>1, SMT
  <2>3. entry \in [1 .. MaxLength + 1 -> Unknown .. MaxLength]
    <3>1. /\ entry \in [1 .. MaxLength + 1 -> Int]
          /\ \A t \in 1 .. MaxLength + 1 : Unknown <= entry[t] /\ entry[t] <= Len(code)
      BY DEF IInv, CodeInv
    <3>2. \A t \in 1 .. MaxLength + 1 : entry[t] \in Unknown .. MaxLength
      BY <2>1, <3>1, SMT DEF Unknown
    <3> QED
      BY <3>1, <3>2
  <2> QED
    BY <2>1, <2>2, <2>3 DEF IInv, CodeInv, DataInv, TypeOK, Machine
<1> QED
  BY <1>1, Invariant, PTL

(* While no operand crosses a misaligned jump, and no literal is pushed     *)
(* where the push saves a register, machine and bytecode are at the same    *)
(* instruction.                                                             *)
THEOREM BranchesTaken == ASSUME MaxTop <= NRegs, HexTop < NRegs PROVE Spec => []TakesTheSameBranch
<1>1. IInv => TakesTheSameBranch
  BY DEF IInv, DataInv, TakesTheSameBranch
<1> QED
  BY <1>1, Invariant, PTL

(* And every instruction finds its operands where it looks for them. *)
THEOREM OperandsFollow == ASSUME MaxTop <= NRegs, HexTop < NRegs PROVE Spec => []OperandsFollowJumps
<1>1. ASSUME IInv PROVE OperandsFollowJumps
  <2> SUFFICES ASSUME aligned PROVE InPlace
    BY DEF OperandsFollowJumps
  <2>1. Holds(m, stack) /\ LocalsOf(m) = locals /\ statics = values
    BY <1>1, Current
  <2> DEFINE b == m.top - Len(stack)
  <2>2. Sound(m, b) /\ OperandsOf(m, b) = stack
    BY <2>1 DEF Holds
  <2>3. /\ m.top \in 0 .. 5 /\ b \in 0 .. m.top /\ Len(stack) = m.top - b
    BY <1>1, <2>1, <2>2, Current, FrameAssumption, SMT DEF Sound, NRegs
  <2>4. ASSUME NEW i \in 1 .. Len(stack) PROVE Place(m, m.top - Len(stack) + i - 1) = stack[i]
    <3> DEFINE j == b + i - 1
    <3> HIDE DEF b
    <3>1. j \in 0 .. 4 /\ j >= m.top - NRegs /\ i \in 1 .. m.top - b
      BY <2>3, SMT DEF NRegs
    <3> HIDE DEF j
    <3>3. j % NRegs = j
      BY <3>1, SMT DEF NRegs
    <3>4. Place(m, j) = m.reg[j]
      BY <3>1, <3>3 DEF Place
    <3> USE DEF j
    <3>2. OperandsOf(m, b)[i] = m.reg[b + i - 1]
      BY <3>1 DEF OperandsOf
    <3> QED
      BY <2>2, <3>2, <3>4 DEF b
  <2>5. \A l \in Locals : m.frame[FrameLocalVars + l] = locals[l]
    BY <2>1 DEF LocalsOf
  <2> QED
    BY <2>1, <2>4, <2>5 DEF InPlace
<1> QED
  BY <1>1, Invariant, PTL

(* Under those bounds of _top the caller's registers are never overwritten, *)
(* on any path, whatever crosses a jump.                                    *)
THEOREM CallerKept == ASSUME MaxTop <= NRegs, HexTop < NRegs PROVE Spec => []SavedRegistersKept
<1>1. IInv => SavedRegistersKept
  BY DEF IInv, DataInv, SavedKept, SavedRegistersKept
<1> QED
  BY <1>1, Invariant, PTL

=============================================================================
