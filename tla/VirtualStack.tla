---------------------------- MODULE VirtualStack ----------------------------
(***************************************************************************)
(* The code ByteCodeGen_X86_64 generates for bytecode without jumps.       *)
(* While it compiles, _top says how many operands the virtual stack holds  *)
(* and so which register the next instruction names; the machine code runs *)
(* in the order it is emitted, so one action stands for the compilation of *)
(* an instruction and for the run of its code.                             *)
(*                                                                         *)
(* Instructions the compiler does not implement emit nothing and leave     *)
(* _top as it is; code that has them is not modelled.                      *)
(***************************************************************************)
EXTENDS Registers

CONSTANTS
  MaxStack,         \* _max_stack of the methods compiled
  Fields,           \* the static fields of the class
  Operations,       \* iadd, isub, ..., lcmp: two operands and a result
  Result(_, _, _),  \* what they compute
  Negated(_)        \* what ineg and dneg compute

ASSUME StackAssumption ==
  /\ MaxStack \in Nat
  /\ \A v \in Word : Negated(v) \in Word
  /\ \A op \in Operations, v \in Word, w \in Word : Result(op, v, w) \in Word

VARIABLES
  m,       \* the record [top, reg, frame]: _top, the stack registers, the frame
  statics, \* the static fields' storage
  given,   \* what the last instruction compared or passed in a call
  stale    \* operands that putstatic and earlier methods have left below

vars == <<m, statics, given, stale>>

-----------------------------------------------------------------------------
(* The machine after one, two and three pops. *)
Pop1 == PopVirtualStack(m)
Pop2 == PopVirtualStack(Pop1)
Pop3 == PopVirtualStack(Pop2)

Depth == m.top - stale   \* operands the bytecode knows of

Room == Depth < MaxStack /\ m.top < MaxTop

Init ==
  /\ \E v \in Word : m = [top |-> 0, reg |-> [r \in Reg |-> Other], frame |-> Prologue(v)]
  /\ statics \in [Fields -> Word]
  /\ given = <<>>
  /\ stale = 0

-----------------------------------------------------------------------------
Quiet == given' = <<>> /\ UNCHANGED <<statics, stale>>

(* iconst_*, lconst_*, bipush, sipush *)
PushConstant ==
  /\ Room
  /\ \E v \in Word : m' = PushValue(m, v)
  /\ Quiet

(* fconst_*, dconst_*, ldc, ldc2_w: the value is printed in hexadecimal. *)
PushLiteral ==
  /\ Room /\ m.top < HexTop
  /\ \E v \in Word : m' = PushHexValue(m, v)
  /\ Quiet

(* iload, aload, lload, dload and their short forms *)
LoadLocal ==
  /\ Room
  /\ \E l \in Locals : m' = PushValue(m, m.frame[FrameLocalVars + l])
  /\ Quiet

(* istore, astore, lstore, dstore and their short forms *)
StoreLocal ==
  /\ Depth >= 1
  /\ \E l \in Locals : m' = [Pop1 EXCEPT !.frame[FrameLocalVars + l] = Popped(Pop1)]
  /\ Quiet

Dup ==
  /\ Depth >= 1 /\ Room
  /\ LET t == PushVirtualStack(Pop1)
     IN m' = PushValue(t, t.reg[GetReg(Pop1)])
  /\ Quiet

(* Mutated form: the operands are taken in the other order. *)
ComputeSwapped ==
  /\ Depth >= 2
  /\ \E op \in Operations : m' = PushValue(Pop2, Result(op, Popped(Pop1), Popped(Pop2)))
  /\ Quiet

(* iadd, ladd, dadd, isub, ..., ixor, lxor, lcmp *)
Compute ==
  /\ Depth >= 2
  /\ \E op \in Operations : m' = PushValue(Pop2, Result(op, Popped(Pop2), Popped(Pop1)))
  /\ Quiet

(* ldiv, ior, lor also leave the result in the first operand's register. *)
ComputeBoth ==
  /\ Depth >= 2
  /\ \E op \in Operations :
       LET v == Result(op, Popped(Pop2), Popped(Pop1))
       IN m' = PushValue([Pop2 EXCEPT !.reg[GetReg(Pop1)] = v], v)
  /\ Quiet

Ineg ==
  /\ Depth >= 1
  /\ m' = PushValue(Pop1, Negated(Popped(Pop1)))
  /\ Quiet

(* dneg loads its constant, -1.0, into the register above the top: with    *)
(* five operands that is the register of the first.                        *)
Dneg ==
  /\ Depth >= 1 /\ Pop1.top < HexTop
  /\ m' = PushHexValue([Pop1 EXCEPT !.reg[GetReg(m)] = Other], Negated(Popped(Pop1)))
  /\ Quiet

GetStatic ==
  /\ Room
  /\ \E f \in Fields : m' = PushValue(m, statics[f])
  /\ Quiet

(* The operand is pushed again after it has been stored.  Only assignments *)
(* that are statements are considered: their operand is alone.             *)
PutStatic ==
  /\ Depth = 1
  /\ \E f \in Fields : statics' = [statics EXCEPT ![f] = Popped(Pop1)]
  /\ m' = PushVirtualStack(Pop1)
  /\ stale' = m.top
  /\ given' = <<>>

(* Mutated form: the register is read before _top is lowered. *)
TakeOneEarly ==
  /\ Depth >= 1
  /\ m' = Pop1
  /\ given' = <<Popped(m)>>
  /\ UNCHANGED <<statics, stale>>

(* The value of a comparison, of tableswitch and lookupswitch, and the     *)
(* argument of invokevirtual (the receiver, System.out, is never pushed).  *)
TakeOne ==
  /\ Depth >= 1
  /\ m' = Pop1
  /\ given' = <<Popped(Pop1)>>
  /\ UNCHANGED <<statics, stale>>

(* if_icmpeq, ... *)
IfCompare ==
  /\ Depth >= 2
  /\ m' = Pop2
  /\ given' = <<Pop2.reg[GetReg(Pop1)], Popped(Pop2)>>
  /\ UNCHANGED <<statics, stale>>

(* iaload, ..., saload: runtime_array_load's result is pushed. *)
ArrayLoad ==
  /\ Depth >= 2 /\ Pop2.top < HexTop
  /\ \E v \in Word : m' = PushHexValue(Pop2, v)
  /\ given' = <<Popped(Pop1), Popped(Pop2)>>
  /\ UNCHANGED <<statics, stale>>

(* iastore, ..., sastore *)
ArrayStore ==
  /\ Depth >= 3
  /\ m' = Pop3
  /\ given' = <<Popped(Pop1), Popped(Pop2), Popped(Pop3)>>
  /\ UNCHANGED <<statics, stale>>

(* newarray: runtime_newarray is given the length. *)
NewArray ==
  /\ Depth >= 1 /\ Pop1.top < HexTop
  /\ \E v \in Word : m' = PushHexValue(Pop1, v)
  /\ given' = <<Popped(Pop1)>>
  /\ UNCHANGED <<statics, stale>>

(* arraylength reads the first word of the array. *)
ArrayLength ==
  /\ Depth >= 1
  /\ \E v \in Word : m' = PushValue(Pop1, v)
  /\ given' = <<Popped(Pop1)>>
  /\ UNCHANGED <<statics, stale>>

(* return, and codeGen goes on to the next method: _top is not reset. *)
NextMethod ==
  /\ \E v \in Word : m' = [top |-> m.top, reg |-> [r \in Reg |-> Other], frame |-> Prologue(v)]
  /\ stale' = m.top
  /\ given' = <<>>
  /\ UNCHANGED statics

Next ==
  \/ PushConstant \/ PushLiteral \/ LoadLocal \/ StoreLocal \/ Dup \/ Compute \/ ComputeBoth
  \/ Ineg \/ Dneg \/ GetStatic \/ PutStatic \/ TakeOne \/ IfCompare
  \/ ArrayLoad \/ ArrayStore \/ NewArray \/ ArrayLength \/ NextMethod

Spec == Init /\ [][Next]_vars

-----------------------------------------------------------------------------
TypeOK ==
  /\ m \in [top : 0 .. MaxTop, reg : [Reg -> Content], frame : [Slot -> Content]]
  /\ statics \in [Fields -> Word]
  /\ given \in Seq(Word)
  /\ stale \in 0 .. m.top

(***************************************************************************)
(* The generated code implements the operand stack: every instruction      *)
(* takes the operands the bytecode means, from registers or the frame, and *)
(* leaves the others, the locals and the static fields alone.              *)
(***************************************************************************)
JVM == INSTANCE OperandStack WITH
  stack  <- [i \in 1 .. Depth |-> Place(m, stale + i - 1)],
  locals <- [l \in Locals |-> m.frame[FrameLocalVars + l]]

ImplementsOperandStack == JVM!Spec

(***************************************************************************)
(* What the prologue saved for the caller is there when return restores it *)
(* - no operand is ever saved over it - and locals hold operands only.     *)
(***************************************************************************)
FrameKept ==
  /\ \A s \in FrameCalleeSaved .. FrameLocalVars - 1 : m.frame[s] = Other
  /\ \A s \in FrameLocalVars .. FrameJavaStack - 1 : m.frame[s] \in Word

=============================================================================
