------------------------------- MODULE JumpCode -------------------------------
(***************************************************************************)
(* Code with jumps: ByteCodeGen_X86_64 translates a method instruction by  *)
(* instruction in the order of the file, and _top follows that order; then *)
(* the code runs in the order its jumps choose, each instruction with the  *)
(* registers that _top named when it was translated.  Beside it runs the   *)
(* bytecode, on an operand stack.                                          *)
(*                                                                         *)
(* The bytecode is what the verifier of Java accepts: every instruction is *)
(* reached with one number of operands, whichever way it is reached, and   *)
(* no instruction is dead.  codeGen never gets past tableswitch and        *)
(* lookupswitch (see Driver), so no compiled method has them.              *)
(***************************************************************************)
EXTENDS Registers, FiniteSets

CONSTANTS
  Zero,       \* the operand that compares equal to $0
  Fields,     \* the static fields of the class
  TopsLeft,   \* the _tops that earlier methods leave
  MaxLength,  \* bound of the number of instructions
  MaxJumps    \* bound of the number of jumps among them

ASSUME JumpAssumption ==
  /\ Zero \in Word /\ TopsLeft \subseteq 0 .. MaxTop
  /\ MaxLength \in Nat \ {0} /\ MaxJumps \in Nat

VARIABLES
  stage,    \* "codeGen", "run" or "returned"
  code,     \* the instructions translated, each with the _top of its registers
  top,      \* _top
  entry,    \* how many operands the bytecode has where an instruction begins
  m,        \* the machine; m.top is the _top of the instruction it is at
  statics,  \* the static fields' storage
  pc,       \* the instruction whose code runs next
  stack, locals, values, at,  \* the bytecode's: operands, locals, static fields, pc
  aligned   \* history: jumps that kept operands led to code with the same _top

translation == <<code, top, entry>>
bytecode    == <<stack, locals, values, at>>
vars        == <<stage, translation, m, statics, pc, bytecode, aligned>>

Unknown == 0 - 1   \* no way to the instruction has been seen

Jumps == {"ifeq", "if_icmpeq", "goto"}
Ops   == Jumps \cup {"const", "literal", "load", "store", "getstatic", "putstatic", "return"}

Pops(op) ==
  CASE op \in {"store", "putstatic", "ifeq"} -> 1
    [] op = "if_icmpeq" -> 2
    [] OTHER -> 0

Pushes(op) == IF op \in {"const", "literal", "load", "getstatic"} THEN 1 ELSE 0

(* Mutated form: store pushes its operand again, too. *)
TopAfterStoreRepushes(op, t) ==
  t + Pushes(op) - IF op \in {"store", "putstatic"} THEN 0 ELSE Pops(op)

(* _top after the instruction: putstatic pushes its operand again. *)
TopAfter(op, t) == t + Pushes(op) - IF op = "putstatic" THEN 0 ELSE Pops(op)

(* Mutated form: a jump may lead past the last instruction. *)
ArgsPastEnd(op) ==
  CASE op \in {"const", "literal"} -> Word
    [] op \in {"load", "store"} -> Locals
    [] op \in {"getstatic", "putstatic"} -> Fields
    [] op \in Jumps -> 1 .. MaxLength + 1
    [] OTHER -> {0}

Args(op) ==
  CASE op \in {"const", "literal"} -> Word
    [] op \in {"load", "store"} -> Locals
    [] op \in {"getstatic", "putstatic"} -> Fields
    [] op \in Jumps -> 1 .. MaxLength
    [] OTHER -> {0}

(* Where control may go from instruction i. *)
Successors(i, op, arg) ==
  (IF op \in Jumps THEN {arg} ELSE {}) \cup (IF op \in {"goto", "return"} THEN {} ELSE {i + 1})

JumpsIn(c) == {i \in DOMAIN c : c[i].op \in Jumps}

Init ==
  /\ stage = "codeGen"
  /\ code = <<>> /\ top \in TopsLeft
  /\ entry = [i \in 1 .. MaxLength + 1 |-> IF i = 1 THEN 0 ELSE Unknown]
  /\ \E v \in Word :   \* what nothing has been assigned to yet
       /\ m = [top |-> top, reg |-> [r \in Reg |-> Other], frame |-> Prologue(v)]
       /\ locals = [l \in Locals |-> v]
       /\ values = [f \in Fields |-> v] /\ statics = values
  /\ stack = <<>>
  /\ pc = 1 /\ at = 1
  /\ aligned = TRUE

-----------------------------------------------------------------------------
(* codeGenOne for the next instruction of the file.  As Java compilers     *)
(* have it, statements leave no operands: the method returns and loops go  *)
(* back without any, and, as in VirtualStack, so do assignments to static  *)
(* fields.  Code that takes _top below zero or past MaxTop, or that pushes *)
(* a literal at HexTop or above, is not considered.                        *)
Translate(op, arg) ==
  LET i     == Len(code) + 1
      depth == entry[i] - Pops(op) + Pushes(op)
      next  == Successors(i, op, arg)
  IN /\ stage = "codeGen" /\ i <= MaxLength
     /\ op \in Jumps => Cardinality(JumpsIn(code)) < MaxJumps
     /\ entry[i] >= Pops(op)
     /\ op = "putstatic" => entry[i] = 1
     /\ op = "return" => entry[i] = 0
     /\ top >= Pops(op) /\ TopAfter(op, top) <= MaxTop
     /\ op = "literal" => top < HexTop
     /\ \A t \in next : entry[t] \in {Unknown, depth} /\ (t <= i => depth = 0)
     /\ code' = Append(code, [op |-> op, arg |-> arg, top |-> top])
     /\ top' = TopAfter(op, top)
     /\ entry' = [t \in DOMAIN entry |-> IF t \in next THEN depth ELSE entry[t]]
     /\ UNCHANGED <<stage, m, statics, pc, bytecode, aligned>>

(* The method ends and is called. *)
Call ==
  /\ stage = "codeGen" /\ code # <<>>
  /\ \A t \in DOMAIN entry : entry[t] # Unknown => t <= Len(code)
  /\ stage' = "run"
  /\ m' = [m EXCEPT !.top = code[1].top]
  /\ UNCHANGED <<translation, statics, pc, bytecode, aligned>>

-----------------------------------------------------------------------------
Here == code[pc]

(* Machine and bytecode are both at an instruction op; if they part, the   *)
(* comparison ends.                                                        *)
At(op) == stage = "run" /\ pc = at /\ Here.op = op

(* Machine s goes on to instruction t and the operands are then st. *)
Go(s, t, st) ==
  /\ pc' = t
  /\ m' = [s EXCEPT !.top = code[t].top]
  /\ stack' = st
  /\ aligned' = (aligned /\ (t = pc + 1 \/ st = <<>> \/ s.top = code[t].top))
  /\ UNCHANGED <<stage, translation>>

Left(k)    == SubSeq(stack, 1, Len(stack) - k)
Operand(k) == stack[Len(stack) + 1 - k]   \* the k-th from the top

Pop1 == PopVirtualStack(m)
Pop2 == PopVirtualStack(Pop1)

(* iconst_*, lconst_*, bipush, sipush *)
Const ==
  /\ At("const")
  /\ Go(PushValue(m, Here.arg), pc + 1, Append(stack, Here.arg))
  /\ at' = at + 1
  /\ UNCHANGED <<statics, values, locals>>

(* fconst_*, dconst_*, ldc, ldc2_w: the value is printed in hexadecimal,   *)
(* and so is the offset of the slot if the push saves one.                 *)
Literal ==
  /\ At("literal")
  /\ Go(PushHexValue(m, Here.arg), pc + 1, Append(stack, Here.arg))
  /\ at' = at + 1
  /\ UNCHANGED <<statics, values, locals>>

Load ==
  /\ At("load")
  /\ Go(PushValue(m, m.frame[FrameLocalVars + Here.arg]), pc + 1, Append(stack, locals[Here.arg]))
  /\ at' = at + 1
  /\ UNCHANGED <<statics, values, locals>>

(* Mutated form: locals are counted from 1. *)
StoreFromOne ==
  /\ At("store")
  /\ Go([Pop1 EXCEPT !.frame[FrameLocalVars + Here.arg - 1] = Popped(Pop1)], pc + 1, Left(1))
  /\ locals' = [locals EXCEPT ![Here.arg] = Operand(1)]
  /\ at' = at + 1
  /\ UNCHANGED <<statics, values>>

Store ==
  /\ At("store")
  /\ Go([Pop1 EXCEPT !.frame[FrameLocalVars + Here.arg] = Popped(Pop1)], pc + 1, Left(1))
  /\ locals' = [locals EXCEPT ![Here.arg] = Operand(1)]
  /\ at' = at + 1
  /\ UNCHANGED <<statics, values>>

GetStatic ==
  /\ At("getstatic")
  /\ Go(PushValue(m, statics[Here.arg]), pc + 1, Append(stack, values[Here.arg]))
  /\ at' = at + 1
  /\ UNCHANGED <<statics, values, locals>>

PutStatic ==
  /\ At("putstatic")
  /\ Go(PushVirtualStack(Pop1), pc + 1, Left(1))
  /\ statics' = [statics EXCEPT ![Here.arg] = Popped(Pop1)]
  /\ values' = [values EXCEPT ![Here.arg] = Operand(1)]
  /\ at' = at + 1
  /\ UNCHANGED locals

(* Mutated form: the register is read before the pop. *)
IfEqEarly ==
  /\ At("ifeq")
  /\ Go(Pop1, IF Popped(m) = Zero THEN Here.arg ELSE pc + 1, Left(1))
  /\ at' = IF Operand(1) = Zero THEN Here.arg ELSE at + 1
  /\ UNCHANGED <<statics, values, locals>>

(* ifeq; the other comparisons with zero differ in the flag they test. *)
IfEq ==
  /\ At("ifeq")
  /\ Go(Pop1, IF Popped(Pop1) = Zero THEN Here.arg ELSE pc + 1, Left(1))
  /\ at' = IF Operand(1) = Zero THEN Here.arg ELSE at + 1
  /\ UNCHANGED <<statics, values, locals>>

(* if_icmpeq *)
IfCompareEq ==
  /\ At("if_icmpeq")
  /\ Go(Pop2, IF Pop2.reg[GetReg(Pop1)] = Popped(Pop2) THEN Here.arg ELSE pc + 1, Left(2))
  /\ at' = IF Operand(1) = Operand(2) THEN Here.arg ELSE at + 1
  /\ UNCHANGED <<statics, values, locals>>

(* goto, goto_w *)
Goto ==
  /\ At("goto")
  /\ Go(m, Here.arg, stack)
  /\ at' = Here.arg
  /\ UNCHANGED <<statics, values, locals>>

Return ==
  /\ At("return")
  /\ stage' = "returned"
  /\ UNCHANGED <<translation, m, statics, pc, bytecode, aligned>>

Next ==
  \/ \E op \in Ops : \E arg \in Args(op) : Translate(op, arg)
  \/ Call
  \/ Const \/ Literal \/ Load \/ Store \/ GetStatic \/ PutStatic
  \/ IfEq \/ IfCompareEq \/ Goto \/ Return

Spec == Init /\ [][Next]_vars

-----------------------------------------------------------------------------
Instruction == [op : Ops, arg : Word \cup Locals \cup Fields \cup 0 .. MaxLength, top : 0 .. MaxTop]

TypeOK ==
  /\ stage \in {"codeGen", "run", "returned"}
  /\ code \in Seq(Instruction) /\ Len(code) <= MaxLength
  /\ top \in 0 .. MaxTop
  /\ entry \in [1 .. MaxLength + 1 -> Unknown .. MaxLength]
  /\ m \in [top : 0 .. MaxTop, reg : [Reg -> Content], frame : [Slot -> Content]]
  /\ statics \in [Fields -> Content] /\ values \in [Fields -> Word]
  /\ pc \in 1 .. MaxLength /\ at \in 1 .. MaxLength
  /\ stack \in Seq(Word) /\ locals \in [Locals -> Word]
  /\ aligned \in BOOLEAN

(***************************************************************************)
(* The code takes the branches of the bytecode, however _top has drifted,  *)
(* as long as no operand crosses a jump between instructions translated    *)
(* with different _tops (that is the code of if, while and for, and of all *)
(* that leaves the operand stack empty when it jumps) and _top stays       *)
(* within MaxTop, below HexTop where a literal is pushed.                  *)
(***************************************************************************)
TakesTheSameBranch == aligned => pc = at

(* The operands, locals and static fields are the bytecode's. *)
InPlace ==
  /\ \A i \in 1 .. Len(stack) : Place(m, m.top - Len(stack) + i - 1) = stack[i]
  /\ \A l \in Locals : m.frame[FrameLocalVars + l] = locals[l]
  /\ statics = values

(***************************************************************************)
(* Under the same conditions every instruction finds its operands in the    *)
(* registers it names, on every path that leads to it.                     *)
(***************************************************************************)
OperandsFollowJumps == aligned => InPlace

(* The caller's registers are intact on every path, aligned or not, of     *)
(* methods within those bounds of _top.                                    *)
SavedRegistersKept ==
  \A s \in FrameCalleeSaved .. FrameLocalVars - 1 : m.frame[s] = Other

(***************************************************************************)
(* The same of all verified bytecode.  A conditional expression breaks it: *)
(* one branch jumps with its value over the code of the other, and _top    *)
(* counts both values.                                                     *)
(***************************************************************************)
JoinsKeepOperands == InPlace

=============================================================================
