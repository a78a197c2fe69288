---------------------------- MODULE OperandStack ----------------------------
(***************************************************************************)
(* What a method's bytecode means: the operand stack, local variables and  *)
(* static fields of the Java virtual machine, one step per instruction of  *)
(* the kinds SnapJVM compiles.  What the instructions compute is given by  *)
(* Result and Negated; this module is about which operands they take.      *)
(***************************************************************************)
EXTENDS Integers, Sequences

CONSTANTS
  Word,            \* what an operand can be
  Operations,      \* the instructions with two operands and a result
  Result(_, _, _), \* their result
  Negated(_)       \* the result of ineg and dneg

VARIABLES
  stack,   \* the operand stack, its top last
  locals,  \* the local variables
  statics, \* the static fields
  given    \* what the last instruction decided on or handed over, the top first

Front(n) == SubSeq(stack, 1, Len(stack) - n)

Operand(i) == stack[Len(stack) + 1 - i]   \* the i-th from the top

Init == stack = <<>> /\ given = <<>>

Push == \E v \in Word :
  /\ stack' = Append(stack, v)
  /\ UNCHANGED <<locals, statics>> /\ given' = <<>>

Load == \E l \in DOMAIN locals :
  /\ stack' = Append(stack, locals[l])
  /\ UNCHANGED <<locals, statics>> /\ given' = <<>>

GetStatic == \E f \in DOMAIN statics :
  /\ stack' = Append(stack, statics[f])
  /\ UNCHANGED <<locals, statics>> /\ given' = <<>>

Dup ==
  /\ Len(stack) >= 1
  /\ stack' = Append(stack, Operand(1))
  /\ UNCHANGED <<locals, statics>> /\ given' = <<>>

Negate ==
  /\ Len(stack) >= 1
  /\ stack' = Append(Front(1), Negated(Operand(1)))
  /\ UNCHANGED <<locals, statics>> /\ given' = <<>>

Compute == \E op \in Operations :
  /\ Len(stack) >= 2
  /\ stack' = Append(Front(2), Result(op, Operand(2), Operand(1)))
  /\ UNCHANGED <<locals, statics>> /\ given' = <<>>

Store == \E l \in DOMAIN locals :
  /\ Len(stack) >= 1
  /\ stack' = Front(1)
  /\ locals' = [locals EXCEPT ![l] = Operand(1)]
  /\ UNCHANGED statics /\ given' = <<>>

PutStatic == \E f \in DOMAIN statics :
  /\ Len(stack) >= 1
  /\ stack' = Front(1)
  /\ statics' = [statics EXCEPT ![f] = Operand(1)]
  /\ UNCHANGED locals /\ given' = <<>>

(* A conditional jump or switch, or a call without a result: what it takes *)
(* is what it decides on, or what it is given.                             *)
Consume == \E n \in 1 .. 3 :
  /\ Len(stack) >= n
  /\ stack' = Front(n)
  /\ given' = [i \in 1 .. n |-> Operand(i)]
  /\ UNCHANGED <<locals, statics>>

(* A call of the runtime that returns a value. *)
CallFor == \E n \in 1 .. 2, v \in Word :
  /\ Len(stack) >= n
  /\ stack' = Append(Front(n), v)
  /\ given' = [i \in 1 .. n |-> Operand(i)]
  /\ UNCHANGED <<locals, statics>>

(* The next method begins with an empty stack. *)
Enter == stack' = <<>> /\ statics' = statics /\ given' = <<>>

Next ==
  \/ Push \/ Load \/ GetStatic \/ Dup \/ Negate \/ Compute \/ Store
  \/ PutStatic \/ Consume \/ CallFor \/ Enter

Spec == Init /\ [][Next]_<<stack, locals, statics, given>>

=============================================================================
