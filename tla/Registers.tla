------------------------------ MODULE Registers ------------------------------
(***************************************************************************)
(* The machine the generated code runs on, as ByteCodeGen_X86_64 uses it:  *)
(* five registers and a frame that hold the operands of the bytecode.      *)
(* While it compiles, _top says how many operands there are and so which   *)
(* register an instruction names; a push past the registers emits a save   *)
(* to the frame, a pop the reload.                                         *)
(***************************************************************************)
EXTENDS Integers, Sequences

CONSTANTS
  Word,       \* what an operand can be
  Other,      \* any other content: the caller's, a constant of the code
  MaxLocals,  \* _max_locals
  MaxTop,     \* bound of _top in the bytecode considered
  HexTop      \* bound of _top where a value is pushed after std::hex

NRegs == 5   \* _maxStackRegs: rbx, r12, r13, r14, r15
NArgs == 6   \* _maxArgumentRegs

(* The frame in slots of 8 bytes below rbp. *)
FrameCalleeSaved == NArgs
FrameLocalVars   == FrameCalleeSaved + NRegs
FrameJavaStack   == FrameLocalVars + MaxLocals

Reg     == 0 .. NRegs - 1
Locals  == 0 .. MaxLocals - 1
Slot    == 0 .. FrameJavaStack + MaxTop
Content == Word \cup {Other}

ASSUME FrameAssumption ==
  /\ MaxLocals \in Nat /\ MaxTop \in Nat /\ HexTop \in Nat
  /\ Other \notin Word

-----------------------------------------------------------------------------
GetReg(s) == s.top % NRegs

(* Mutated form: the slot is counted from the wrong end of the area. *)
PushVirtualStackDownwards(s) ==
  LET t == [s EXCEPT !.top = @ + 1]
  IN IF t.top >= NRegs
     THEN [t EXCEPT !.frame[FrameJavaStack - t.top] = t.reg[GetReg(t)]]
     ELSE t

PushVirtualStack(s) ==
  LET t == [s EXCEPT !.top = @ + 1]
  IN IF t.top >= NRegs
     THEN [t EXCEPT !.frame[FrameJavaStack + t.top] = t.reg[GetReg(t)]]
     ELSE t

(* The decimal number that the hexadecimal digits of n spell. *)
HexRead[n \in Nat] == IF n < 16 THEN n ELSE 10 * HexRead[n \div 16] + (n % 16)

(***************************************************************************)
(* std::hex stays in force until the next label is printed: after it the   *)
(* slot's offset comes out in hexadecimal, without 0x, and is assembled as *)
(* a decimal one.  Between two slots it leaves neither an operand.         *)
(* Offsets whose digits are no number (a0, a8) are not assembled at all;   *)
(* MaxLocals is to avoid them.                                             *)
(***************************************************************************)
PushVirtualStackHex(s) ==
  LET t       == [s EXCEPT !.top = @ + 1]
      offset  == HexRead[8 * (FrameJavaStack + t.top)]
      written == {offset \div 8, (offset + 7) \div 8}
      value   == IF offset % 8 = 0 THEN t.reg[GetReg(t)] ELSE Other
  IN IF t.top >= NRegs
     THEN [t EXCEPT !.frame = [i \in Slot |-> IF i \in written THEN value ELSE @[i]]]
     ELSE t

PopVirtualStack(s) ==
  LET t == [s EXCEPT !.top = @ - 1]
  IN IF t.top >= NRegs
     THEN [t EXCEPT !.reg[GetReg(t)] = t.frame[FrameJavaStack + t.top]]
     ELSE t

(* What the code reads after a pop: the register _top then names. *)
Popped(s) == s.reg[GetReg(s)]

PushValue(s, v)    == PushVirtualStack([s EXCEPT !.reg[GetReg(s)] = v])
PushHexValue(s, v) == PushVirtualStackHex([s EXCEPT !.reg[GetReg(s)] = v])

(* Registers and arguments are saved and the locals follow, uninitialised. *)
Prologue(local) ==
  [s \in Slot |-> IF s \in FrameLocalVars .. FrameJavaStack - 1 THEN local ELSE Other]

(* Where the operand pushed when _top was j is kept in the machine s. *)
Place(s, j) ==
  IF j >= s.top - NRegs THEN s.reg[j % NRegs] ELSE s.frame[FrameJavaStack + j + NRegs]

=============================================================================
