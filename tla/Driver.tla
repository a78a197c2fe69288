------------------------------- MODULE Driver -------------------------------
(***************************************************************************)
(* The program snap-jvm: parse the class file (ClassParser), print it if   *)
(* option -c asks for it, translate and assemble each method (Assembler),  *)
(* then run <clinit> and main unless option -n forbids it.                 *)
(*                                                                         *)
(* A method of a class file is a record:                                   *)
(*   name - its name;                                                      *)
(*   code - its instructions, <<>> for a method without a Code attribute;  *)
(*   size - how many bytes its machine code takes, 0 for text that the     *)
(*          keystone library cannot assemble.                              *)
(* The class file's names are well-formed; the code called returns.        *)
(***************************************************************************)
EXTENDS ClassParser, Assembler

CONSTANT UNSET \* what `new Method[n]' leaves in a field

Switches == {"lookupswitch", "tableswitch"}

(* What has the empty format; so has breakpoint, which no class file has. *)
Formless == Switches \cup {"wide"}

(* One instruction of each kind of format. *)
Opcodes == {"return", "iload", "goto"} \cup Formless

ASSUME MethodAssumption ==
  \A img \in Images :
    /\ Len(img.methods) \in Nat /\ DOMAIN img.methods = 1 .. Len(img.methods)
    /\ \A m \in DOMAIN img.methods :
         LET body == img.methods[m].code
         IN /\ img.methods[m].size \in Nat
            /\ Len(body) \in Nat /\ DOMAIN body = 1 .. Len(body)
            /\ \A n \in DOMAIN body : body[n] \in Opcodes

VARIABLES
  options, \* print: printClassInfo, execute: executeMain
  method, \* the index of the method being printed or compiled
  k,      \* the offset of the instruction being printed or compiled
  labels, \* the offsets whose line has been printed or label emitted
  code,   \* each method's _code: the place of its first byte
  calls   \* the calls of runMain: the name asked for and the method whose code ran

vars == <<parserVars, codeVars, options, method, k, labels, code, calls>>

Methods == image.methods

-----------------------------------------------------------------------------
(* The bytes after the opcode of a switch up to a multiple of four. *)
Padding(at) == 3 - (at % 4)

(* The length of an instruction in a class file at an offset; each switch  *)
(* has one case, and wide stands before an instruction such as iload.      *)
JvmLength(op, at) ==
  CASE op = "return" -> 1
    [] op = "iload"  -> 2
    [] op = "goto"   -> 3
    [] op = "wide"   -> 4
    [] op = "lookupswitch" -> 1 + Padding(at) + 4 + 4 + 8
    [] op = "tableswitch"  -> 1 + Padding(at) + 4 + 4 + 4 + 4

(* Where the n-th instruction of a method begins. *)
Begins(m, n) ==
  LET begin[i \in 1 .. n] ==
        IF i = 1 THEN 0 ELSE begin[i - 1] + JvmLength(Methods[m].code[i - 1], begin[i - 1])
  IN begin[n]

CodeLength(m) ==
  LET last == Len(Methods[m].code)
  IN Begins(m, last) + JvmLength(Methods[m].code[last], Begins(m, last))

Starts(m) == {Begins(m, n) : n \in DOMAIN Methods[m].code}

(* The instruction codeArray holds at an offset where one begins.  What an *)
(* operand byte holds is not said: codeGen never gets to one, as           *)
(* LabelsAtInstructions shows; for print see ListOperand.                  *)
OpAt(m, offset) ==
  Methods[m].code[CHOOSE n \in DOMAIN Methods[m].code : Begins(m, n) = offset]

(* Mutated form: jumps, too, have the empty format. *)
FormatNoJumps(op) ==
  CASE op = "return" -> [len |-> 1, wide |-> 0]
    [] op = "iload"  -> [len |-> 2, wide |-> 4]
    [] op \in {"goto"} \cup Formless -> [len |-> 0, wide |-> 0]

(* The formats given to def: the lengths of the normal and the wide one.   *)
Format(op) ==
  CASE op = "return" -> [len |-> 1, wide |-> 0]
    [] op = "iload"  -> [len |-> 2, wide |-> 4]
    [] op = "goto"   -> [len |-> 3, wide |-> 0]
    [] op \in Formless -> [len |-> 0, wide |-> 0]

Lengths(op) == (16 * Format(op).wide) + (Format(op).len % 16)

(* Mutated form: the length of the wide form is not masked off. *)
AdvanceUnmasked(op) == Lengths(op)

Advance(op) == Lengths(op) % 16

(* Mutated form: the opcode of a switch counts as one of the four bytes. *)
ListedLengthPadded(op, at) ==
  CASE op = "lookupswitch" -> 4 - (at % 4) + 9 + 8
    [] op = "tableswitch"  -> 4 - (at % 4) + 13 + 4
    [] OTHER -> Lengths(op)

(* How far print goes on: the lengths of switches are its own, the others  *)
(* are not masked.                                                         *)
ListedLength(op, at) ==
  CASE op = "lookupswitch" -> 3 - (at % 4) + 9 + 8
    [] op = "tableswitch"  -> 3 - (at % 4) + 13 + 4
    [] OTHER -> Lengths(op)

-----------------------------------------------------------------------------
Init ==
  /\ ParserInit /\ AssemblerInit
  /\ options \in [print : BOOLEAN, execute : BOOLEAN]
  /\ method = 0 /\ k = 0 /\ labels = {}
  /\ code = <<>> /\ calls = <<>>

ParseStep == Parse /\ UNCHANGED <<codeVars, method, k, labels, code, calls>>

Become(s) ==
  /\ stage' = s
  /\ UNCHANGED <<image, next, slot, pool, fieldCPIs, turn, limit, staticVars, instanceVars>>

(* main prints or compiles the NULL that parse returned. *)
CompileNoClass ==
  /\ stage = "noClass" /\ Become("crashed")
  /\ UNCHANGED <<codeVars, method, k, labels, code, calls>>

AtFirstMethod == method' = 1 /\ k' = 0 /\ labels' = {}

StartListing ==
  /\ stage = "parsed" /\ options.print /\ Become("listing")
  /\ AtFirstMethod
  /\ UNCHANGED <<codeVars, code, calls>>

Listing == stage = "listing" /\ method \in DOMAIN Methods

NextMethod == method' = method + 1 /\ k' = 0 /\ labels' = {}

(* Whether the loop over the bytes of a method's code goes on. *)
MoreCode == Methods[method].code # <<>> /\ k < CodeLength(method)

ListOne ==
  /\ Listing /\ MoreCode /\ k \in Starts(method)
  /\ labels' = labels \cup {k}
  /\ k' = k + ListedLength(OpAt(method, k), k)
  /\ UNCHANGED <<parserVars, codeVars, method, code, calls>>

AtOperand == Listing /\ MoreCode /\ k \notin Starts(method)

(* A length that is not masked can lead print to an operand byte, which it *)
(* takes for an instruction: one with an index past the pool, so that it   *)
(* crashes; or one with some length, a switch with any number of cases     *)
(* among them, and so on from byte to byte until it is past the end, if it *)
(* gets there: of this step no fairness is asked.                          *)
ListOperand ==
  /\ AtOperand
  /\ labels' = labels \cup {k}
  /\ \/ k' = CodeLength(method) /\ UNCHANGED parserVars
     \/ UNCHANGED k /\ Become("crashed")
  /\ UNCHANGED <<codeVars, method, code, calls>>

ListNextMethod ==
  /\ Listing /\ ~MoreCode
  /\ NextMethod
  /\ UNCHANGED <<parserVars, codeVars, code, calls>>

EndListing ==
  /\ stage = "listing" /\ method \notin DOMAIN Methods
  /\ Become("listed")
  /\ UNCHANGED <<codeVars, method, k, labels, code, calls>>

-----------------------------------------------------------------------------
StartCodeGen ==
  /\ \/ stage = "parsed" /\ ~options.print
     \/ stage = "listed"
  /\ Become("codeGen") /\ AtFirstMethod
  /\ code' = [m \in DOMAIN Methods |-> UNSET]
  /\ UNCHANGED <<codeVars, calls>>

Compiling == stage = "codeGen" /\ method \in DOMAIN Methods

(* A native or abstract method has no Code. *)
SkipMethod ==
  /\ Compiling /\ Methods[method].code = <<>>
  /\ NextMethod
  /\ UNCHANGED <<parserVars, codeVars, code, calls>>

(* The operand stack codeGenOne tracks is VirtualStack's. *)
CodeGenOne ==
  /\ Compiling /\ MoreCode
  /\ labels' = labels \cup {k}
  /\ k' = k + Advance(OpAt(method, k))
  /\ UNCHANGED <<parserVars, codeVars, method, code, calls>>

Translated == Compiling /\ Methods[method].code # <<>> /\ k >= CodeLength(method)

AssembleMethod ==
  /\ Translated
  /\ Assemble(method, Methods[method].size)
  /\ code' = [code EXCEPT ![method] = [map |-> Space.map, at |-> Space.at]]
  /\ NextMethod
  /\ UNCHANGED <<parserVars, calls>>

(* What is copied past the map destroys whatever lies there, or faults:    *)
(* from here on nothing is said of the program.                            *)
AssembleOverrun ==
  /\ Translated /\ Overrun(Methods[method].size)
  /\ Become("astray")
  /\ UNCHANGED <<codeVars, method, k, labels, code, calls>>

EndCodeGen ==
  /\ stage = "codeGen" /\ method \notin DOMAIN Methods
  /\ Become(IF options.execute THEN "clinit" ELSE "done")
  /\ UNCHANGED <<codeVars, method, k, labels, code, calls>>

-----------------------------------------------------------------------------
(* Mutated form: the comparison is of the wrong method's name. *)
FoundAfter(name, m) == m + 1 \in DOMAIN Methods /\ Methods[m + 1].name = name

Found(name, m) == Methods[m].name = name

(* lookupMethod returns the first method of the name; 0 for none. *)
LookupMethod(name) ==
  IF \E m \in DOMAIN Methods : Found(name, m)
  THEN CHOOSE m \in DOMAIN Methods : Found(name, m) /\ \A n \in 1 .. m - 1 : ~Found(name, n)
  ELSE 0

(* The block whose first bytes are executed by a call of a place. *)
BlocksAt(place) ==
  {i \in DOMAIN blocks : blocks[i].map = place.map /\ blocks[i].size > 0
                         /\ place.at \in blocks[i].at .. blocks[i].at + blocks[i].size - 1}

Latest(is) == CHOOSE i \in is : \A j \in is : j <= i

(* A call through _code: the code last written there runs; there may be    *)
(* none, or the pointer may never have been set.                           *)
Call(name, then) ==
  LET m == LookupMethod(name)
  IN IF code[m] # UNSET /\ BlocksAt(code[m]) # {}
     THEN /\ LET ran == blocks[Latest(BlocksAt(code[m]))].method
             IN calls' = Append(calls, [name |-> name, found |-> m, ran |-> ran])
          /\ Become(then)
     ELSE Become("crashed") /\ UNCHANGED calls

RunClinit ==
  /\ stage = "clinit"
  /\ IF LookupMethod("<clinit>") # 0
     THEN Call("<clinit>", "main")
     ELSE Become("main") /\ UNCHANGED calls
  /\ UNCHANGED <<codeVars, method, k, labels, code>>

RunMain ==
  /\ stage = "main"
  /\ IF LookupMethod("main") # 0
     THEN Call("main", "done")
     ELSE Become("done") /\ UNCHANGED calls
  /\ UNCHANGED <<codeVars, method, k, labels, code>>

Next ==
  /\ \/ ParseStep \/ CompileNoClass
     \/ StartListing \/ ListOne \/ ListOperand \/ ListNextMethod \/ EndListing
     \/ StartCodeGen \/ SkipMethod \/ CodeGenOne
     \/ AssembleMethod \/ AssembleOverrun \/ EndCodeGen \/ RunClinit \/ RunMain
  /\ UNCHANGED options

(* One thread runs the program, to its end unless print stays at operand   *)
(* bytes for ever.                                                         *)
Spec == Init /\ [][Next]_vars /\ WF_vars(Next /\ ~AtOperand)

-----------------------------------------------------------------------------
(* An instruction whose format has no length, and k stays: codeGen at a    *)
(* switch and at wide, print at wide.                                      *)
Stuck ==
  \/ Compiling /\ MoreCode /\ OpAt(method, k) \in Formless
  \/ Listing /\ MoreCode /\ k \in Starts(method) /\ OpAt(method, k) \in Formless \ Switches

(***************************************************************************)
(* codeGen emits a label offset_k exactly where an instruction begins, in  *)
(* front of its code: each label a jump of the method names is there, and  *)
(* no operand byte is translated as an instruction.                        *)
(***************************************************************************)
LabelsAtInstructions ==
  Compiling /\ Methods[method].code # <<>> /\ k > 0 =>
    /\ k \in Starts(method) \cup {CodeLength(method)}
    /\ labels \ (IF Stuck THEN {k} ELSE {}) = {s \in Starts(method) : s < k}

(***************************************************************************)
(* Until it has listed something behind an instruction with a wide form,   *)
(* print has listed exactly the instructions it has passed, no operand     *)
(* byte among them: it skips the padding and the cases of a switch         *)
(* wherever it stands.                                                     *)
(***************************************************************************)
ListsInstructions ==
  LET NothingWideBefore(s) ==
        \A r \in Starts(method) : r < s => Format(OpAt(method, r)).wide = 0
  IN Listing /\ Methods[method].code # <<>> /\ (\A s \in labels : NothingWideBefore(s)) =>
       labels \ (IF Stuck THEN {k} ELSE {})
         = {s \in Starts(method) : s < k /\ NothingWideBefore(s)}

(***************************************************************************)
(* runMain runs <clinit> before main, each call runs the code of a method  *)
(* of that name, unless it could not be assembled, main is never run       *)
(* without the <clinit> of a class that has one, and nothing runs with -n. *)
(***************************************************************************)
CallsRunTheirMethod ==
  /\ \A c \in DOMAIN calls :
       Methods[calls[c].found].size > 0 => Methods[calls[c].ran].name = calls[c].name
  /\ options.execute /\ stage = "done" /\ LookupMethod("<clinit>") # 0 =>
       calls # <<>> /\ calls[1].name = "<clinit>"
  /\ ~options.execute => calls = <<>>

(***************************************************************************)
(* Only a method whose code is larger than the reserve runs past the map.  *)
(***************************************************************************)
OnlyLargeCodeOverruns == stage = "astray" => Methods[method].size > Reserve

(***************************************************************************)
(* The loops of parse, print, codeGen and runMain all advance and the      *)
(* program comes to an end, in a crash perhaps, unless codeGen reaches a   *)
(* switch or either of the two wide, or the listing gets to operand bytes. *)
(***************************************************************************)
Terminates == <>(stage \in {"exited", "crashed", "astray", "done"} \/ Stuck \/ AtOperand)

=============================================================================
