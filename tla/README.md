# SnapJVM: a TLA+ verification project

SnapJVM is a small just-in-time compiler for Java class files (x86-64), with a
boundary-tag heap, `snap_malloc`, that is built beside it.  This directory
models its parts in TLA+, model-checks them with TLC and proves theorems about
them with TLAPS.  `PROJECT.json` gives, for each definition, the lines of the
source that it models.

## 1. Inventory

| Component | Source | State | Operations | What makes it correct |
|---|---|---|---|---|
| Heap | `snap_malloc/myMalloc.*` | boundary tags, free lists, bitmap, chunks, one mutex | `my_malloc`, `my_calloc`, `my_realloc`, `my_free`, `verify` | no word handed out twice, tags and lists agree, free neighbours merge, calls return |
| Class parser | `ClassParser.*` | position in the image, constant pool, class | `parse` and one function per section | each entry in the slot the image means, fields bound to their names |
| Class | `ClassClass.*` | methods, fields, owner of the compiled code | `runMain`, `lookupMethod`, `getField` | a call reaches the method of its name, `<clinit>` first |
| Code generator | `ByteCodeGen_X86_64.*` | `_top` of the virtual operand stack, the text stream | `codeGen`, `codeGenOne`, push and pop | the register that is read holds the operand the bytecode means |
| Bytecode table | `ByteCode.*` | one definition per opcode | `initialize` | instruction lengths lead the compiler to the next instruction |
| Assembler | `AssemblerX86_64.*` | executable map and what is left of it | `assemble` | code blocks do not overlap nor leave the map |
| Runtime | `SnapJVMRuntime.*` | arrays | `runtime_newarray`, `array_load`, `array_store` | what Java refuses is reported, what Java does is done, stored bytes come back |
| Driver | `snap-jvm.cpp` | options | `main` | every class file is listed, compiled and run as the options say, or reported |

How they interact: `main` calls `ClassParser::parse`, then
with option `-c` `ClassClass::print`, then
`ByteCodeGen_X86_64::codeGen`, which asks the bytecode table for lengths, emits
text and hands the text of each method to the assembler, and last, unless option `-n`
forbids it, `ClassClass::runMain`, which calls into the assembled code.  That code reaches
the static fields' storage through addresses that the parser bound and the
array functions of the runtime.  The heap is a program of its own in the same
repository: its clients are threads that call the four `my_` functions; they
share one heap, one mutex and, through `sbrk`, the break with the rest of the
process.

What is hard in it: in the heap, threads between `my_malloc`'s unlock and its
last write to the block, four ways of coalescing, chunks that may or may not be
neighbours, a bitmap that caches which lists are empty, calls that fail half
way; in the compiler, state that outlives the step it was for (`_top`, the
number base of the stream, the list of field references), registers that are
named before and after `_top` moves, a `_top` that follows the file while the
code follows its jumps, tables whose zero means "not known", and numbers whose
width in a register is not the one that Java gives them.
`PROJECT.json` lists each of these hazards at its line.

## 2. Modules

| Module | Models | Extends / used by |
|---|---|---|
| `SizeClasses` | sizes, list indices, bitmap search of the heap | `MallocHeap`, `MCSizeClasses`, `SizeClassProofs` |
| `MallocHeap` | the heap and its client calls, thread by thread | `MCMallocHeap`, `HeapSafety` |
| `Allocator` | abstract specification: what an allocator promises its clients | refined by `MallocHeap` (in `MCMallocHeap`) |
| `FreelistVerify` | `verify_freelist` on arbitrary links | `FreelistProofs` |
| `Registers` | `_top`, the stack registers, the frame, push and pop | `VirtualStack`, `JumpCode` |
| `OperandStack` | abstract specification: the bytecode's operand stack | refined by `VirtualStack` |
| `VirtualStack` | straight code: each instruction of `codeGenOne` | `MCVirtualStack`, `VirtualStackProofs` |
| `JumpCode` | code with jumps: translated in one order, run in another | `JumpProofs` |
| `Words`, `Runtime` | numbers of a fixed width; arithmetic and the array functions | `MCRuntime`, `RuntimeSafety` |
| `ClassParser`, `Assembler` | `parse`; `assemble` | composed by `Driver` |
| `Driver` | `main`, the loops of `print` and `codeGen`, `lookupMethod`, `runMain` | `MCDriver`, `DriverSafety` |
| `SizeClassProofs`, `FreelistProofs`, `HeapSafety`, `RegisterLemmas`, `VirtualStackProofs`, `JumpProofs`, `RuntimeSafety`, `DriverSafety` | theorems | - |

### Heap

Memory is counted in words of 8 bytes, the unit to which `allocate_object`
rounds.  `heap` is one record: for each address the fields of the header there
(`size` 0 where there is none), the links of blocks and sentinels, the bitmap.
An operator stands for each private function (`FreelistRemove`, `SplitBlock`,
`CoalesceBoth`, `JoinChunk`, ...) and composes as the functions call each
other.  A call is cut into actions where another thread can see a difference:

* `Request` takes the mutex and picks a list; `SkipSmall` walks it;
  `TakeSplit` or `TakeWhole` takes a block and **releases the mutex**
  (`HandOut`, pc "mark"); marking the block allocated is the next action;
* `OutOfMemory` and the growth actions are the loop over `sbrk` in
  `allocate_object`; a chunk is joined to the last one exactly when it lies
  behind its fencepost, and `ForeignSbrk` lets somebody else move the break;
* `my_realloc` goes on to free the old block in a third step ("release");
* `Free` and `DoubleFree` run under the mutex, in one step.

What the code reads from memory it never wrote - the two state bits at the
header of a split block - is any state.  When the code follows a link that is
none, `heap.wild` is set and the model stops: no property speaks of what comes
after, and `NeverAstray` says that it does not happen with one client.

### Operand stack

One action stands for the compilation of an instruction and for the run of its
code: without jumps they run in the same order.  `m` holds `_top`, the five
stack registers and the frame.  `PushVirtualStack` and `PopVirtualStack` are
the two functions of the code; an action of `VirtualStack` is written in the
order in which `codeGenOne` pops, names registers and pushes.  Instructions
with the same pattern share an action.  `std::hex` stays in force in the stream
until the next label, so the offset printed by a push behind a hexadecimal
literal is read back as a decimal number: `PushVirtualStackHex`.  Two things
survive an instruction: `putstatic` pushes its operand again, and `_top` is not
reset between methods.  `stale` counts what lies below.

`OperandStack` is the bytecode's own view.  The refinement maps the i-th
operand to the register or the slot where the code keeps it (`Place`).

### Jumps

`JumpCode` separates what `VirtualStack` joins.  `Translate` is `codeGenOne` for
the next instruction of the file: it records the instruction with the `_top` it
was translated with.  `Call` ends the translation; then one action per
instruction runs its code, with the registers that *its* `_top` names, beside
the bytecode on an operand stack of its own (`stack`, `locals`, `values`, `at`).
The methods are those that Java's verifier accepts: `entry` gives the one number
of operands with which an instruction is reached.  As compilers write them,
loops and assignments leave no operand.  One instruction of each shape is
enough: what the others compute is `VirtualStack`'s and `Runtime`'s matter.
There are two that push a constant: `Const` for those that print it in decimal,
`Literal` for `fconst`, `dconst`, `ldc` and `ldc2_w`, which leave the stream
hexadecimal for the save of a fifth operand.  As in `VirtualStack`, `Literal` is
kept below `HexTop`; `operand_stack_hex` shows what happens above, without any
jump.

`aligned` is a history variable: it is lost when a jump takes operands along to
code that was translated with another `_top`.  While it holds, code and bytecode
agree; a conditional expression (`c ? x : y`) loses it, and the run
`branch_join` shows what then happens.

### Values

In `Runtime` every number is a record of what the register holds (`m`), what
Java has (`j`) and how many low bytes of the first are to be those of the second
(`t`).  The operations are those of the generated code and of the runtime's
three functions: 8-byte registers whatever the type, `lcmp` without -1, elements
that are cut when stored and extended with zeros when loaded, a block size that
is an `int`, checks that report and go on.  Memory of others that is written is
`machine = "astray"`, a trap "crashed"; both end the model.  A byte has
`ByteBits` bits, so that the whole range of an int can be reached by arithmetic.
Nothing is claimed (`t` = 0) where the code reads all 8 bytes of an operand and
one of them may be wrong: a quotient, a comparison, and an element that was
reached by an index or in an array whose bytes are not all right.

### Pipeline

`ClassParser` reads a class file entry by entry; `Driver` continues with one
action per method or instruction, first of the listing if option `-c` was given
(`ListOne`, `ListOperand`), then of the translation (`CodeGenOne`), and ends in
a stage: "done", "exited" (the parser calls `exit`), "crashed" (a `NULL` class
or method pointer is used) or "astray" (machine code was copied past its map;
nothing is said of the program from there on).  A class file is a record of what
the stages tell apart; the bytecode of a method is a sequence of instructions of
the four kinds of format (one byte, one with a wide form, three bytes, and the
empty format, which the two switches have, whose length depends on where they
stand, and `wide`).  Its length is 0 in the table, so `codeGen` stays at such an
instruction and `print` at `wide` (`Stuck`).  `print` does not mask its lengths
and may go on at an operand byte, which it takes for an instruction:
`ListOperand` says only that it gets past the end of the method or crashes.
Keystone is its result: the size of the machine code, 0 when it cannot assemble
the text. `front()` of an empty `std::list` is undefined; `FrontIndex` is what
the library of the default build, unoptimised, yields: its size field, 0.

## 3. Runs

| Run | Configuration | Size | Shows |
|---|---|---|---|
| `heap_one_client` | `MCMallocHeap` | 22,101 states | with one client every sequence of calls keeps tags, lists, bitmap and ownership, returns, and implements `Allocator`; a search for less than what the last three lists hold misses no block; nothing leaks |
| `heap_two_clients` | `MCTwoClients` | 5,489 states | with two clients only a step inside the unlock-to-mark window makes a sound heap unsound |
| `heap_race` | `MCRace` | violation | that window hands the same words out twice |
| `verify_freelist` | `FreelistVerify` | 252,792 states | the walk terminates and its verdict is exact, on all links of two lists and two blocks |
| `size_classes` | `MCSizeClasses` | 1,024 states | rounding, the two index formulas and the refiling test, for the program's own 59 lists |
| `operand_stack` | `MCVirtualStack` | 39,296 states | up to five operands, over any number of methods, the code implements `OperandStack` and keeps the frame |
| `operand_stack_deep` | `MCDeepStack` | violation | the sixth operand breaks it |
| `operand_stack_hex` | `MCHexSpill` | violation | a fifth operand pushed in hexadecimal lands on a saved register |
| `jumps` | `MCJumpCode` | 5,916,608 states | within the bounds of `_top`, every method of up to seven instructions with up to two jumps goes where its bytecode goes, on its operands, while aligned; the caller's registers stay saved, aligned or not |
| `branch_join` | `MCBranchJoin` | violation | a conditional expression leaves its value in another register than the one read behind the join |
| `values` | `MCRuntime` | 48,961 states | how many bytes of each computed number are Java's; what is reported and what is done of array accesses |
| `driver` | `MCDriver` | 400,494 states | every small class file under every choice of `-c` and `-n`, from `open` over the listing to the last call |

Bounds, and why they are enough for what the runs say:

* **Heap.** Five lists are the fewest for which the last list, the two boundary
  values `n_lists` and `n_lists + 2` of the refiling test, and a list below both
  differ.  `Arena` = 14 words holds two blocks of the smallest size and a
  remainder, `HeapLimit` = 30 two chunks and a word or two for `ForeignSizes`,
  so that chunks are joined as well as kept apart and memory does run out.
  `Requests` 8 and 80 bytes give the smallest block and one that needs joined
  chunks; 0 is the request that is refused.  The two-client runs need less:
  one request size and one or two chunks.  `MCTwoClients` stops exploring at a
  heap that has become unsound (`CONSTRAINT HeapSound`): its properties are
  about how that happens, and what follows is unbounded.  `SizeMod` is the
  number of values of `size_t`, 1024 so that the wrap-around is reached.
* **Operand stack.** Two values and an operation that is not commutative tell
  operands apart; one local and one static field are enough to see one
  overwritten.  `MaxTop` 5 is the number of stack registers: with it all
  registers and the first spill slot are in use; 6 is where it breaks.
  `HexTop` says how high an instruction that prints hexadecimal may push.
* **Jumps.** Seven instructions and two jumps are the fewest for a conditional
  expression, an `if` with an `else`, and a `while` with an assignment in it.
  `TopsLeft` 2 lets the method begin with the registers rotated; with `MaxTop` 5
  an assignment to a static field drifts `_top` to the last register.  A literal is
  pushed like a constant as long as nothing is saved; `HexTop` 3 lets it be the first
  operand, with constants above it, and keeps the run within five minutes.  In
  `branch_join` the method starts at 0 and has no static field and no literal:
  nothing but the jump is at work.
* **Values.** Two bits a byte: an int has 256 values and a long 65,536.  The
  constants are -1, 2 and 64 for ints and the least long, -1 and 3 for longs:
  two products or sums of them overflow an int, lose the sign of a product and
  give every index from below 0 to beyond the end.  Two computed values suffice
  for a length or index that is itself computed from one with a wrong upper
  half; a third takes more than five minutes.  One array of every type.
* **Pipeline.** `MaxPool` 3 and `MaxFields` 2 give every order of a wide entry,
  a reference to a field, to another class's field and to a filtered class;
  `MaxMethods` 3 with bodies of every size from 0 to more than a map of 4
  gives every way of filling and leaving maps, overloaded and missing methods.
  Each of the two switches and `wide` stands at each alignment, with and without
  an instruction with a wide form before it; two methods are long enough for the
  66 bytes that `print` goes on from `iload` to end inside them, at an operand and
  at an instruction.

Fairness.  Heap: weak fairness of each thread's own steps once it is in a call
(`Proceed`), not of beginning a call nor of `ForeignSbrk`; a thread that the
operating system runs does take its next step, and a mutex holder always can.
Pipeline and verification: weak fairness of the whole next-state relation, one
thread running its own code; but for `ListOperand`, as the loop of `print` need
not end on operand bytes, among which it may meet a format of length 0.
`operand_stack`, `jumps` and `values` have no liveness: what they model ends
when the method does, which the caller of the method decides.  Deadlock is
checked except where the program ends: `driver`; `jumps`, whose method returns;
`values`, where a trap or a store outside an array is the end.

### What the violations say

Each is a disagreement of the code with a sentence of its own comments, quoted
in `PROJECT.json`: the window in `my_malloc`; the pop that reloads a slot into
the register about to be read; the number base that outlives an instruction; the
`_top` of the branch that comes last in the file, used behind a join.

More are recorded as findings without a run, as the model takes them for what
the program does, and a property of a passing run says what is left that holds:

| Code | What it does | What holds |
|---|---|---|
| `move_coalesced` | compares with `n_lists`, two words early | `MisfiledOnlyAtTop`, `MissesOnlyAtTop`, `UnmovedOnlyAtTop` |
| `verify_tags` | compares no tag and returns a pointer as a truth value: false | not modelled |
| `putstatic` | leaves its operand in `_top` | `OperandsFollowJumps`, `ImplementsOperandStack` |
| the empty format of switches and `wide` | has length 0: `codeGen` stays at both for ever, `print` at `wide` | `Terminates` names them as exceptions |
| `print` | does not mask the wide length off | `ListsInstructions`, up to the first wide form; `Terminates` excepts operand bytes |
| binding of fields | by position only | `FieldsBoundToTheirRefs` |
| the test for code larger than its map | is of an unsigned number | `OnlyLargeCodeOverruns` |
| `lcmp` | yields 0 or 1, never -1 | `TrustedBytesRight`, `t` = 0 where Java has -1 |
| array loads | extend with zeros | `TrustedBytesRight`, the bytes of the element |
| bounds and negative lengths | are printed only | `ReportsWhatJavaRefuses`, `AcceptedIsDone` |
| `iinc` | prints its increment as a character | not modelled |

## 4. Proofs

Every theorem is proved for all values of the constants that satisfy the named
assumptions of the modules: `NListsAssumption` (at least three lists) and
`SizeModAssumption` (the values of `size_t` are a multiple of 8, 64 at least);
`HeapAssumption` (an arena has room for one block and its fenceposts, requests
are values of `size_t`); `BlocksAssumption` (there is a list, and blocks are
neither sentinels nor `NULL`); `StackAssumption`, `MethodAssumption` and
`PoolAssumption` (types only); `MapAssumption` (the reserve is positive and no
larger than a map); `FrameAssumption` and `JumpAssumption` (types and bounds
only); `ByteAssumption` (a byte has a bit) and `RuntimeAssumption` (constants
fit their types, arrays have one of five element types).

* **`SizeClassProofs`**: `HoldsRequest`, `OneListPerSize`, `ListsInOrder` and
  `RefiledBelowTheTop`, for every number of lists and every width of `size_t`.
  The specification walks through all requests, so the invariant is the range of
  `requested`; the work is in the arithmetic: a block size is a multiple of 8 of
  at least 32, both index formulas are compared on such numbers, and the refiling
  test fails to see a change of list only between the last three.  It explains
  why a search can miss a block.  `HeapSafety` rests on the same lemmas.
* **`FreelistProofs`**: `VerdictIsExact`, for any number of lists and any set of
  blocks, whatever their links.  "The nodes met from here" (`Met`) is the least
  set closed under `next`, so nothing is counted and the set need not be finite.
  The invariant has a part for each pass.  `Chase`: there is a function that
  commutes with `next` (`Strides`: some number of steps from every node) and
  takes the sentinel to the tortoise and the tortoise to the hare.  If they meet
  on a list that returns, the meeting point is a fixed point of it, so is every
  node that can be met from there, the sentinel included, and they are at the
  sentinel - where `detect_cycles` has already stopped.  That the hare may jump
  over the sentinel costs time but never a wrong verdict.  `Walk`: the nodes
  passed agree, and together with the sentinel they are closed when the walk is
  back.
* **`HeapSafety`** proves every invariant of the heap's runs and that
  `MallocHeap` implements `Allocator`, for every arena, address space, number of
  lists and set of requests.  `heap_race` shows that the heap is not safe for
  any two threads, so the theorems say under what condition it is: of `Guarded`
  runs, in which no step merges blocks (`Merges`) while some thread stands
  between unlock and mark (`InWindow`); `heap_two_clients` checks that nothing
  else is needed, and `BreaksInWindow` states it of all runs: `IInv` breaks only
  by a step that merges in the window.  One client cannot be in the window and
  merge at the same time (`OneClientGuarded`), so that `OneClientSafe` and
  `OneClientServed` are about `Spec` itself.  `Unwrapped`, where it is assumed,
  excludes the requests whose sum with the header wraps around `size_t`
  (`size_classes` shows that those do get blocks that are too small), and
  `SearchComplete` assumes that `freelist_bitmap` begins empty. The invariant is
  `IInv`.  Its core `HeapInv` (`Sound`) says of a heap with left fenceposts `F`,
  right fenceposts `E` and handed out but unmarked blocks `X`: the tags lie end
  to end and point left correctly (`Tags`, stated without recursion: no header
  inside a block, one behind each that is no right fencepost); blocks that are
  unallocated and not in `X` are exactly those on the lists, no two side by
  side; and there are a home list and a rank for each, growing along the links
  (`Linked`), so that "on the list" needs no recursion.  `BoundaryTags` or
  `ListsHoldFreeBlocks` alone are not inductive: coalescing needs the tags, the
  lists and the state bits of all neighbours at once.  The first part of the
  module has a lemma for each private function and each part of `Sound` it
  touches (split, the four coalescings, insertion into the right place of the
  last list, a chunk made, a chunk joined); the second adds the threads: who
  holds the mutex, where a search stands (`SearchInv`), what is live and large
  enough (`LiveInv`, `FitInv`), what `DoubleFree` may rely on (`FreedInv`).
  `SearchComplete` adds `ServeInv`: once a search for less than what the last
  three lists hold stands at the sentinel of its list, every free block is too
  small.  An earlier form of this property said that whatever a search misses
  lies in a list lower than that of its size.  It is false - with an arena of 32
  words a block stays in a *higher* list than its size, and in the last list
  such a block stands among larger ones - and held in the run by its bounds
  alone; `MissesOnlyAtTop` is what is true.
* **`VirtualStackProofs`**: `Typed`, `CallerRestored` and
  `CodeImplementsBytecode`, under `MaxTop <= NRegs` and `HexTop < NRegs` - the
  condition whose failure the runs `operand_stack_deep` and `operand_stack_hex`
  show - for every set of values, operations, locals and fields.  The
  inductive invariant `Sound` says that the operands since `stale` lie in
  registers `stale` to `_top - 1` and that the frame's first three areas hold
  what the prologue and stores of locals put there; `ImplementsOperandStack` is
  not inductive alone, as it does not say where a spilled copy lies.  Each
  instruction has a lemma (`...Maps`): it keeps `Sound` and is a step of
  `OperandStack`.  Pops are done first (`PopsDrop`, `OperandsRead`), then the
  push (`PushMaps`); the fifth push also spills, above the locals.
* **`JumpProofs`** (on the lemmas of `RegisterLemmas`, shared with
  `VirtualStackProofs`): `Typed`, `BranchesTaken`, `OperandsFollow` and
  `CallerKept`, under `MaxTop <= NRegs` and `HexTop < NRegs` as before, for
  methods of any length with any number of jumps.  None of the properties is
  inductive: that an instruction finds its operands needs to know how many there
  are, wherever control comes from.  `IInv` is `CodeInv /\ DataInv /\ FlowInv`.
  `CodeInv` says of each instruction translated that its successors have the
  number of operands it leaves, and that the next in the file has the `_top` it
  leaves.  `FlowInv` ties the run to it: the operand stack of the bytecode is as
  deep as `entry` says, and the machine's `_top` is that of the instruction.
  `DataInv` says that an aligned machine holds the operands in the registers
  below `_top` (`Holds`), and that the saved registers of the caller are in
  their slots on every path.  An instruction's effect is proved in two halves,
  on the data (`Pushed`, `Lowered`, `Reads`) and on the flow (`Arrived`,
  `GoesOn`).
* **`RuntimeSafety`**: `Typed`, `TrustedBytes`, `RefusalsReported` and
  `AcceptedDone`, for every width of a byte, any constants and any number of
  values and arrays.  `IInv` says of each number that its lowest `t` bytes are
  those of Java (`Alike`, a congruence), and of each array that its cells are of
  its width, its elements are such as Java can have, a length that is to be
  wholly right is, and every cell is right in as many bytes as `trust` says
  (`ArrayRight`); what is reported then follows from the range of an int
  (`HalfIsEnough`, `CellIs`).  The first half of the module is what this rests on: powers of
  two, remainders, what fits a width, and that addition, multiplication and the
  bitwise operations of two operands depend, in their lowest bytes, on the lowest
  bytes of the operands only (`ComputedAlike`).  The proof found an error of
  the model, which claimed all bytes of a long sum or quotient even if an operand
  had been loaded from an array by a wrong index; no run was long enough to see it.
* **`DriverSafety`**: every invariant of the run `driver`.
  `CodeStaysIntact` and `OverrunsNeedLargeCode`: `CodeIntact` compares blocks
  pairwise and is not inductive; `MapsInv` adds that every block of the current
  map ends at or before `cur`, that `cur + left` is the size of the map, and
  that no block lies in a map not yet taken.
  `PoolIsRead`: `PoolInv` ties the slot to the position in the file
  (`slot = SlotOf(image, next)`), says that nothing at or beyond it has been
  written, and that the indices kept are those of Fieldrefs; `EnoughToFilter`
  says that the filter never takes from an empty list, which is what makes its
  `Head` meaningful.  Slots ascend because the count of wide entries does
  (`SlotsAscend`).
  `FieldsAreBound`: `BindInv` adds that what is left of the list of references is an
  ascending enumeration of those not yet used; two ascending
  enumerations of a set are equal (`OneEnumeration`), so the list is the one the property
  names.
  `CallsAreTheirMethods`: `CallsInv` says that the code of every compiled
  method still lies in the block that was copied for it (`Placed`), which later
  assemblies leave where it is.
  `LabelsMarkInstructions` and `ListingNamesInstructions`: `Begins`, where an
  instruction begins, is a recursive function over the bytecode; what is needed
  of it is proved by the least counterexample.  `Listed`, the invariant of the
  listing, has a case for each way it can stand: at an instruction, still at `wide`,
  or somewhere behind a wide form, where it no longer matters.

Two invariants that looked right turned out, in their proofs, to need a condition, which
they now state: `FieldsBoundToTheirRefs` speaks of files with the
magic number (on another `parse` leaves the pool unread), and `MissesOnlyAtTop` as above.

Only model-checked: `OnlyTheWindowCorrupts`, which speaks of heaps that are
merely sound (`HeapSound`), where `BreaksInWindow` speaks of the stronger
inductive invariant: a merge in the window can break the one and keep the other,
and what two clients do after that is left to the run; `NothingLost`;
`ImplementsAllocator` where a request wraps; `EveryCallReturns`, `Terminates`
and every other liveness property, which the provers cannot state with fairness.

## 5. What is not modelled

* **Instructions.** `iinc`, `ldc_w`, `aconst_null` and those for which
  `codeGenOne` emits nothing or only a note; methods that only unverified
  bytecode or unimplemented instructions could form, in which `_top` falls below
  zero.  Dead code, and code that leaves operands at a backward jump, which
  compilers do not write.
* **Floating point**: `float` and `double` are values among others in
  `VirtualStack` and have no arithmetic in `Runtime`; arrays of `boolean`, of
  `float` and of `double` have the layout of those of the same width.
* **The frame below its saved registers**: the arguments saved over the frame
  pointer (a hazard), and slots that a drifted `_top` puts below `rsp`.
* **The heap's limits**: the width of `freelist_bitmap` (7 bytes for 59 lists;
  the byte that follows is padding) and the 1024 entries of `osChunkList`.
* **`verify_tags`**: its loop ends where it begins, whatever the tags are.
* **Contents**: entries of the constant pool that no later code reads,
  attributes other than Code, byte order; malformed names; a static field of the
  class itself that is called `out`.
* **The assembler's memory**: `mmap` is taken to succeed; keystone is external.
* **Printing**: what `print` says of the pool, the fields and the operands, the
  options `-v` and `-t`; `Object.cpp` and `CodeGen` (not part of the build); the
  allocator's test drivers; `runtime_invokevirtual`, which nothing calls.

## 6. Plan

In order: (1) which merges in the window leave a heap sound, to prove
`OnlyTheWindowCorrupts` as it stands, and `NothingLost`; (2) the values that an
aligned method computes, `JumpCode` with the numbers of `Runtime`; (3) `iinc`
and `ldc_w`.
