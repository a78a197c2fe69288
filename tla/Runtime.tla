------------------------------- MODULE Runtime -------------------------------
(***************************************************************************)
(* What compiled code computes: int and long arithmetic, which is done in  *)
(* 8-byte registers whatever the type, and the array functions of          *)
(* SnapJVMRuntime.  Beside each number runs the one that Java prescribes.  *)
(*                                                                         *)
(* Where operands are kept is the matter of VirtualStack and JumpCode:     *)
(* here every value computed so far can be an operand again.               *)
(***************************************************************************)
EXTENDS Words, Sequences, FiniteSets

CONSTANTS
  Ints, Longs,  \* the constants of the code
  Types,        \* of the arrays: "byte", "char", "short", "int", "long"
  MaxComputed,  \* bound of the values computed
  MaxArrays     \* bound of the number of arrays

ASSUME RuntimeAssumption ==
  /\ Ints \subseteq Int /\ \A i \in Ints : Signed(i, 4) = i
  /\ Longs \subseteq Int /\ \A l \in Longs : Signed(l, 8) = l
  /\ Types \subseteq {"byte", "char", "short", "int", "long"}

(***************************************************************************)
(* A value is a record:                                                    *)
(*   m - the register;                                                     *)
(*   j - what Java has;                                                    *)
(*   t - how many low bytes of m are to be those of j.                     *)
(* An array is a record:                                                   *)
(*   type;                                                                 *)
(*   header, bytes - its first word, and the bytes that follow it;         *)
(*   cells  - their content, one number an element;                        *)
(*   length, values - Java's length and elements;                          *)
(*   t, trust - how many low bytes of the header are to be those of the    *)
(*            length, and of a cell those of the element.                  *)
(***************************************************************************)
VARIABLES
  ints, longs, \* the values computed
  arrays,      \* the arrays allocated
  machine,     \* "running", "crashed", or "astray": memory of others was written
  last         \* history: what the last array function was to do and reported

vars == <<ints, longs, arrays, machine, last>>

Exact(x) == [m |-> x, j |-> x, t |-> 8]
Least(x, y) == IF x < y THEN x ELSE y

NoCall == [threw |-> FALSE, reported |-> FALSE, exact |-> FALSE, low |-> FALSE, large |-> FALSE]

Init ==
  /\ ints = {Exact(i) : i \in Ints}
  /\ longs = {Exact(l) : l \in Longs}
  /\ arrays = <<>>
  /\ machine = "running"
  /\ last = NoCall

Room == Cardinality(ints) + Cardinality(longs) < Cardinality(Ints) + Cardinality(Longs) + MaxComputed

-----------------------------------------------------------------------------
Ops == {"add", "sub", "mul"} \cup BitwiseOps

(* A 64-bit instruction is right in the low half for ints that are, and    *)
(* wholly right unless Java's result is cut to 32 bits.                    *)
IntResult(op, x, y) ==
  LET t == Least(x.t, y.t)
      j == Computed(op, x.j, y.j, 4)
  IN [m |-> Computed(op, x.m, y.m, 8), j |-> j,
      t |-> IF j = Computed(op, x.j, y.j, 8) THEN t ELSE Least(t, 4)]

Arithmetic == machine = "running" /\ Room /\ last' = NoCall /\ UNCHANGED arrays

(* iadd, isub, imul, iand, ior, ixor; ineg is isub from 0. *)
IntOp ==
  /\ Arithmetic
  /\ \E op \in Ops, x \in ints, y \in ints : ints' = ints \cup {IntResult(op, x, y)}
  /\ UNCHANGED <<longs, machine>>

Ineg ==
  /\ Arithmetic
  /\ \E x \in ints : ints' = ints \cup {IntResult("sub", Exact(0), x)}
  /\ UNCHANGED <<longs, machine>>

(* ladd, lsub, lmul, land, lor, lxor *)
LongResult(op, x, y) ==
  [m |-> Computed(op, x.m, y.m, 8), j |-> Computed(op, x.j, y.j, 8), t |-> Least(x.t, y.t)]

LongOp ==
  /\ Arithmetic
  /\ \E op \in Ops, x \in longs, y \in longs : longs' = longs \cup {LongResult(op, x, y)}
  /\ UNCHANGED <<ints, machine>>

(* Mutated form: only the division by 0 is refused. *)
TrapsOnZero(x, y) == y = 0

Traps(x, y) == y = 0 \/ Quotient(x, y) # Signed(Quotient(x, y), 8)

(* Nothing is said of a result, if an operand is not wholly right. *)
TrustIfExact(x, y) == IF x.t = 8 /\ y.t = 8 THEN 8 ELSE 0

DivResult(x, y) ==
  [m |-> Quotient(x.m, y.m), j |-> Signed(Quotient(x.j, y.j), 8), t |-> TrustIfExact(x, y)]

(* idivq traps on 0, as Java throws, and when the quotient is too large,   *)
(* where Java wraps.                                                       *)
Ldiv ==
  /\ Arithmetic
  /\ \E x \in longs, y \in longs :
       IF Traps(x.m, y.m)
       THEN machine' = "crashed" /\ UNCHANGED longs
       ELSE /\ longs' = IF y.j = 0 THEN longs ELSE longs \cup {DivResult(x, y)}
            /\ UNCHANGED machine
  /\ UNCHANGED ints

(* The result is 0 or 1: nothing is said of it where Java has -1. *)
CmpResult(x, y) ==
  LET j == CASE x.j < y.j -> 0 - 1 [] x.j = y.j -> 0 [] x.j > y.j -> 1
  IN [m |-> IF x.m = y.m THEN 0 ELSE 1, j |-> j, t |-> IF j < 0 THEN 0 ELSE TrustIfExact(x, y)]

Lcmp ==
  /\ Arithmetic
  /\ \E x \in longs, y \in longs : ints' = ints \cup {CmpResult(x, y)}
  /\ UNCHANGED <<longs, machine>>

-----------------------------------------------------------------------------
(* Mutated form: chars are kept in a byte. *)
SizeOfCharOne(type) ==
  CASE type \in {"byte", "char"} -> 1
    [] type = "short" -> 2
    [] type = "int" -> 4
    [] type = "long" -> 8

(* calculate_size *)
SizeOf(type) ==
  CASE type = "byte" -> 1
    [] type \in {"char", "short"} -> 2
    [] type = "int" -> 4
    [] type = "long" -> 8

(* What Java keeps of a number in an element. *)
Element(type, j) ==
  CASE type = "byte" -> Signed(j, 1)
    [] type = "char" -> Unsigned(j, 2)
    [] type = "short" -> Signed(j, 2)
    [] type = "int" -> Signed(j, 4)
    [] type = "long" -> j

JavaSize(type) == [byte |-> 1, char |-> 2, short |-> 2, int |-> 4, long |-> 8][type]

(* Mutated form: the header is forgotten. *)
BlockSizeOfElements(bytes) == Signed(bytes, 4)

BlockSize(bytes) == Signed(8 + bytes, 4)

(* runtime_newarray: the size of the block is an int, the loop that clears *)
(* the elements counts to a u8.  malloc returns NULL for a negative size.  *)
NewArray ==
  /\ machine = "running" /\ Len(arrays) < MaxArrays
  /\ \E type \in Types, v \in ints :
       LET length  == Unsigned(v.m, 8)
           bytes   == Unsigned(length * SizeOf(type), 8)
           block   == BlockSize(bytes)
           threw   == v.j < 0
       IN /\ last' = [threw |-> threw, reported |-> Signed(v.m, 4) < 0, exact |-> v.t = 8,
                      low |-> v.t >= 4, large |-> 8 + (v.j * JavaSize(type)) > IntMax]
          /\ machine' = CASE block < 0 -> "crashed"
                          [] block >= 0 /\ block < 8 + bytes -> "astray"
                          [] OTHER -> "running"
          /\ IF threw \/ machine' # "running"
             THEN UNCHANGED arrays
             ELSE arrays' = Append(arrays,
                    [type |-> type, header |-> Signed(length, 8), bytes |-> bytes,
                     cells |-> [i \in 0 .. (bytes \div SizeOf(type)) - 1 |-> 0],
                     t |-> v.t, length |-> v.j,
                     values |-> [i \in 0 .. v.j - 1 |-> 0], trust |-> [i \in 0 .. v.j - 1 |-> JavaSize(type)]])
  /\ UNCHANGED <<ints, longs>>

(* Mutated form: the last element is one too far. *)
OutOfBoundsByOne(a, index) == Unsigned(index, 8) > a.header

(* index is unsigned, and the length is then compared as unsigned too. *)
OutOfBounds(a, index) == Unsigned(index, 8) >= Unsigned(a.header, 8)

(* The element that is accessed, whatever was reported. *)
Cell(a, index) == Unsigned(index * SizeOf(a.type), 8) \div SizeOf(a.type)

Access(a, v) ==
  /\ last' = [threw |-> v.j \notin 0 .. a.length - 1, reported |-> OutOfBounds(a, v.m),
              exact |-> v.t = 8 /\ a.t = 8, low |-> v.t >= 4 /\ a.t = 8, large |-> FALSE]
  /\ machine' = IF Cell(a, v.m) \in DOMAIN a.cells THEN "running" ELSE "astray"

Done == machine' = "running" /\ ~last'.threw

(* runtime_array_load: elements are extended with zeros. *)
Loaded(a, v) ==
  LET m == Signed(a.cells[Cell(a, v.m)], 8)
      j == a.values[v.j]
      t == a.trust[v.j]
  IN [m |-> m, j |-> j,
      t |-> IF v.t < 8 \/ a.t < 8 THEN 0
            ELSE IF t = JavaSize(a.type) /\ j >= 0 THEN 8 ELSE t]

ArrayLoad ==
  /\ machine = "running" /\ Room
  /\ \E k \in DOMAIN arrays, v \in ints :
       /\ Access(arrays[k], v)
       /\ LET l == Loaded(arrays[k], v)
          IN IF ~Done THEN UNCHANGED <<ints, longs>>
             ELSE IF arrays[k].type = "long" THEN longs' = longs \cup {l} /\ UNCHANGED ints
             ELSE ints' = ints \cup {l} /\ UNCHANGED longs
  /\ UNCHANGED arrays

(* runtime_array_store: the low bytes of the value are kept. *)
Stored(a, index, value) ==
  LET trusted == IF index.t = 8 /\ a.t = 8 THEN Least(value.t, JavaSize(a.type)) ELSE 0
  IN [a EXCEPT !.cells[Cell(a, index.m)] = Unsigned(value.m, SizeOf(a.type)),
               !.values[index.j] = Element(a.type, value.j),
               !.trust = [i \in DOMAIN a.trust |->
                            IF i = index.j THEN trusted
                            ELSE IF i = Cell(a, index.m) THEN 0 ELSE a.trust[i]]]

ArrayStore ==
  /\ machine = "running"
  /\ \E k \in DOMAIN arrays, index \in ints :
       /\ Access(arrays[k], index)
       /\ \E value \in IF arrays[k].type = "long" THEN longs ELSE ints :
            arrays' = IF Done THEN [arrays EXCEPT ![k] = Stored(arrays[k], index, value)] ELSE arrays
  /\ UNCHANGED <<ints, longs>>

(* arraylength reads the header. *)
ArrayLength ==
  /\ machine = "running" /\ Room
  /\ \E k \in DOMAIN arrays :
       ints' = ints \cup {[m |-> arrays[k].header, j |-> arrays[k].length, t |-> arrays[k].t]}
  /\ last' = NoCall
  /\ UNCHANGED <<longs, arrays, machine>>

Next ==
  \/ IntOp \/ Ineg \/ LongOp \/ Ldiv \/ Lcmp
  \/ NewArray \/ ArrayLoad \/ ArrayStore \/ ArrayLength

Spec == Init /\ [][Next]_vars

-----------------------------------------------------------------------------
Register == 0 - (Modulus(8) \div 2) .. (Modulus(8) \div 2) - 1
Trust    == {0, 1, 2, 4, 8}
Value    == [m : Register, j : Register, t : Trust]

TypeOK ==
  /\ ints \subseteq Value /\ longs \subseteq Value
  /\ \A v \in ints : v.j = Signed(v.j, 4)
  /\ \A k \in DOMAIN arrays :
       LET a == arrays[k]
       IN /\ a.type \in Types /\ a.header \in Register /\ a.t \in Trust
          /\ DOMAIN a.cells = 0 .. (a.bytes \div SizeOf(a.type)) - 1
          /\ a.length \in 0 .. IntMax
          /\ a.values \in [0 .. a.length - 1 -> Register]
          /\ a.trust \in [0 .. a.length - 1 -> Trust]
  /\ machine \in {"running", "crashed", "astray"}
  /\ last \in [threw : BOOLEAN, reported : BOOLEAN, exact : BOOLEAN, low : BOOLEAN, large : BOOLEAN]

(***************************************************************************)
(* Longs are those of Java.  Ints are until Java cuts a result to 32 bits  *)
(* or a negative element is loaded; then their low half still is, which is *)
(* what println prints, and after a negative byte or short as many bytes   *)
(* as the element has.  Elements of arrays are right whenever the bytes    *)
(* stored were and the index that led to them.                             *)
(***************************************************************************)
TrustedBytesRight ==
  /\ \A v \in ints \cup longs : Unsigned(v.m, v.t) = Unsigned(v.j, v.t)
  /\ \A k \in DOMAIN arrays :
       LET a == arrays[k]
       IN /\ Unsigned(a.header, a.t) = Unsigned(a.length, a.t)
          /\ a.t = 8 => DOMAIN a.cells = DOMAIN a.values
          /\ \A i \in DOMAIN a.cells \cap DOMAIN a.values :
               Unsigned(a.cells[i], a.trust[i]) = Unsigned(a.values[i], a.trust[i])

(***************************************************************************)
(* What Java refuses with an exception - a negative length, an index out   *)
(* of bounds - is reported, if the low half of the number is right and the *)
(* array has its length.                                                   *)
(***************************************************************************)
ReportsWhatJavaRefuses == last.low /\ last.threw => last.reported

(***************************************************************************)
(* What Java does is done: with the right numbers nothing is reported and  *)
(* no memory of others is touched, unless the size of a new array is more  *)
(* than an int holds.                                                      *)
(***************************************************************************)
AcceptedIsDone ==
  last.exact /\ ~last.threw /\ ~last.large => ~last.reported /\ machine = "running"

=============================================================================
