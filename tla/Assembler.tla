----------------------------- MODULE Assembler -----------------------------
(***************************************************************************)
(* Assembler_X86_64::assemble puts each method's machine code into         *)
(* executable memory, map after map.  A block of code is known by its map, *)
(* the offset where it begins and its size.                                *)
(***************************************************************************)
EXTENDS Integers, Sequences

CONSTANTS
  MapSize, \* _mapSizeIncrement
  Reserve  \* _mapSizeLeftBeforeIncrement

ASSUME MapAssumption == MapSize \in Nat /\ Reserve \in Nat \ {0} /\ Reserve <= MapSize

VARIABLES
  map,    \* the number of maps taken so far; the last is the current one
  left,   \* _mapSizeLeft
  cur,    \* offset of _codeBufferCurrent in the map
  blocks  \* the blocks written, in their order

codeVars == <<map, left, cur, blocks>>

AssemblerInit == map = 0 /\ left = 0 /\ cur = 0 /\ blocks = <<>>

(* Mutated form: the position is not moved past the code. *)
WriteInPlace(m, size, where) ==
  /\ map' = where.map /\ cur' = where.at /\ left' = where.left - size
  /\ blocks' = Append(blocks, [method |-> m, map |-> where.map, at |-> where.at, size |-> size])

Write(m, size, where) ==
  /\ map' = where.map /\ cur' = where.at + size /\ left' = where.left - size
  /\ blocks' = Append(blocks, [method |-> m, map |-> where.map, at |-> where.at, size |-> size])

(* Mutated form: a new map only when nothing is left of the old one. *)
SpaceWhenNothingLeft ==
  IF left = 0 THEN [map |-> map + 1, at |-> 0, left |-> MapSize]
              ELSE [map |-> map, at |-> cur, left |-> left]

(* Where the next block goes. *)
Space ==
  IF left < Reserve THEN [map |-> map + 1, at |-> 0, left |-> MapSize]
                    ELSE [map |-> map, at |-> cur, left |-> left]

(* A block that fits.  One that does not is copied past the end of the     *)
(* map, and the unsigned _mapSizeLeft is never below 0: see Overrun.       *)
Assemble(m, size) == size <= Space.left /\ Write(m, size, Space)

Overrun(size) == size > Space.left

-----------------------------------------------------------------------------
(***************************************************************************)
(* The code of a method stays as it was written: no two blocks share a     *)
(* byte, and every block lies within its map.                              *)
(***************************************************************************)
CodeIntact ==
  /\ \A i \in DOMAIN blocks : blocks[i].at + blocks[i].size <= MapSize
  /\ \A i, j \in DOMAIN blocks :
       i < j /\ blocks[i].map = blocks[j].map => blocks[i].at + blocks[i].size <= blocks[j].at

=============================================================================
