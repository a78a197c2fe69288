--------------------------- MODULE MCSizeClasses ---------------------------
(***************************************************************************)
(* Every request size of a small size_t, in turn, with the program's own   *)
(* number of lists.                                                        *)
(***************************************************************************)
EXTENDS SizeClasses

VARIABLE requested

FirstRequest == requested = 0

NextRequest == requested' = (requested + 1) % SizeMod

EveryRequest == FirstRequest /\ [][NextRequest]_requested

(* Sizes a block can have. *)
BlockSizes == {8 * k : k \in 4 .. SizeMod \div 8 - 1}

(***************************************************************************)
(* A block holds the request and its header, without a word to spare, for  *)
(* exactly the requests whose sum with the header does not wrap: the last  *)
(* 23 values of size_t get a block that is too small.                      *)
(***************************************************************************)
BlockHoldsRequest ==
  LET size == BlockSize(requested) IN
  /\ size \in BlockSizes
  /\ size >= requested + AllocHeaderSize <=> requested < SizeMod - 23
  /\ requested < SizeMod - 23 => size = HeaderSize \/ size < requested + AllocHeaderSize + 8

(***************************************************************************)
(* freelist_insert sets a bit by one formula and picks the list by another *)
(* one: they name the same list for every size a block can have.           *)
(***************************************************************************)
FormulasAgree ==
  requested \in BlockSizes => SizeToIndex(requested) = SentinelIndex(requested)

(***************************************************************************)
(* A list below the last holds blocks of one size and the lists are in the *)
(* order of their sizes, so that any block of the list a search chooses    *)
(* below the last serves the request.                                      *)
(***************************************************************************)
ListsOrdered ==
  LET i == SizeToIndex(BlockSize(requested)) IN
  /\ i \in ListIndex
  /\ \A s \in BlockSizes :
       /\ s < BlockSize(requested) => SizeToIndex(s) <= i
       /\ SizeToIndex(s) = i /\ i < NLists - 1 => s = BlockSize(requested)

(***************************************************************************)
(* A block whose list changes with its size is moved, unless both sizes    *)
(* belong to one of the last three lists.                                  *)
(***************************************************************************)
UnmovedOnlyAtTop ==
  requested \in BlockSizes =>
    \A old \in BlockSizes :
      SizeToIndex(requested) # SizeToIndex(old) =>
        \/ Relists(requested, old)
        \/ SizeToIndex(requested) >= NLists - 3 /\ SizeToIndex(old) >= NLists - 3

=============================================================================
