---------------------------- MODULE SizeClasses ----------------------------
(***************************************************************************)
(* The size arithmetic of snap_malloc: how a request becomes a block size, *)
(* which free list a block size is filed under, which list a request looks *)
(* in, and when a block whose size changed is filed anew.  All sizes are   *)
(* in bytes and, like the code's size_t, live in 0 .. SizeMod-1.           *)
(***************************************************************************)
EXTENDS Integers

CONSTANTS
  NLists,   \* n_lists: how many free lists there are
  SizeMod   \* 2^64 in the program: size_t arithmetic is modulo SizeMod

ASSUME NListsAssumption  == NLists \in Nat /\ NLists >= 3
ASSUME SizeModAssumption == SizeMod \in Nat /\ SizeMod % 8 = 0 /\ SizeMod >= 64

AllocHeaderSize == 16   \* size_and_state and left_size
HeaderSize      == 32   \* the same and the two free-list links

ListIndex == 0 .. NLists - 1

(***************************************************************************)
(* allocate_object: the request and its header, rounded up to a multiple   *)
(* of 8 and to a full Header.  The sum wraps: a request of the last        *)
(* AllocHeaderSize + 7 values of size_t yields a tiny block.               *)
(***************************************************************************)
Rounded(raw) ==
  LET n == (raw + AllocHeaderSize + 7) % SizeMod IN n - (n % 8)

(* Mutated form: the header is not added to the request. *)
BlockSizeOfData(raw) ==
  LET n == (raw + 7) % SizeMod
  IN IF n - (n % 8) < HeaderSize THEN HeaderSize ELSE n - (n % 8)

BlockSize(raw) ==
  IF Rounded(raw) < HeaderSize THEN HeaderSize ELSE Rounded(raw)

(***************************************************************************)
(* The two computations of a block's list: size_to_index picks the bitmap  *)
(* bit, get_freelist_sentinel the list head.                               *)
(***************************************************************************)

(* Mutated form: off by one at the last list. *)
LastUnlessBeyond(i) == IF i > NLists THEN NLists - 1 ELSE i

LastUnlessBelow(i) == IF i >= NLists THEN NLists - 1 ELSE i

(* Mutated form: the full Header is subtracted, as the code once did. *)
SizeToIndexFullHeader(size) == LastUnlessBelow((size - HeaderSize) \div 8 - 1)

SizeToIndex(size) == LastUnlessBelow((size - AllocHeaderSize) \div 8 - 1)

OrSeven(size) == size - (size % 8) + 7

SentinelIndex(size) ==
  LET i == (OrSeven(size) - AllocHeaderSize) \div 8
  IN IF i >= NLists THEN NLists - 1 ELSE i - 1

(***************************************************************************)
(* get_next_set_bit: the first set bit from i on; the last list is never   *)
(* tested, it is where the scan ends.                                      *)
(***************************************************************************)

(* Mutated form: the list of the very size is passed over. *)
NextSetBitAfter(bits, i) ==
  LET set == {j \in i + 1 .. NLists - 2 : j \in bits}
  IN IF set = {} THEN NLists - 1 ELSE CHOOSE j \in set : \A k \in set : j <= k

NextSetBit(bits, i) ==
  LET set == {j \in i .. NLists - 2 : j \in bits}
  IN IF set = {} THEN NLists - 1 ELSE CHOOSE j \in set : \A k \in set : j <= k

(* move_coalesced: whether a block that went from size old to size new is  *)
(* taken out of its list and filed anew.                                   *)

(* Mutated form: both sizes must be below the bound. *)
RelistsBelowOnly(new, old) ==
  /\ new \div 8 # old \div 8
  /\ new \div 8 < NLists /\ old \div 8 < NLists

Relists(new, old) ==
  /\ new \div 8 # old \div 8
  /\ new \div 8 < NLists \/ old \div 8 < NLists

=============================================================================
