-------------------------- MODULE SizeClassProofs --------------------------
(***************************************************************************)
(* The size arithmetic, proved for every number of lists and every width   *)
(* of size_t.                                                              *)
(***************************************************************************)
EXTENDS MCSizeClasses, WellFoundedInduction, TLAPS

(* A size a block can have: a multiple of 8 that holds a Header. *)
IsBlockSize(s) == s \in Nat /\ s % 8 = 0 /\ s >= HeaderSize

LEMMA RoundingByEight ==
  ASSUME NEW n \in Nat
  PROVE  /\ n - (n % 8) \in Nat
         /\ (n - (n % 8)) % 8 = 0
         /\ n - (n % 8) <= n /\ n < n - (n % 8) + 8
BY SMT

(***************************************************************************)
(* allocate_object always computes the size of a block.                    *)
(***************************************************************************)
THEOREM BlockSizeIsBlockSize ==
  ASSUME NEW raw \in 0 .. SizeMod - 1
  PROVE  IsBlockSize(BlockSize(raw)) /\ BlockSize(raw) <= SizeMod
<1> DEFINE n == (raw + AllocHeaderSize + 7) % SizeMod
<1>1. n \in Nat /\ n < SizeMod
  BY SizeModAssumption, SMT DEF AllocHeaderSize
<1>2. Rounded(raw) = n - (n % 8)
  BY DEF Rounded
<1> HIDE DEF n
<1>3. Rounded(raw) \in Nat /\ Rounded(raw) % 8 = 0 /\ Rounded(raw) <= n
  BY <1>1, <1>2, RoundingByEight
<1> QED
  BY <1>1, <1>3, SizeModAssumption, SMT DEF BlockSize, IsBlockSize, HeaderSize

(***************************************************************************)
(* A request that does not wrap around size_t gets a block that holds it   *)
(* and its header.                                                         *)
(***************************************************************************)
THEOREM BlockHoldsUnwrapped ==
  ASSUME NEW raw \in Nat, raw < SizeMod - 23
  PROVE  BlockSize(raw) >= raw + AllocHeaderSize
<1> DEFINE n == raw + AllocHeaderSize + 7
<1>1. n \in Nat /\ n < SizeMod /\ n % SizeMod = n
  BY SizeModAssumption, SMT DEF AllocHeaderSize
<1>2. Rounded(raw) = n - (n % 8)
  BY <1>1 DEF Rounded
<1>3. n < Rounded(raw) + 8
  BY <1>1, <1>2, RoundingByEight
<1>4. Rounded(raw) \in Int
  BY <1>1, <1>2, RoundingByEight
<1> QED
  BY <1>3, <1>4, SMT DEF BlockSize, AllocHeaderSize, HeaderSize

(***************************************************************************)
(* Every block size is filed under a list that exists, and the bitmap's    *)
(* formula and the sentinel's name the same one.                           *)
(***************************************************************************)
THEOREM ListOfBlockSize ==
  ASSUME NEW s, IsBlockSize(s)
  PROVE  /\ SizeToIndex(s) \in ListIndex
         /\ SentinelIndex(s) = SizeToIndex(s)
BY NListsAssumption, SMT DEF IsBlockSize, SizeToIndex, SentinelIndex, OrSeven,
   LastUnlessBelow, ListIndex, AllocHeaderSize, HeaderSize

(***************************************************************************)
(* A list below the last holds one size, and higher lists larger ones: any *)
(* block found there by a search that starts at the request's own list     *)
(* serves the request.                                                     *)
(***************************************************************************)
THEOREM HigherListServes ==
  ASSUME NEW s, NEW t, IsBlockSize(s), IsBlockSize(t),
         SizeToIndex(s) >= SizeToIndex(t),
         SizeToIndex(t) < NLists - 1
  PROVE  s >= t
BY NListsAssumption, SMT DEF IsBlockSize, SizeToIndex, LastUnlessBelow,
   AllocHeaderSize, HeaderSize

(***************************************************************************)
(* move_coalesced fails to refile a block only between the last three      *)
(* lists.                                                                  *)
(***************************************************************************)
THEOREM UnmovedOnlyAtTheTop ==
  ASSUME NEW new, NEW old, IsBlockSize(new), IsBlockSize(old),
         ~Relists(new, old), SizeToIndex(new) # SizeToIndex(old)
  PROVE  SizeToIndex(new) >= NLists - 3 /\ SizeToIndex(old) >= NLists - 3
BY NListsAssumption, SMT DEF IsBlockSize, SizeToIndex, LastUnlessBelow, Relists,
   AllocHeaderSize, HeaderSize

LEMMA LeastNatural ==
  ASSUME NEW S, S \subseteq Nat, S # {}
  PROVE  \E j \in S : \A k \in S : j <= k
<1> DEFINE Less == {p \in Nat \X Nat : p[1] < p[2]}
<1>1. IsWellFoundedOn(Less, Nat)
  BY NatLessThanWellFounded, Zenon DEF OpToRel
<1> HIDE DEF Less
<1>2. PICK j \in S : \A k \in S : ~(<<k, j>> \in Less)
  BY <1>1, WFMin, Zenon
<1>3. \A k \in S : <<k, j>> \in Less <=> k < j
  BY SMT DEF Less
<1>4. ASSUME NEW k \in S PROVE j <= k
  <2>1. j \in Nat /\ k \in Nat
    OBVIOUS
  <2>2. ~(k < j)
    BY <1>2, <1>3, Zenon
  <2> QED
    BY <2>1, <2>2, SMT
<1> QED
  BY <1>4, Zenon

(***************************************************************************)
(* get_next_set_bit stays within the lists.                                *)
(***************************************************************************)
THEOREM NextSetBitInRange ==
  ASSUME NEW bits, NEW i \in ListIndex
  PROVE  /\ NextSetBit(bits, i) \in ListIndex
         /\ NextSetBit(bits, i) >= i
         /\ NextSetBit(bits, i) < NLists - 1 => NextSetBit(bits, i) \in bits
<1> DEFINE set == {j \in i .. NLists - 2 : j \in bits}
           first == CHOOSE j \in set : \A k \in set : j <= k
<1>1. CASE set = {}
  BY <1>1, NListsAssumption DEF NextSetBit, ListIndex
<1>2. CASE set # {}
  <2>1. \E j \in set : \A k \in set : j <= k
    <3>1. set \subseteq Nat
      BY NListsAssumption, SMT DEF ListIndex
    <3> QED
      BY <1>2, <3>1, LeastNatural, Zenon
  <2>2. first \in set
    BY <2>1
  <2>3. NextSetBit(bits, i) = first
    BY <1>2 DEF NextSetBit
  <2> QED
    BY <2>2, <2>3, NListsAssumption DEF ListIndex
<1> QED
  BY <1>1, <1>2

(***************************************************************************)
(* No set bit is passed over.                                              *)
(***************************************************************************)
THEOREM NextSetBitFirst ==
  ASSUME NEW bits, NEW i \in ListIndex
  PROVE  \A k \in ListIndex : i <= k /\ k < NextSetBit(bits, i) => k \notin bits
<1> DEFINE set == {j \in i .. NLists - 2 : j \in bits}
           first == CHOOSE j \in set : \A k \in set : j <= k
<1>1. ASSUME NEW k \in ListIndex, i <= k, k < NextSetBit(bits, i), k \in bits
      PROVE  FALSE
  <2>1. NextSetBit(bits, i) \in ListIndex
    BY NextSetBitInRange
  <2>2. k \in set
    BY <1>1, <2>1, NListsAssumption, SMT DEF ListIndex
  <2>3. \E j \in set : \A m \in set : j <= m
    <3>1. set \subseteq Nat
      BY NListsAssumption, SMT DEF ListIndex
    <3> QED
      BY <2>2, <3>1, LeastNatural, Zenon
  <2>4. first <= k
    BY <2>2, <2>3
  <2>5. NextSetBit(bits, i) = first
    BY <2>2 DEF NextSetBit
  <2> QED
    BY <1>1, <2>1, <2>4, <2>5, SMT DEF ListIndex
<1> QED
  BY <1>1

-----------------------------------------------------------------------------
(* The invariants of MCSizeClasses. *)

LEMMA BlockSizesAre ==
  BlockSizes = {s \in 0 .. SizeMod - 1 : IsBlockSize(s)}
<1>1. ASSUME NEW s \in BlockSizes
      PROVE  s \in 0 .. SizeMod - 1 /\ IsBlockSize(s)
  BY SizeModAssumption, SMT DEF BlockSizes, IsBlockSize, HeaderSize
<1>2. ASSUME NEW s \in 0 .. SizeMod - 1, IsBlockSize(s)
      PROVE  s \in BlockSizes
  <2>1. s \div 8 \in 4 .. SizeMod \div 8 - 1 /\ s = 8 * (s \div 8)
    BY <1>2, SizeModAssumption, SMT DEF IsBlockSize, HeaderSize
  <2> QED
    BY <2>1, Zenon DEF BlockSizes
<1> QED
  BY <1>1, <1>2, Zenon

(* The size of the block a request gets, exactly. *)
LEMMA BlockSizeExact ==
  ASSUME NEW r \in 0 .. SizeMod - 1
  PROVE  /\ BlockSize(r) \in BlockSizes
         /\ BlockSize(r) >= r + AllocHeaderSize <=> r < SizeMod - 23
         /\ r < SizeMod - 23 =>
              \/ BlockSize(r) = HeaderSize
              \/ BlockSize(r) < r + AllocHeaderSize + 8
<1> DEFINE n == (r + AllocHeaderSize + 7) % SizeMod
<1>1. n \in Nat /\ n < SizeMod
  BY SizeModAssumption, SMT DEF AllocHeaderSize
<1>2. IF r < SizeMod - 23 THEN n = r + 23 ELSE n = r + 23 - SizeMod
  BY SizeModAssumption, SMT DEF AllocHeaderSize
<1>3. Rounded(r) = n - (n % 8)
  BY DEF Rounded
<1> HIDE DEF n
<1>4. /\ Rounded(r) \in Nat /\ Rounded(r) % 8 = 0
      /\ Rounded(r) <= n /\ n < Rounded(r) + 8
  BY <1>1, <1>3, RoundingByEight
<1>5. BlockSize(r) \in 0 .. SizeMod - 1 /\ IsBlockSize(BlockSize(r))
  BY <1>1, <1>4, SizeModAssumption, SMT DEF BlockSize, IsBlockSize, HeaderSize
<1>6. BlockSize(r) \in BlockSizes
  BY <1>5, BlockSizesAre, Zenon
<1>7. CASE r < SizeMod - 23
  BY <1>1, <1>2, <1>4, <1>6, <1>7, SizeModAssumption, SMT
     DEF BlockSize, AllocHeaderSize, HeaderSize
<1>8. CASE ~(r < SizeMod - 23)
  <2>1. n < 23
    BY <1>1, <1>2, <1>8, SizeModAssumption, SMT
  <2>2. BlockSize(r) <= 32
    BY <1>4, <2>1, <1>1, SMT DEF BlockSize, HeaderSize
  <2> QED
    BY <1>6, <1>8, <2>2, <1>5, SizeModAssumption, SMT DEF AllocHeaderSize
<1> QED
  BY <1>7, <1>8

LEMMA RequestedType == EveryRequest => [](requested \in 0 .. SizeMod - 1)
<1>1. FirstRequest => requested \in 0 .. SizeMod - 1
  BY SizeModAssumption, SMT DEF FirstRequest
<1>2. requested \in 0 .. SizeMod - 1 /\ [NextRequest]_requested
       => (requested \in 0 .. SizeMod - 1)'
  BY SizeModAssumption, SMT DEF NextRequest
<1> QED
  BY <1>1, <1>2, PTL DEF EveryRequest

(***************************************************************************)
(* allocate_object's block holds the request and its header exactly when   *)
(* their sum does not wrap around size_t.                                  *)
(***************************************************************************)
THEOREM HoldsRequest == EveryRequest => []BlockHoldsRequest
<1>1. requested \in 0 .. SizeMod - 1 => BlockHoldsRequest
  BY BlockSizeExact DEF BlockHoldsRequest
<1> QED
  BY <1>1, RequestedType, PTL

(***************************************************************************)
(* The bit freelist_insert sets and the sentinel it links the block behind *)
(* are always those of the same list.                                      *)
(***************************************************************************)
THEOREM OneListPerSize == EveryRequest => []FormulasAgree
<1>1. FormulasAgree
  BY BlockSizesAre, ListOfBlockSize DEF FormulasAgree
<1> QED
  BY <1>1, PTL

(***************************************************************************)
(* The lists are in the order of their sizes, and a list below the last    *)
(* holds blocks of one size.                                               *)
(***************************************************************************)
THEOREM ListsInOrder == EveryRequest => []ListsOrdered
<1>1. ASSUME NEW s, NEW t, IsBlockSize(s), IsBlockSize(t)
      PROVE  /\ SizeToIndex(s) \in ListIndex
             /\ s < t => SizeToIndex(s) <= SizeToIndex(t)
             /\ SizeToIndex(s) = SizeToIndex(t) /\ SizeToIndex(t) < NLists - 1 => s = t
  BY <1>1, NListsAssumption, SMT
     DEF IsBlockSize, SizeToIndex, LastUnlessBelow, ListIndex, AllocHeaderSize, HeaderSize
<1>2. requested \in 0 .. SizeMod - 1 => ListsOrdered
  BY <1>1, BlockSizesAre, BlockSizeExact DEF ListsOrdered
<1> QED
  BY <1>2, RequestedType, PTL

(***************************************************************************)
(* move_coalesced leaves a block in a list that is not its size's only     *)
(* among the last three lists.                                             *)
(***************************************************************************)
THEOREM RefiledBelowTheTop == EveryRequest => []UnmovedOnlyAtTop
<1>1. UnmovedOnlyAtTop
  BY BlockSizesAre, UnmovedOnlyAtTheTop DEF UnmovedOnlyAtTop
<1> QED
  BY <1>1, PTL

=============================================================================
