----------------------------- MODULE HeapSafety -----------------------------
(***************************************************************************)
(* The invariants of MallocHeap, proved for every arena, every address     *)
(* space, every number of lists and every set of requests.                 *)
(*                                                                         *)
(* The first part is about the private functions.  The heap is seen in     *)
(* three parts: the boundary tags, as functions of the address; the free   *)
(* lists, as links between blocks and sentinels; and the state bits, which *)
(* say what is free.  Each operator of MallocHeap has a lemma for every    *)
(* part it changes.                                                        *)
(*                                                                         *)
(* The second part is about the calls.  The mutex does not protect the     *)
(* marking of a block, so that the heap is not safe for any two threads    *)
(* (the run heap_race).  It is for one, and for any number of them as long *)
(* as no block is merged while one waits to be marked: what is proved here *)
(* of both.                                                                *)
(***************************************************************************)
EXTENDS MallocHeap, SizeClassProofs, TLAPS

(* The headers of a heap; those after whose block the chunk ends, and      *)
(* those before whose block it begins, are fenceposts.                     *)
Heads(size) == {a \in Addr : size[a] # 0}

(* The words of all blocks. *)
Cover(size) == UNION {a .. a + size[a] - 1 : a \in Heads(size)}

(* Boundary tags below `end', between the left fenceposts F and the right  *)
(* fenceposts E: BoundaryTags, the same from right to left, and the sizes. *)
Tags(size, left, F, E, end) ==
  /\ size \in [Addr -> 0 .. HeapLimit] /\ left \in [Addr -> 0 .. HeapLimit]
  /\ F \subseteq Heads(size) /\ E \subseteq Heads(size) /\ F \cap E = {}
  /\ \A a \in F \cup E : size[a] = HDR
  /\ \A a \in Heads(size) \ (F \cup E) : size[a] >= MIN
  /\ \A a \in Heads(size) : a + size[a] <= end
  /\ \A a, c \in Heads(size) : a < c => a + size[a] <= c
  /\ \A a \in Heads(size) \ E :
       a + size[a] \in Heads(size) \ F /\ left[a + size[a]] = size[a]
  /\ \A a \in Heads(size) \ F :
       a - left[a] \in Heads(size) \ E /\ size[a - left[a]] = left[a]

(***************************************************************************)
(* The blocks of L are linked in lists that begin and end at a sentinel:   *)
(* the links agree, `rank' grows along each list, so that none runs in a   *)
(* circle of its own, and `home' says which list a node is on.             *)
(***************************************************************************)
Linked(next, prev, L, rank, home) ==
  /\ next \in [Node -> Node \cup {NULL}] /\ prev \in [Node -> Node \cup {NULL}]
  /\ L \subseteq Addr
  /\ rank \in [Addr -> Nat] /\ home \in [Node -> ListIndex]
  /\ \A n \in L \cup Sentinels :
       /\ next[n] \in L \cup Sentinels /\ prev[next[n]] = n
       /\ prev[n] \in L \cup Sentinels /\ next[prev[n]] = n
       /\ home[next[n]] = home[n]
  /\ \A b \in L : next[b] \in L => rank[b] < rank[next[b]]
  /\ \A i \in ListIndex : home[Sentinel(i)] = i

(* BitmapTracksLists *)
BitsTrack(next, bits) ==
  \A i \in ListIndex :
    IF next[Sentinel(i)] # Sentinel(i) THEN i \in bits
    ELSE i \in bits => i \in InitialBits

(* MisfiledOnlyAtTop *)
FiledAs(index, size) ==
  index # WordIndex(size) => index >= NLists - 3 /\ WordIndex(size) >= NLists - 3

Filed(size, L, home) == \A b \in L : FiledAs(home[b], size[b])

Listing(h, L) ==
  /\ BitsTrack(h.next, h.bits)
  /\ \E rank \in [Addr -> Nat], home \in [Node -> ListIndex] :
       Linked(h.next, h.prev, L, rank, home) /\ Filed(h.size, L, home)

(***************************************************************************)
(* A sound heap, of which the blocks X are in somebody's hands: their      *)
(* state bits and links may be anything.                                   *)
(***************************************************************************)
Vacant(h, X) == {a \in Heads(h.size) : h.state[a] = "unallocated"} \ X

Sound(h, F, E, X, end) ==
  /\ h \in HeapRecord /\ ~h.wild
  /\ Tags(h.size, h.left, F, E, end)
  /\ X \subseteq Heads(h.size) \ (F \cup E)
  /\ \A a \in F \cup E : h.state[a] = "fencepost"
  /\ \A a \in Heads(h.size) \ (F \cup E \cup X) : h.state[a] # "fencepost"
  /\ \A a \in Vacant(h, X) : RightOf(h, a) \notin Vacant(h, X)
  /\ \A a \in Addr \ (Vacant(h, X) \cup X) : h.next[a] = NULL
  /\ Listing(h, Vacant(h, X))

-----------------------------------------------------------------------------
(* Boundary tags. *)

LEMMA HeaderWords == HDR = 2 /\ MIN = 4
BY SMT DEF HDR, MIN, AllocHeaderSize, HeaderSize

LEMMA AddrIsNat == HeapLimit \in Nat /\ \A a \in Addr : a \in Nat
BY HeapAssumption, SMT DEF Addr

LEMMA TagTypes ==
  ASSUME NEW size, NEW left, NEW F, NEW E, NEW end \in Int, Tags(size, left, F, E, end)
  PROVE  /\ size \in [Addr -> 0 .. HeapLimit] /\ left \in [Addr -> 0 .. HeapLimit]
         /\ \A a \in Heads(size) : a \in Addr /\ a \in Nat
         /\ \A a \in Addr : size[a] \in 0 .. HeapLimit /\ size[a] \in Nat
         /\ \A a \in Addr : left[a] \in 0 .. HeapLimit /\ left[a] \in Nat
<1>1. size \in [Addr -> 0 .. HeapLimit] /\ left \in [Addr -> 0 .. HeapLimit]
  BY DEF Tags
<1>2. \A a \in Heads(size) : a \in Addr /\ a \in Nat
  BY AddrIsNat DEF Heads
<1>3. \A n \in 0 .. HeapLimit : n \in Nat
  BY AddrIsNat, SMT
<1>4. \A a \in Addr : size[a] \in 0 .. HeapLimit /\ size[a] \in Nat
  BY <1>1, <1>3, Zenon
<1>5. \A a \in Addr : left[a] \in 0 .. HeapLimit /\ left[a] \in Nat
  BY <1>1, <1>3, Zenon
<1> QED
  BY <1>1, <1>2, <1>4, <1>5

(* What Tags says of a block that is no fencepost and of its neighbours. *)
LEMMA BlockTags ==
  ASSUME NEW size, NEW left, NEW F, NEW E, NEW end \in Int,
         Tags(size, left, F, E, end), NEW b \in Heads(size) \ (F \cup E)
  PROVE  /\ b \in Addr /\ b \in Nat /\ size[b] \in Nat /\ size[b] >= 4
         /\ b + size[b] \in Heads(size) \ F /\ left[b + size[b]] = size[b]
         /\ b + size[b] \in Addr /\ b + size[b] \in Nat
         /\ left[b] \in Nat /\ b - left[b] \in Heads(size) \ E
         /\ b - left[b] \in Addr /\ b - left[b] \in Nat /\ b - left[b] < b
         /\ size[b - left[b]] = left[b]
         /\ b + size[b] <= end
<1>1. b \in Addr /\ b \in Nat /\ size[b] \in Nat /\ left[b] \in Nat
  BY TagTypes
<1>2. size[b] >= 4
  BY HeaderWords DEF Tags
<1>3. b + size[b] \in Heads(size) \ F /\ left[b + size[b]] = size[b] /\ b + size[b] <= end
  BY DEF Tags
<1>4. b - left[b] \in Heads(size) \ E /\ size[b - left[b]] = left[b]
  BY DEF Tags
<1>5. /\ b + size[b] \in Addr /\ b + size[b] \in Nat
      /\ b - left[b] \in Addr /\ b - left[b] \in Nat
  BY <1>3, <1>4, TagTypes, Zenon
<1>6. left[b] # 0
  BY <1>4 DEF Heads
<1>7. b - left[b] < b
  BY <1>1, <1>6, SMT
<1> QED
  BY <1>1, <1>2, <1>3, <1>4, <1>5, <1>7

(* split_block cuts a block in two: b keeps the first part, ret gets the rest. *)
IsSplit(size, left, b, ret, sz, lf) ==
  /\ sz \in [Addr -> Int] /\ lf \in [Addr -> Int]
  /\ \A a \in Addr :
       sz[a] = IF a = b THEN ret - b
               ELSE IF a = ret THEN size[b] - (ret - b) ELSE size[a]
  /\ \A a \in Addr :
       lf[a] = IF a = ret THEN ret - b
               ELSE IF a = b + size[b] THEN size[b] - (ret - b) ELSE left[a]

LEMMA SplitTags ==
  ASSUME NEW size, NEW left, NEW F, NEW E, NEW end \in Int,
         Tags(size, left, F, E, end), NEW b \in Heads(size) \ (F \cup E),
         NEW ret \in Int, ret >= b + MIN, ret + MIN <= b + size[b],
         NEW sz, NEW lf, IsSplit(size, left, b, ret, sz, lf)
  PROVE  /\ ret \in Addr \ Heads(size)
         /\ Heads(sz) = Heads(size) \cup {ret}
         /\ Tags(sz, lf, F, E, end)
         /\ Cover(sz) = Cover(size)
<1>1. size \in [Addr -> 0 .. HeapLimit] /\ left \in [Addr -> 0 .. HeapLimit]
  BY TagTypes
<1>2. b \in Addr /\ b \in Nat /\ size[b] \in Nat /\ size[b] <= HeapLimit /\ HeapLimit \in Nat
  <2>1. b \in Addr /\ b \in Nat /\ size[b] \in 0 .. HeapLimit /\ HeapLimit \in Nat
    BY TagTypes, AddrIsNat
  <2> QED
    BY <2>1, SMT
<1>3. /\ b + size[b] \in Heads(size) \ F
      /\ left[b + size[b]] = size[b]
  BY BlockTags
<1>4. b + size[b] \in Addr
  BY BlockTags
<1>5. b \in Heads(size) /\ b + size[b] <= end /\ end \in Int
  BY DEF Tags
<1>6. /\ ret \in Addr /\ b < ret /\ ret < b + size[b]
      /\ ret - b >= 4 /\ size[b] - (ret - b) >= 4
      /\ ret - b \in 0 .. HeapLimit /\ size[b] - (ret - b) \in 0 .. HeapLimit
  BY <1>2, <1>4, HeaderWords, SMT DEF Addr
<1>7. ret \notin Heads(size)
  <2>1. ret \in Heads(size) => b + size[b] <= ret
    BY <1>5, <1>6 DEF Tags
  <2>2. ~(b + size[b] <= ret)
    BY <1>2, <1>6, SMT
  <2> QED
    BY <2>1, <2>2
<1>8. /\ sz[b] = ret - b /\ sz[ret] = size[b] - (ret - b)
      /\ \A a \in Addr \ {b, ret} : sz[a] = size[a]
  BY <1>2, <1>6, SMT DEF IsSplit
<1>9. /\ lf[b + size[b]] = size[b] - (ret - b) /\ lf[ret] = ret - b
      /\ \A a \in Addr \ {b + size[b], ret} : lf[a] = left[a]
  BY <1>2, <1>4, <1>6, SMT DEF IsSplit
<1>10. sz \in [Addr -> 0 .. HeapLimit] /\ lf \in [Addr -> 0 .. HeapLimit]
  BY <1>1, <1>2, <1>6, SMT DEF IsSplit
<1>11. Heads(sz) = Heads(size) \cup {ret}
  <2>1. ASSUME NEW a \in Addr PROVE a \in Heads(sz) <=> a \in Heads(size) \/ a = ret
    <3>1. b \in Heads(sz) /\ ret \in Heads(sz)
      BY <1>2, <1>6, <1>8, SMT DEF Heads
    <3>2. a # b /\ a # ret => (a \in Heads(sz) <=> a \in Heads(size))
      BY <1>8, Zenon DEF Heads
    <3> QED
      BY <3>1, <3>2
  <2>2. Heads(sz) \subseteq Addr /\ Heads(size) \subseteq Addr
    BY DEF Heads
  <2> QED
    BY <1>6, <2>1, <2>2
<1>12. Tags(sz, lf, F, E, end)
  <2> USE <1>11
  <2>1. /\ F \subseteq Heads(sz) /\ E \subseteq Heads(sz) /\ F \cap E = {}
    BY DEF Tags
  <2>2. \A a \in F \cup E : sz[a] = HDR
    BY <1>7, <1>8, SMT DEF Tags, Heads
  <2>3. \A a \in Heads(sz) \ (F \cup E) : sz[a] >= MIN
    BY <1>6, <1>8, HeaderWords, SMT DEF Tags, Heads
  <2>4. \A a \in Heads(size) : a \in Addr /\ a \in Int /\ size[a] \in Nat
    BY TagTypes, SMT
  <2>5. \A a \in Heads(sz) : a + sz[a] <= end
    <3>1. \A a \in Heads(size) : a + size[a] <= end
      BY DEF Tags
    <3>2. b + sz[b] <= end /\ ret + sz[ret] <= end
      BY <1>2, <1>6, <1>8, <1>5, SMT
    <3> QED
      BY <3>1, <3>2, <2>4, <1>8, Zenon
  <2>6. \A a, c \in Heads(sz) : a < c => a + sz[a] <= c
    <3>1. \A a, c \in Heads(size) : a < c => a + size[a] <= c
      BY DEF Tags
    <3>2. \A a \in Heads(size) : sz[a] <= size[a] /\ sz[a] \in Int
      <4> TAKE a \in Heads(size)
      <4>1. CASE a = b
        BY <4>1, <1>2, <1>6, <1>8, SMT
      <4>2. CASE a # b
        BY <4>2, <1>7, <1>8, <2>4, SMT
      <4> QED
        BY <4>1, <4>2
    <3> TAKE a, c \in Heads(sz)
    <3> HAVE a < c
    <3>3. CASE a # ret /\ c # ret
      BY <3>1, <3>2, <3>3, <2>4, SMT
    <3>4. CASE a = ret
      <4>1. c \in Heads(size) /\ b < c
        BY <3>4, <1>6, <2>4, <1>2, SMT
      <4> QED
        BY <4>1, <3>1, <3>4, <2>4, <1>2, <1>6, <1>8, SMT
    <3>5. CASE c = ret
      <4>1. a \in Heads(size)
        BY <3>5, <1>6, SMT
      <4>2. CASE a = b
        BY <4>2, <3>5, <1>2, <1>6, <1>8, SMT
      <4>3. CASE a # b
        <5>1. a < b
          BY <4>1, <4>3, <3>1, <3>5, <1>2, <1>6, <1>5, <2>4, SMT
        <5> QED
          BY <5>1, <4>1, <3>1, <3>2, <3>5, <1>2, <1>6, <2>4, SMT
      <4> QED
        BY <4>2, <4>3
    <3> QED
      BY <3>3, <3>4, <3>5
  <2>7. \A a \in Heads(sz) \ E : a + sz[a] \in Heads(sz) \ F /\ lf[a + sz[a]] = sz[a]
    <3> TAKE a \in Heads(sz) \ E
    <3>1. CASE a = b
      BY <3>1, <1>2, <1>6, <1>7, <1>8, <1>9, SMT DEF Tags
    <3>2. CASE a = ret
      BY <3>2, <1>2, <1>3, <1>6, <1>8, <1>9, SMT DEF Tags
    <3>3. CASE a # b /\ a # ret
      <4>1. a \in Heads(size) \ E /\ sz[a] = size[a]
        BY <3>3, <1>8, <2>4
      <4>2. a + size[a] \in Heads(size) \ F /\ left[a + size[a]] = size[a]
        BY <4>1 DEF Tags
      <4>3. a + size[a] # b + size[b]
        <5>1. \A x, y \in Heads(size) : x < y => x + size[x] <= y
          BY DEF Tags
        <5>2. a < b => a + size[a] <= b
          BY <5>1, <4>1, <1>5
        <5>3. b < a => b + size[b] <= a
          BY <5>1, <4>1, <1>5
        <5>4. size[a] > 0 /\ size[b] > 0
          BY <4>1, <1>5, <2>4, SMT DEF Heads
        <5>5. a \in Int /\ b \in Int /\ size[a] \in Nat /\ size[b] \in Nat /\ a # b
          BY <4>1, <3>3, <2>4, <1>2
        <5> QED
          BY <5>2, <5>3, <5>4, <5>5, SMT
      <4> QED
        BY <4>1, <4>2, <4>3, <1>7, <1>9, <2>4
    <3> QED
      BY <3>1, <3>2, <3>3
  <2>8. \A a \in Heads(sz) \ F : a - lf[a] \in Heads(sz) \ E /\ sz[a - lf[a]] = lf[a]
    <3> TAKE a \in Heads(sz) \ F
    <3>1. CASE a = b + size[b]
      BY <3>1, <1>2, <1>3, <1>6, <1>7, <1>8, <1>9, SMT DEF Tags
    <3>2. CASE a = ret
      BY <3>2, <1>2, <1>3, <1>6, <1>8, <1>9, SMT DEF Tags
    <3>3. CASE a # b + size[b] /\ a # ret
      <4>1. a \in Heads(size) \ F /\ lf[a] = left[a]
        BY <3>3, <1>9, <2>4
      <4>2. a - left[a] \in Heads(size) \ E /\ size[a - left[a]] = left[a]
        BY <4>1 DEF Tags
      <4>3. a - left[a] # b
        <5>1. left[a] \in Nat
          BY <4>1, <2>4, TagTypes
        <5> QED
          BY <5>1, <4>1, <4>2, <3>3, <2>4, SMT
      <4> QED
        BY <4>1, <4>2, <4>3, <1>7, <1>8, <2>4
    <3> QED
      BY <3>1, <3>2, <3>3
  <2> QED
    BY <1>10, <2>1, <2>2, <2>3, <2>5, <2>6, <2>7, <2>8 DEF Tags
<1>13. Cover(sz) = Cover(size)
  <2>1. \A w : w \in Cover(sz) <=> \E a \in Heads(sz) : w \in a .. a + sz[a] - 1
    BY DEF Cover
  <2>2. \A w : w \in Cover(size) <=> \E a \in Heads(size) : w \in a .. a + size[a] - 1
    BY DEF Cover
  <2>3. ASSUME NEW w \in Cover(sz) PROVE w \in Cover(size)
    <3>1. PICK a \in Heads(sz) : w \in a .. a + sz[a] - 1
      BY <2>1
    <3>2. CASE a = b \/ a = ret
      <4>1. w \in b .. b + size[b] - 1
        BY <3>1, <3>2, <1>2, <1>6, <1>8, SMT
      <4> QED
        BY <4>1, <2>2
    <3>3. CASE a # b /\ a # ret
      BY <3>1, <3>3, <2>2, <1>8, <1>11 DEF Heads
    <3> QED
      BY <3>2, <3>3
  <2>4. ASSUME NEW w \in Cover(size) PROVE w \in Cover(sz)
    <3>1. PICK a \in Heads(size) : w \in a .. a + size[a] - 1
      BY <2>2
    <3>2. CASE a = b
      <4>1. b \in Heads(sz) /\ ret \in Heads(sz)
        BY <1>11
      <4>2. w \in b .. b + sz[b] - 1 \/ w \in ret .. ret + sz[ret] - 1
        BY <3>1, <3>2, <1>2, <1>6, <1>8, SMT
      <4> QED
        BY <4>1, <4>2, <2>1
    <3>3. CASE a # b
      <4>1. a \in Heads(sz) /\ sz[a] = size[a]
        BY <3>3, <1>7, <1>8, <1>11, Zenon DEF Heads
      <4> QED
        BY <3>1, <4>1, <2>1
    <3> QED
      BY <3>2, <3>3
  <2> QED
    BY <2>3, <2>4
<1> QED
  BY <1>6, <1>7, <1>11, <1>12, <1>13

(* A block merges with the next one. *)
IsMerge(size, left, a, b, sz, lf) ==
  /\ sz \in [Addr -> Int] /\ lf \in [Addr -> Int]
  /\ \A x \in Addr :
       sz[x] = IF x = a THEN size[a] + size[b] ELSE IF x = b THEN 0 ELSE size[x]
  /\ \A x \in Addr :
       lf[x] = IF x = b THEN 0
               ELSE IF x = b + size[b] THEN size[a] + size[b] ELSE left[x]

LEMMA MergeTags ==
  ASSUME NEW size, NEW left, NEW F, NEW E, NEW end \in Int, end <= HeapLimit,
         Tags(size, left, F, E, end),
         NEW a \in Heads(size) \ (F \cup E), NEW b \in Heads(size) \ (F \cup E),
         b = a + size[a],
         NEW sz, NEW lf, IsMerge(size, left, a, b, sz, lf)
  PROVE  /\ Heads(sz) = Heads(size) \ {b}
         /\ Tags(sz, lf, F, E, end)
         /\ Cover(sz) = Cover(size)
<1> DEFINE r == b + size[b]
<1>1. /\ a \in Addr /\ a \in Nat /\ size[a] \in Nat /\ size[a] >= 4
      /\ b \in Addr /\ b \in Nat /\ size[b] \in Nat /\ size[b] >= 4
  BY BlockTags
<1>2. /\ r \in Heads(size) \ F /\ left[r] = size[b]
      /\ r \in Addr /\ r \in Nat /\ r <= end
  BY BlockTags
<1>3. a < b /\ b < r /\ a # b /\ r # b /\ a # r
  BY <1>1, SMT
<1> HIDE DEF r
<1>4. b = a + size[a] /\ r = b + size[b] /\ HeapLimit \in Nat
  BY AddrIsNat DEF r
<1>5. size[a] + size[b] \in 0 .. HeapLimit
  BY <1>1, <1>2, <1>4, SMT
<1>6. /\ sz[a] = size[a] + size[b] /\ sz[b] = 0
      /\ \A x \in Addr \ {a, b} : sz[x] = size[x]
  BY <1>1, <1>3, SMT DEF IsMerge
<1>7. /\ lf[r] = size[a] + size[b]
      /\ \A x \in Addr \ {b, r} : lf[x] = left[x]
      /\ lf[b] = 0
  BY <1>1, <1>2, <1>3, SMT DEF IsMerge, r
<1>8. /\ size \in [Addr -> 0 .. HeapLimit] /\ left \in [Addr -> 0 .. HeapLimit]
      /\ \A x \in Heads(size) : x \in Addr /\ x \in Int /\ size[x] \in Nat /\ size[x] > 0
  <2>1. \A x \in Heads(size) : x \in Addr /\ x \in Nat /\ size[x] \in Nat /\ size[x] # 0
    BY TagTypes DEF Heads
  <2> QED
    BY <2>1, TagTypes, SMT
<1>9. sz \in [Addr -> 0 .. HeapLimit] /\ lf \in [Addr -> 0 .. HeapLimit]
  <2>1. 0 \in 0 .. HeapLimit
    BY <1>4, SMT
  <2>2. ASSUME NEW x \in Addr PROVE sz[x] \in 0 .. HeapLimit /\ lf[x] \in 0 .. HeapLimit
    BY <2>1, <1>5, <1>6, <1>7, <1>8, Zenon
  <2> QED
    BY <2>2 DEF IsMerge
<1>10. Heads(sz) = Heads(size) \ {b}
  <2>1. a \in Heads(sz) /\ b \notin Heads(sz)
    BY <1>1, <1>6, SMT DEF Heads
  <2>2. \A x \in Addr \ {a, b} : x \in Heads(sz) <=> x \in Heads(size)
    BY <1>6, Zenon DEF Heads
  <2>3. Heads(sz) \subseteq Addr /\ Heads(size) \subseteq Addr
    BY DEF Heads
  <2> QED
    BY <2>1, <2>2, <2>3
<1>11. \A x, y \in Heads(size) : x < y => x + size[x] <= y
  BY DEF Tags
<1>12. ASSUME NEW x \in Heads(size), x # a, x # b
       PROVE  sz[x] = size[x] /\ x + size[x] # b /\ x + size[x] # r
  <2>1. sz[x] = size[x]
    BY <1>6, <1>8, <1>12
  <2>2. /\ x < a => x + size[x] <= a
        /\ a < x => b <= x
        /\ x < b => x + size[x] <= b
        /\ b < x => r <= x
    BY <1>4, <1>11
  <2>3. x \in Int /\ size[x] \in Nat /\ size[x] > 0
    BY <1>8
  <2>4. x + size[x] # b /\ x + size[x] # r
    BY <1>1, <1>3, <1>4, <1>12, <2>2, <2>3, SMT
  <2> QED
    BY <2>1, <2>4
<1>13. Tags(sz, lf, F, E, end)
  <2> USE <1>10
  <2>1. /\ F \subseteq Heads(sz) /\ E \subseteq Heads(sz) /\ F \cap E = {}
    BY DEF Tags
  <2>2. \A x \in F \cup E : sz[x] = HDR
    BY <1>8, <1>6, <2>1, Zenon DEF Tags
  <2>3. \A x \in Heads(sz) \ (F \cup E) : sz[x] >= MIN
    <3> TAKE x \in Heads(sz) \ (F \cup E)
    <3>1. CASE x = a
      BY <3>1, <1>1, <1>6, HeaderWords, SMT
    <3>2. CASE x # a
      BY <3>2, <1>8, <1>6, Zenon DEF Tags
    <3> QED
      BY <3>1, <3>2
  <2>4. \A x \in Heads(sz) : x + sz[x] <= end
    <3>1. a + sz[a] <= end
      BY <1>1, <1>2, <1>4, <1>6, SMT
    <3>2. \A x \in Heads(size) : x + size[x] <= end
      BY DEF Tags
    <3> QED
      BY <3>1, <3>2, <1>12, Zenon
  <2>5. \A x, y \in Heads(sz) : x < y => x + sz[x] <= y
    <3> TAKE x, y \in Heads(sz)
    <3> HAVE x < y
    <3>1. CASE x = a
      <4>1. y \in Heads(size) /\ y # a /\ y # b /\ y \in Int
        BY <1>1, <1>8, <3>1, SMT
      <4>2. b <= y
        BY <1>4, <1>11, <3>1, <4>1
      <4>3. b < y
        BY <1>1, <4>1, <4>2, SMT
      <4>4. r <= y
        BY <1>4, <1>11, <4>1, <4>3
      <4> QED
        BY <3>1, <4>1, <4>4, <1>1, <1>4, <1>6, SMT
    <3>2. CASE x # a
      BY <3>2, <1>11, <1>12
    <3> QED
      BY <3>1, <3>2
  <2>6. \A x \in Heads(sz) \ E : x + sz[x] \in Heads(sz) \ F /\ lf[x + sz[x]] = sz[x]
    <3> TAKE x \in Heads(sz) \ E
    <3>1. CASE x = a
      <4>1. a + sz[a] = r
        BY <1>1, <1>4, <1>6, SMT
      <4> QED
        BY <3>1, <4>1, <1>2, <1>3, <1>6, <1>7
    <3>2. CASE x # a
      <4>1. sz[x] = size[x] /\ x + size[x] # b /\ x + size[x] # r
        BY <3>2, <1>12
      <4>2. x + size[x] \in Heads(size) \ F /\ left[x + size[x]] = size[x]
        BY DEF Tags
      <4> QED
        BY <4>1, <4>2, <1>7, <1>8
    <3> QED
      BY <3>1, <3>2
  <2>7. \A x \in Heads(sz) \ F : x - lf[x] \in Heads(sz) \ E /\ sz[x - lf[x]] = lf[x]
    <3> TAKE x \in Heads(sz) \ F
    <3>1. CASE x = r
      <4>1. r - lf[r] = a
        BY <1>1, <1>4, <1>7, SMT
      <4>2. a \in Heads(sz) \ E
        BY <1>3
      <4> QED
        BY <3>1, <4>1, <4>2, <1>6, <1>7
    <3>2. CASE x # r
      <4>1. lf[x] = left[x] /\ x \in Addr /\ x \in Int
        BY <3>2, <1>7, <1>8
      <4>2. x - left[x] \in Heads(size) \ E /\ size[x - left[x]] = left[x]
        BY DEF Tags
      <4>3. x - left[x] # a /\ x - left[x] # b
        <5>1. left[x] \in Nat
          BY <4>1, TagTypes
        <5>2. x # b
          OBVIOUS
        <5> QED
          BY <5>1, <5>2, <4>1, <4>2, <3>2, <1>1, <1>4, SMT
      <4> QED
        BY <4>1, <4>2, <4>3, <1>12
    <3> QED
      BY <3>1, <3>2
  <2> QED
    BY <1>9, <2>1, <2>2, <2>3, <2>4, <2>5, <2>6, <2>7 DEF Tags
<1>14. Cover(sz) = Cover(size)
  <2>1. \A w : w \in Cover(sz) <=> \E x \in Heads(sz) : w \in x .. x + sz[x] - 1
    BY DEF Cover
  <2>2. \A w : w \in Cover(size) <=> \E x \in Heads(size) : w \in x .. x + size[x] - 1
    BY DEF Cover
  <2>3. ASSUME NEW w
        PROVE  w \in a .. a + sz[a] - 1
                 <=> w \in a .. a + size[a] - 1 \/ w \in b .. b + size[b] - 1
    BY <1>1, <1>4, <1>6, SMT
  <2>4. a \in Heads(sz)
    BY <1>3, <1>10
  <2> QED
    BY <2>1, <2>2, <2>3, <2>4, <1>10, <1>12, Zenon
<1> QED
  BY <1>10, <1>13, <1>14

LEMMA FreshAbove ==
  ASSUME NEW size, NEW left, NEW F, NEW E, NEW end \in Int, Tags(size, left, F, E, end)
  PROVE  \A x \in Heads(size) :
           /\ x \in Addr /\ x \in Int /\ size[x] \in Int /\ size[x] > 0
           /\ x < end /\ x + size[x] <= end
<1> TAKE x \in Heads(size)
<1>1. x \in Addr /\ x \in Nat /\ size[x] \in Nat /\ size[x] # 0
  BY TagTypes DEF Heads
<1>2. x + size[x] <= end
  BY DEF Tags
<1> QED
  BY <1>1, <1>2, SMT

(* A chunk of its own: a block between two fenceposts. *)
IsChunk(size, left, mem, sz, lf) ==
  /\ sz \in [Addr -> Int] /\ lf \in [Addr -> Int]
  /\ \A x \in Addr :
       sz[x] = IF x = mem \/ x = mem + Arena - HDR THEN HDR
               ELSE IF x = mem + HDR THEN Arena - 2 * HDR ELSE size[x]
  /\ \A x \in Addr :
       lf[x] = IF x = mem \/ x = mem + HDR THEN HDR
               ELSE IF x = mem + Arena - HDR THEN Arena - 2 * HDR ELSE left[x]

LEMMA ChunkTags ==
  ASSUME NEW size, NEW left, NEW F, NEW E, NEW end \in Int, Tags(size, left, F, E, end),
         NEW mem \in Nat, end <= mem, mem + Arena <= HeapLimit,
         NEW sz, NEW lf, IsChunk(size, left, mem, sz, lf)
  PROVE  /\ {mem, mem + HDR, mem + Arena - HDR} \subseteq Addr \ Heads(size)
         /\ Heads(sz) = Heads(size) \cup {mem, mem + HDR, mem + Arena - HDR}
         /\ Tags(sz, lf, F \cup {mem}, E \cup {mem + Arena - HDR}, mem + Arena)
         /\ Cover(size) \subseteq Cover(sz)
<1> DEFINE b == mem + HDR
           e == mem + Arena - HDR
<1>1. /\ HDR = 2 /\ MIN = 4 /\ Arena \in Nat /\ Arena >= 8 /\ HeapLimit \in Nat
  BY HeaderWords, HeapAssumption
<1>2. /\ b \in Nat /\ e \in Nat /\ mem < b /\ b < e /\ b = mem + 2 /\ e = mem + Arena - 2
      /\ Arena - 2 * HDR = Arena - 4 /\ Arena - 4 \in 0 .. HeapLimit /\ 2 \in 0 .. HeapLimit
      /\ mem \in Addr /\ b \in Addr /\ e \in Addr
  BY <1>1, SMT DEF Addr
<1> HIDE DEF b, e
<1>3. /\ sz[mem] = 2 /\ sz[b] = Arena - 4 /\ sz[e] = 2
      /\ \A x \in Addr \ {mem, b, e} : sz[x] = size[x]
  BY <1>1, <1>2, SMT DEF IsChunk, b, e
<1>4. /\ lf[mem] = 2 /\ lf[b] = 2 /\ lf[e] = Arena - 4
      /\ \A x \in Addr \ {mem, b, e} : lf[x] = left[x]
  BY <1>1, <1>2, SMT DEF IsChunk, b, e
<1>5. \A x \in Heads(size) :
        /\ x \in Addr /\ x \in Int /\ size[x] \in Int /\ size[x] > 0
        /\ x < mem /\ x + size[x] <= mem
  BY FreshAbove, SMT
<1>6. mem \notin Heads(size) /\ b \notin Heads(size) /\ e \notin Heads(size)
  BY <1>2, <1>5, SMT
<1>7. sz \in [Addr -> 0 .. HeapLimit] /\ lf \in [Addr -> 0 .. HeapLimit]
  <2>1. ASSUME NEW x \in Addr PROVE sz[x] \in 0 .. HeapLimit /\ lf[x] \in 0 .. HeapLimit
    <3>1. size[x] \in 0 .. HeapLimit /\ left[x] \in 0 .. HeapLimit
      BY TagTypes
    <3> QED
      BY <3>1, <1>2, <1>3, <1>4, Zenon
  <2> QED
    BY <2>1 DEF IsChunk
<1>8. Heads(sz) = Heads(size) \cup {mem, b, e}
  <2>1. mem \in Heads(sz) /\ b \in Heads(sz) /\ e \in Heads(sz)
    BY <1>1, <1>2, <1>3, SMT DEF Heads
  <2>2. \A x \in Addr \ {mem, b, e} : x \in Heads(sz) <=> x \in Heads(size)
    BY <1>3, Zenon DEF Heads
  <2>3. Heads(sz) \subseteq Addr /\ Heads(size) \subseteq Addr
    BY DEF Heads
  <2> QED
    BY <2>1, <2>2, <2>3
<1>9. \A x \in Heads(size) : sz[x] = size[x] /\ lf[x] = left[x]
  BY <1>3, <1>4, <1>5, <1>6
<1>10. Tags(sz, lf, F \cup {mem}, E \cup {e}, mem + Arena)
  <2> USE <1>8
  <2>1. F \subseteq Heads(size) /\ E \subseteq Heads(size) /\ F \cap E = {}
    BY DEF Tags
  <2>2. /\ F \cup {mem} \subseteq Heads(sz) /\ E \cup {e} \subseteq Heads(sz)
        /\ (F \cup {mem}) \cap (E \cup {e}) = {}
    BY <1>2, <1>6, <2>1, SMT
  <2>3. \A x \in F \cup {mem} \cup (E \cup {e}) : sz[x] = HDR
    <3>1. \A x \in F \cup E : size[x] = HDR
      BY DEF Tags
    <3> QED
      BY <3>1, <2>1, <1>1, <1>3, <1>9
  <2>4. \A x \in Heads(sz) \ (F \cup {mem} \cup (E \cup {e})) : sz[x] >= MIN
    <3>1. \A x \in Heads(size) \ (F \cup E) : size[x] >= MIN
      BY DEF Tags
    <3>2. sz[b] >= MIN
      BY <1>1, <1>3, SMT
    <3> QED
      BY <3>1, <3>2, <1>9
  <2>5. \A x \in Heads(sz) : x + sz[x] <= mem + Arena
    BY <1>1, <1>2, <1>3, <1>5, <1>9, SMT
  <2>6. \A x, y \in Heads(sz) : x < y => x + sz[x] <= y
    <3>1. \A x, y \in Heads(size) : x < y => x + size[x] <= y
      BY DEF Tags
    <3>2. \A x, y \in {mem, b, e} : x < y => x + sz[x] <= y
      BY <1>1, <1>2, <1>3, SMT
    <3>3. \A x \in Heads(size), y \in {mem, b, e} : ~(y < x) /\ x + sz[x] <= y
      BY <1>2, <1>5, <1>9, SMT
    <3> QED
      BY <3>1, <3>2, <3>3, <1>9, Zenon
  <2>7. ASSUME NEW x \in Heads(sz) \ (E \cup {e})
        PROVE  x + sz[x] \in Heads(sz) \ (F \cup {mem}) /\ lf[x + sz[x]] = sz[x]
    <3>1. CASE x \in {mem, b}
      <4>1. mem + sz[mem] = b /\ b + sz[b] = e
        BY <1>1, <1>2, <1>3, SMT
      <4>2. b # mem /\ e # mem /\ b \notin F /\ e \notin F
        BY <1>2, <1>6, <2>1, SMT
      <4> QED
        BY <3>1, <4>1, <4>2, <1>3, <1>4
    <3>2. CASE x \in Heads(size)
      <4>1. x + size[x] \in Heads(size) \ F /\ left[x + size[x]] = size[x]
        BY <3>2 DEF Tags
      <4> QED
        BY <3>2, <4>1, <1>6, <1>9
    <3> QED
      BY <3>1, <3>2
  <2>8. ASSUME NEW x \in Heads(sz) \ (F \cup {mem})
        PROVE  x - lf[x] \in Heads(sz) \ (E \cup {e}) /\ sz[x - lf[x]] = lf[x]
    <3>1. CASE x \in {b, e}
      <4>1. b - lf[b] = mem /\ e - lf[e] = b
        BY <1>1, <1>2, <1>4, SMT
      <4>2. mem # e /\ b # e /\ mem \notin E /\ b \notin E
        BY <1>2, <1>6, <2>1, SMT
      <4> QED
        BY <3>1, <4>1, <4>2, <1>3, <1>4
    <3>2. CASE x \in Heads(size)
      <4>1. x - left[x] \in Heads(size) \ E /\ size[x - left[x]] = left[x]
        BY <3>2 DEF Tags
      <4> QED
        BY <3>2, <4>1, <1>6, <1>9
    <3> QED
      BY <3>1, <3>2
  <2> QED
    BY <1>7, <2>2, <2>3, <2>4, <2>5, <2>6, <2>7, <2>8 DEF Tags
<1>11. Cover(size) \subseteq Cover(sz)
  BY <1>8, <1>9, Zenon DEF Cover
<1> QED
  BY <1>2, <1>6, <1>8, <1>10, <1>11 DEF b, e

(* A chunk behind the last one: the fencepost between them becomes a block *)
(* that reaches to the new chunk's right fencepost.                        *)
IsJoin(size, left, mem, sz, lf) ==
  /\ sz \in [Addr -> Int] /\ lf \in [Addr -> Int]
  /\ \A x \in Addr :
       sz[x] = IF x = mem - HDR THEN Arena
               ELSE IF x = mem + Arena - HDR THEN HDR
               ELSE IF x = mem \/ x = mem + HDR THEN 0 ELSE size[x]
  /\ \A x \in Addr :
       lf[x] = IF x = mem + Arena - HDR THEN Arena
               ELSE IF x = mem \/ x = mem + HDR THEN 0 ELSE left[x]

LEMMA JoinTags ==
  ASSUME NEW size, NEW left, NEW F, NEW E, NEW mem \in Nat, Tags(size, left, F, E, mem),
         mem - HDR \in E, mem + Arena <= HeapLimit,
         NEW sz, NEW lf, IsJoin(size, left, mem, sz, lf)
  PROVE  /\ mem + Arena - HDR \in Addr \ Heads(size)
         /\ Heads(sz) = Heads(size) \cup {mem + Arena - HDR}
         /\ Tags(sz, lf, F, (E \ {mem - HDR}) \cup {mem + Arena - HDR}, mem + Arena)
         /\ Cover(size) \subseteq Cover(sz)
<1> DEFINE p == mem - HDR
           e == mem + Arena - HDR
<1>1. /\ HDR = 2 /\ MIN = 4 /\ Arena \in Nat /\ Arena >= 8 /\ HeapLimit \in Nat
  BY HeaderWords, HeapAssumption
<1>2. p \in E /\ p \in Heads(size) /\ p \in Addr /\ p \in Nat /\ size[p] = 2
  <2>1. p \in E /\ p \in Heads(size) /\ size[p] = HDR
    BY DEF Tags
  <2> QED
    BY <2>1, <1>1, TagTypes
<1>3. /\ e \in Nat /\ e \in Addr /\ p + 2 = mem /\ p + Arena = e /\ e > mem + 2
      /\ p < mem /\ mem < e
      /\ Arena \in 0 .. HeapLimit /\ 2 \in 0 .. HeapLimit /\ 0 \in 0 .. HeapLimit
  BY <1>1, SMT DEF Addr
<1> HIDE DEF p, e
<1>4. /\ sz[p] = Arena /\ sz[e] = 2
      /\ \A x \in Addr \ {p, mem, mem + 2, e} : sz[x] = size[x]
      /\ \A x \in Addr \cap {mem, mem + 2} : sz[x] = 0
  BY <1>1, <1>2, <1>3, SMT DEF IsJoin, p, e
<1>5. /\ lf[e] = Arena /\ lf[p] = left[p]
      /\ \A x \in Addr \ {mem, mem + 2, e} : lf[x] = left[x]
      /\ \A x \in Addr \cap {mem, mem + 2} : lf[x] = 0
  BY <1>1, <1>2, <1>3, SMT DEF IsJoin, p, e
<1>6. \A x \in Heads(size) :
        /\ x \in Addr /\ x \in Int /\ size[x] \in Int /\ size[x] > 0
        /\ x < mem /\ x + size[x] <= mem
  BY FreshAbove
<1>7. mem \notin Heads(size) /\ mem + 2 \notin Heads(size) /\ e \notin Heads(size)
  BY <1>3, <1>6, SMT
<1>8. sz \in [Addr -> 0 .. HeapLimit] /\ lf \in [Addr -> 0 .. HeapLimit]
  <2>1. ASSUME NEW x \in Addr PROVE sz[x] \in 0 .. HeapLimit /\ lf[x] \in 0 .. HeapLimit
    <3>1. size[x] \in 0 .. HeapLimit /\ left[x] \in 0 .. HeapLimit
      BY TagTypes
    <3> QED
      BY <3>1, <1>3, <1>4, <1>5, Zenon
  <2> QED
    BY <2>1 DEF IsJoin
<1>9. \A x \in Heads(size) : (x # p => sz[x] = size[x]) /\ lf[x] = left[x]
  BY <1>4, <1>5, <1>6, <1>7
<1>10. Heads(sz) = Heads(size) \cup {e}
  <2>1. p \in Heads(sz) /\ e \in Heads(sz)
    BY <1>1, <1>2, <1>3, <1>4, SMT DEF Heads
  <2>2. \A x \in Addr \cap {mem, mem + 2} : x \notin Heads(sz)
    BY <1>4 DEF Heads
  <2>3. \A x \in Addr \ {p, mem, mem + 2, e} : x \in Heads(sz) <=> x \in Heads(size)
    BY <1>4, Zenon DEF Heads
  <2>4. Heads(sz) \subseteq Addr /\ Heads(size) \subseteq Addr
    BY DEF Heads
  <2> QED
    BY <1>2, <1>7, <2>1, <2>2, <2>3, <2>4
<1>11. \A x, y \in Heads(size) : x < y => x + size[x] <= y
  BY DEF Tags
<1>12. \A x \in Heads(size) : x # p => x < p /\ x + size[x] <= p
  <2> TAKE x \in Heads(size)
  <2>1. x < p => x + size[x] <= p
    BY <1>2, <1>11
  <2>2. p < x => mem <= x
    BY <1>2, <1>3, <1>11
  <2> QED
    BY <2>1, <2>2, <1>2, <1>6, SMT
<1>13. Tags(sz, lf, F, (E \ {p}) \cup {e}, mem + Arena)
  <2> USE <1>10
  <2>1. F \subseteq Heads(size) /\ E \subseteq Heads(size) /\ F \cap E = {}
    BY DEF Tags
  <2>2. /\ F \subseteq Heads(sz) /\ (E \ {p}) \cup {e} \subseteq Heads(sz)
        /\ F \cap ((E \ {p}) \cup {e}) = {}
    BY <1>7, <2>1
  <2>3. \A x \in F \cup ((E \ {p}) \cup {e}) : sz[x] = HDR
    <3>1. \A x \in F \cup E : size[x] = HDR
      BY DEF Tags
    <3> QED
      BY <3>1, <2>1, <1>1, <1>2, <1>4, <1>9
  <2>4. \A x \in Heads(sz) \ (F \cup ((E \ {p}) \cup {e})) : sz[x] >= MIN
    <3>1. \A x \in Heads(size) \ (F \cup E) : size[x] >= MIN
      BY DEF Tags
    <3>2. sz[p] >= MIN
      BY <1>1, <1>4, SMT
    <3> QED
      BY <3>1, <3>2, <1>9
  <2>5. \A x \in Heads(sz) : x + sz[x] <= mem + Arena
    <3>1. p + sz[p] <= mem + Arena /\ e + sz[e] <= mem + Arena
      BY <1>1, <1>2, <1>3, <1>4, SMT DEF e
    <3>2. \A x \in Heads(size) : x + size[x] <= mem + Arena
      BY <1>1, <1>6, SMT
    <3> QED
      BY <3>1, <3>2, <1>9, Zenon
  <2>6. ASSUME NEW x \in Heads(sz), NEW y \in Heads(sz), x < y
        PROVE  x + sz[x] <= y
    <3>1. CASE x = p
      <4>1. y = e
        BY <1>2, <1>3, <1>6, <1>12, <2>6, <3>1, SMT
      <4> QED
        BY <3>1, <4>1, <1>1, <1>2, <1>3, <1>4, SMT
    <3>2. CASE x = e
      BY <1>3, <1>6, <2>6, <3>2, SMT
    <3>3. CASE x # p /\ x # e
      <4>1. x \in Heads(size) /\ sz[x] = size[x]
        BY <3>3, <1>9
      <4>2. CASE y = e
        BY <4>1, <4>2, <1>3, <1>6, SMT
      <4>3. CASE y # e
        BY <4>1, <4>3, <1>11, <2>6
      <4> QED
        BY <4>2, <4>3
    <3> QED
      BY <3>1, <3>2, <3>3
  <2>7. ASSUME NEW x \in Heads(sz) \ ((E \ {p}) \cup {e})
        PROVE  x + sz[x] \in Heads(sz) \ F /\ lf[x + sz[x]] = sz[x]
    <3>1. CASE x = p
      BY <3>1, <1>3, <1>4, <1>5, <1>7, <2>1
    <3>2. CASE x # p
      <4>1. x + size[x] \in Heads(size) \ F /\ left[x + size[x]] = size[x]
        BY <3>2 DEF Tags
      <4> QED
        BY <3>2, <4>1, <1>9
    <3> QED
      BY <3>1, <3>2
  <2>8. ASSUME NEW x \in Heads(sz) \ F
        PROVE  x - lf[x] \in Heads(sz) \ ((E \ {p}) \cup {e}) /\ sz[x - lf[x]] = lf[x]
    <3>1. CASE x = e
      <4>1. e - lf[e] = p /\ p # e
        BY <1>1, <1>2, <1>3, <1>5, SMT
      <4> QED
        BY <3>1, <4>1, <1>2, <1>4, <1>5
    <3>2. CASE x # e
      <4>1. x \in Heads(size) \ F /\ lf[x] = left[x]
        BY <3>2, <1>9
      <4>2. x - left[x] \in Heads(size) \ E /\ size[x - left[x]] = left[x]
        BY <4>1 DEF Tags
      <4> QED
        BY <4>1, <4>2, <1>2, <1>7, <1>9
    <3> QED
      BY <3>1, <3>2
  <2> QED
    BY <1>8, <2>2, <2>3, <2>4, <2>5, <2>6, <2>7, <2>8 DEF Tags
<1>14. Cover(size) \subseteq Cover(sz)
  <2>1. \A w : w \in Cover(sz) <=> \E x \in Heads(sz) : w \in x .. x + sz[x] - 1
    BY DEF Cover
  <2>2. \A w : w \in Cover(size) <=> \E x \in Heads(size) : w \in x .. x + size[x] - 1
    BY DEF Cover
  <2>3. ASSUME NEW w, w \in p .. p + size[p] - 1 PROVE w \in p .. p + sz[p] - 1
    BY <1>1, <1>2, <1>4, <2>3, SMT
  <2> QED
    BY <2>1, <2>2, <2>3, <1>9, <1>10, Zenon
<1> QED
  BY <1>3, <1>7, <1>10, <1>13, <1>14 DEF p, e

-----------------------------------------------------------------------------
(* Free lists. *)

LEMMA SentinelFacts ==
  /\ Sentinels \subseteq Node /\ Addr \subseteq Node
  /\ Addr \cap Sentinels = {} /\ NULL \notin Node
  /\ \A i \in ListIndex : Sentinel(i) \in Sentinels /\ IndexOf(Sentinel(i)) = i
  /\ \A s \in Sentinels : IndexOf(s) \in ListIndex /\ s = Sentinel(IndexOf(s))
  /\ \A a \in Addr : IndexOf(a) \notin ListIndex
  /\ \A i, j \in ListIndex : Sentinel(i) = Sentinel(j) => i = j
<1>1. \A i \in ListIndex : i \in Nat
  BY NListsAssumption, SMT DEF ListIndex
<1>2. \A i \in ListIndex : Sentinel(i) \in Sentinels /\ IndexOf(Sentinel(i)) = i
  BY <1>1, SMT DEF Sentinels, Sentinel, IndexOf
<1>3. \A s \in Sentinels : \E i \in ListIndex : s = Sentinel(i)
  BY DEF Sentinels
<1>4. \A s \in Sentinels : IndexOf(s) \in ListIndex /\ s = Sentinel(IndexOf(s))
  BY <1>2, <1>3
<1>5. \A a \in Addr : IndexOf(a) \notin ListIndex
  BY AddrIsNat, <1>1, SMT DEF IndexOf
<1>6. Sentinels \subseteq Node /\ Addr \subseteq Node /\ Addr \cap Sentinels = {}
  BY <1>4, <1>5 DEF Node
<1>7. \A i, j \in ListIndex : Sentinel(i) = Sentinel(j) => i = j
  BY <1>2
<1> QED
  BY <1>2, <1>4, <1>5, <1>6, <1>7, HeapAssumption

(* What Linked says of one node. *)
LEMMA Neighbours ==
  ASSUME NEW next, NEW prev, NEW L, NEW rank, NEW home,
         Linked(next, prev, L, rank, home), NEW b \in L
  PROVE  /\ b \in Addr /\ b \in Node /\ L \cap Sentinels = {}
         /\ next[b] \in L \cup Sentinels /\ prev[b] \in L \cup Sentinels
         /\ next[b] \in Node /\ prev[b] \in Node
         /\ next[b] # NULL /\ prev[b] # NULL
         /\ next[b] # b /\ prev[b] # b
         /\ prev[next[b]] = b /\ next[prev[b]] = b
<1>1. b \in Addr /\ b \in Node /\ L \subseteq Node /\ L \cap Sentinels = {}
  BY SentinelFacts DEF Linked
<1>2. /\ next[b] \in L \cup Sentinels /\ prev[next[b]] = b
      /\ prev[b] \in L \cup Sentinels /\ next[prev[b]] = b
  BY DEF Linked
<1>3. next[b] # b
  <2> SUFFICES ASSUME next[b] = b PROVE FALSE
    OBVIOUS
  <2>1. rank[b] < rank[b] /\ rank[b] \in Nat
    BY <1>1 DEF Linked
  <2> QED
    BY <2>1, SMT
<1> QED
  BY <1>1, <1>2, <1>3, SentinelFacts

(* freelist_remove *)
LEMMA RemoveLinked ==
  ASSUME NEW next, NEW prev, NEW L, NEW rank, NEW home,
         Linked(next, prev, L, rank, home), NEW b \in L,
         NEW n, n = next[b], NEW p, p = prev[b],
         NEW nx, nx = [next EXCEPT ![p] = n], NEW pv, pv = [prev EXCEPT ![n] = p]
  PROVE  Linked(nx, pv, L \ {b}, rank, home)
<1>1. /\ b \in Addr /\ b \in Node /\ L \cap Sentinels = {} /\ b \notin Sentinels
      /\ n \in (L \ {b}) \cup Sentinels /\ p \in (L \ {b}) \cup Sentinels
      /\ n \in Node /\ p \in Node /\ prev[n] = b /\ next[p] = b
  BY Neighbours
<1>2. /\ next \in [Node -> Node \cup {NULL}] /\ prev \in [Node -> Node \cup {NULL}]
      /\ L \cup Sentinels \subseteq Node
  BY SentinelFacts DEF Linked
<1>3. /\ nx \in [Node -> Node \cup {NULL}] /\ pv \in [Node -> Node \cup {NULL}]
      /\ nx[p] = n /\ pv[n] = p
      /\ \A x \in Node \ {p} : nx[x] = next[x]
      /\ \A x \in Node \ {n} : pv[x] = prev[x]
  BY <1>1, <1>2
<1>4. \A x \in L \cup Sentinels :
        /\ next[x] \in L \cup Sentinels /\ prev[next[x]] = x
        /\ prev[x] \in L \cup Sentinels /\ next[prev[x]] = x
        /\ home[next[x]] = home[x]
  BY DEF Linked
<1>5. \A x \in (L \ {b}) \cup Sentinels :
        /\ nx[x] \in (L \ {b}) \cup Sentinels /\ pv[nx[x]] = x
        /\ pv[x] \in (L \ {b}) \cup Sentinels /\ nx[pv[x]] = x
        /\ home[nx[x]] = home[x]
  <2> TAKE x \in (L \ {b}) \cup Sentinels
  <2>1. x \in L \cup Sentinels /\ x \in Node /\ x # b
    BY <1>1, <1>2
  <2>2. nx[x] \in (L \ {b}) \cup Sentinels /\ pv[nx[x]] = x /\ home[nx[x]] = home[x]
    <3>1. CASE x = p
      <4>1. home[b] = home[p] /\ home[n] = home[b]
        BY <1>1, <1>4
      <4> QED
        BY <3>1, <4>1, <1>1, <1>3
    <3>2. CASE x # p
      <4>1. nx[x] = next[x]
        BY <3>2, <2>1, <1>3
      <4>2. next[x] # b
        BY <3>2, <2>1, <1>4
      <4>3. next[x] # n
        BY <2>1, <1>1, <1>4
      <4> QED
        BY <4>1, <4>2, <4>3, <2>1, <1>2, <1>3, <1>4
    <3> QED
      BY <3>1, <3>2
  <2>3. pv[x] \in (L \ {b}) \cup Sentinels /\ nx[pv[x]] = x
    <3>1. CASE x = n
      BY <3>1, <1>1, <1>3
    <3>2. CASE x # n
      <4>1. pv[x] = prev[x]
        BY <3>2, <2>1, <1>3
      <4>2. prev[x] # b
        BY <3>2, <2>1, <1>4
      <4>3. prev[x] # p
        BY <2>1, <1>1, <1>4
      <4> QED
        BY <4>1, <4>2, <4>3, <2>1, <1>2, <1>3, <1>4
    <3> QED
      BY <3>1, <3>2
  <2> QED
    BY <2>2, <2>3
<1>6. \A x \in L \ {b} : nx[x] \in L \ {b} => rank[x] < rank[nx[x]]
  <2> TAKE x \in L \ {b}
  <2> HAVE nx[x] \in L \ {b}
  <2>1. CASE x = p
    <3>1. p \in L /\ n \in L /\ nx[x] = n
      BY <2>1, <1>3
    <3>2. rank[p] < rank[b] /\ rank[b] < rank[n]
      BY <3>1, <1>1 DEF Linked
    <3>3. rank[p] \in Nat /\ rank[b] \in Nat /\ rank[n] \in Nat
      BY <3>1 DEF Linked
    <3> QED
      BY <2>1, <3>1, <3>2, <3>3, SMT
  <2>2. CASE x # p
    BY <2>2, <1>2, <1>3 DEF Linked
  <2> QED
    BY <2>1, <2>2
<1> QED
  BY <1>3, <1>5, <1>6 DEF Linked

LEMMA RemoveTracked ==
  ASSUME NEW next, NEW prev, NEW L, NEW rank, NEW home, NEW bits \in SUBSET ListIndex,
         Linked(next, prev, L, rank, home), BitsTrack(next, bits), NEW b \in L,
         NEW n, n = next[b], NEW p, p = prev[b],
         NEW nx, nx = [next EXCEPT ![p] = n]
  PROVE  BitsTrack(nx, IF next[n] = b THEN bits \ {IndexOf(n)} ELSE bits)
<1> DEFINE now == IF next[n] = b THEN bits \ {IndexOf(n)} ELSE bits
<1>1. /\ b \in Addr /\ b \in L \cup Sentinels /\ b \notin Sentinels
      /\ n \in L \cup Sentinels /\ p \in L \cup Sentinels
      /\ n \in Node /\ p \in Node /\ prev[n] = b /\ next[p] = b /\ n # b
  BY Neighbours
<1>2. /\ next \in [Node -> Node \cup {NULL}]
      /\ \A x \in L \cup Sentinels : prev[next[x]] = x
  BY DEF Linked
<1>3. nx[p] = n /\ \A x \in Node \ {p} : nx[x] = next[x]
  BY <1>1, <1>2
<1>4. ASSUME next[n] = b, n \in L PROVE FALSE
  <2>1. rank[n] < rank[b] /\ rank[b] < rank[n]
    BY <1>1, <1>4 DEF Linked
  <2>2. rank[n] \in Nat /\ rank[b] \in Nat
    BY <1>4 DEF Linked
  <2> QED
    BY <2>1, <2>2, SMT
<1>5. next[n] = b => n = p
  BY <1>1, <1>2
<1>6. ASSUME NEW i \in ListIndex
      PROVE  IF nx[Sentinel(i)] # Sentinel(i) THEN i \in now
             ELSE i \in now => i \in InitialBits
  <2>1. Sentinel(i) \in Sentinels /\ Sentinel(i) \in Node /\ IndexOf(Sentinel(i)) = i
    BY SentinelFacts
  <2>2. IF next[Sentinel(i)] # Sentinel(i) THEN i \in bits
        ELSE i \in bits => i \in InitialBits
    BY DEF BitsTrack
  <2>3. CASE Sentinel(i) = p
    <3>1. i \in bits
      BY <1>1, <2>1, <2>2, <2>3
    <3>2. CASE n = p
      BY <3>2, <1>1, <1>3, <2>1, <2>3
    <3>3. CASE n # p
      BY <3>1, <3>3, <1>3, <1>5, <2>3
    <3> QED
      BY <3>2, <3>3
  <2>4. CASE Sentinel(i) # p
    <3>1. nx[Sentinel(i)] = next[Sentinel(i)]
      BY <1>3, <2>1, <2>4
    <3>2. i \in now <=> i \in bits
      <4>1. next[n] = b => IndexOf(n) # i
        BY <1>1, <1>4, <1>5, <2>4, SentinelFacts
      <4> QED
        BY <4>1
    <3> QED
      BY <2>2, <3>1, <3>2
  <2> QED
    BY <2>3, <2>4
<1> QED
  BY <1>6 DEF BitsTrack

(* b comes behind p in p's list. *)
Inserted(next, prev, b, p, nx, pv) ==
  /\ nx = [next EXCEPT ![b] = next[p], ![p] = b]
  /\ pv = [prev EXCEPT ![b] = p, ![next[p]] = b]

(* Ranks and homes that take b in. *)
Ranked(next, L, rank, home, b, p, rk, hm) ==
  /\ rk \in [Addr -> Nat] /\ hm \in [Node -> ListIndex]
  /\ \A x, y \in L : rank[x] < rank[y] => rk[x] < rk[y]
  /\ p \in L => rk[p] < rk[b]
  /\ next[p] \in L => rk[b] < rk[next[p]]
  /\ \A x \in L \cup Sentinels : hm[x] = home[x]
  /\ hm[b] = home[p]

(* freelist_insert_between *)
LEMMA InsertLinked ==
  ASSUME NEW next, NEW prev, NEW L, NEW rank, NEW home,
         Linked(next, prev, L, rank, home), NEW b \in Addr \ L,
         NEW p \in L \cup Sentinels, NEW nx, NEW pv, Inserted(next, prev, b, p, nx, pv),
         NEW rk, NEW hm, Ranked(next, L, rank, home, b, p, rk, hm)
  PROVE  Linked(nx, pv, L \cup {b}, rk, hm)
<1> DEFINE n == next[p]
<1> HIDE DEF n
<1>0. /\ n = next[p]
      /\ nx = [next EXCEPT ![b] = n, ![p] = b] /\ pv = [prev EXCEPT ![b] = p, ![n] = b]
      /\ rk \in [Addr -> Nat] /\ hm \in [Node -> ListIndex]
      /\ \A x, y \in L : rank[x] < rank[y] => rk[x] < rk[y]
      /\ p \in L => rk[p] < rk[b]
      /\ n \in L => rk[b] < rk[n]
      /\ \A x \in L \cup Sentinels : hm[x] = home[x]
      /\ hm[b] = home[p]
  BY DEF Inserted, Ranked, n
<1>1. /\ next \in [Node -> Node \cup {NULL}] /\ prev \in [Node -> Node \cup {NULL}]
      /\ L \cup Sentinels \subseteq Node /\ L \subseteq Addr
      /\ b \in Node /\ b \notin L \cup Sentinels
  BY SentinelFacts DEF Linked
<1>2. \A x \in L \cup Sentinels :
        /\ next[x] \in L \cup Sentinels /\ prev[next[x]] = x
        /\ prev[x] \in L \cup Sentinels /\ next[prev[x]] = x
        /\ home[next[x]] = home[x]
  BY DEF Linked
<1>3. /\ p \in Node /\ n \in Node /\ n \in L \cup Sentinels /\ prev[n] = p
      /\ home[n] = home[p] /\ b # p /\ b # n
  BY <1>0, <1>1, <1>2
<1>4. /\ nx \in [Node -> Node \cup {NULL}] /\ pv \in [Node -> Node \cup {NULL}]
      /\ nx[p] = b /\ nx[b] = n /\ pv[b] = p /\ pv[n] = b
      /\ \A x \in Node \ {p, b} : nx[x] = next[x]
      /\ \A x \in Node \ {n, b} : pv[x] = prev[x]
  BY <1>0, <1>1, <1>3
<1>5. \A x \in L \cup {b} \cup Sentinels :
        /\ nx[x] \in L \cup {b} \cup Sentinels /\ pv[nx[x]] = x
        /\ pv[x] \in L \cup {b} \cup Sentinels /\ nx[pv[x]] = x
        /\ hm[nx[x]] = hm[x]
  <2> TAKE x \in L \cup {b} \cup Sentinels
  <2>1. nx[x] \in L \cup {b} \cup Sentinels /\ pv[nx[x]] = x /\ hm[nx[x]] = hm[x]
    <3>1. CASE x = p
      BY <3>1, <1>0, <1>4
    <3>2. CASE x = b
      <4>1. hm[n] = hm[b]
        BY <1>0, <1>3
      <4> QED
        BY <3>2, <4>1, <1>3, <1>4, Zenon
    <3>3. CASE x # p /\ x # b
      <4>1. nx[x] = next[x] /\ next[x] \in L \cup Sentinels /\ home[next[x]] = home[x]
        BY <3>3, <1>1, <1>2, <1>4
      <4>2. next[x] # n /\ next[x] # b
        BY <3>3, <4>1, <1>1, <1>2, <1>3
      <4> QED
        BY <3>3, <4>1, <4>2, <1>0, <1>1, <1>2, <1>4
    <3> QED
      BY <3>1, <3>2, <3>3
  <2>2. pv[x] \in L \cup {b} \cup Sentinels /\ nx[pv[x]] = x
    <3>1. CASE x = n \/ x = b
      <4>1. p \in L \cup {b} \cup Sentinels /\ b \in L \cup {b} \cup Sentinels
        OBVIOUS
      <4> QED
        BY <3>1, <4>1, <1>4, Zenon
    <3>2. CASE x # n /\ x # b
      <4>1. pv[x] = prev[x] /\ prev[x] \in L \cup Sentinels /\ next[prev[x]] = x
        BY <3>2, <1>1, <1>2, <1>4
      <4>2. prev[x] # p /\ prev[x] # b
        BY <3>2, <4>1, <1>0, <1>1, <1>3
      <4> QED
        BY <4>1, <4>2, <1>1, <1>4
    <3> QED
      BY <3>1, <3>2
  <2> QED
    BY <2>1, <2>2
<1>6. \A x \in L \cup {b} : nx[x] \in L \cup {b} => rk[x] < rk[nx[x]]
  <2> TAKE x \in L \cup {b}
  <2> HAVE nx[x] \in L \cup {b}
  <2>1. CASE x = p
    BY <2>1, <1>0, <1>1, <1>3, <1>4
  <2>2. CASE x = b
    BY <2>2, <1>0, <1>3, <1>4
  <2>3. CASE x # p /\ x # b
    <3>1. nx[x] = next[x] /\ next[x] \in L /\ x \in L
      BY <2>3, <1>1, <1>2, <1>4
    <3>2. rank[x] < rank[next[x]]
      BY <3>1 DEF Linked
    <3> QED
      BY <3>1, <3>2, <1>0
  <2> QED
    BY <2>1, <2>2, <2>3
<1>7. \A i \in ListIndex : hm[Sentinel(i)] = i
  BY <1>0, SentinelFacts DEF Linked
<1> QED
  BY <1>0, <1>1, <1>4, <1>5, <1>6, <1>7 DEF Linked

(* Links of what is on no list do not matter. *)
LEMMA LinkedElsewhere ==
  ASSUME NEW next, NEW prev, NEW L, NEW rank, NEW home,
         Linked(next, prev, L, rank, home),
         NEW nx \in [Node -> Node \cup {NULL}], NEW pv \in [Node -> Node \cup {NULL}],
         \A x \in L \cup Sentinels : nx[x] = next[x] /\ pv[x] = prev[x]
  PROVE  Linked(nx, pv, L, rank, home)
<1>1. \A x \in L \cup Sentinels :
        /\ next[x] \in L \cup Sentinels /\ prev[next[x]] = x
        /\ prev[x] \in L \cup Sentinels /\ next[prev[x]] = x
        /\ home[next[x]] = home[x]
  BY DEF Linked
<1>2. \A x \in L \cup Sentinels :
        /\ nx[x] \in L \cup Sentinels /\ pv[nx[x]] = x
        /\ pv[x] \in L \cup Sentinels /\ nx[pv[x]] = x
        /\ home[nx[x]] = home[x]
  BY <1>1
<1>3. \A x \in L : nx[x] \in L => rank[x] < rank[nx[x]]
  BY DEF Linked
<1> QED
  BY <1>2, <1>3 DEF Linked

LEMMA InsertTracked ==
  ASSUME NEW next \in [Node -> Node \cup {NULL}], NEW bits \in SUBSET ListIndex,
         BitsTrack(next, bits), NEW b \in Addr, NEW p \in Node, NEW n \in Node,
         NEW nx, nx = [next EXCEPT ![b] = n, ![p] = b],
         NEW now \in SUBSET ListIndex, bits \subseteq now,
         \A i \in ListIndex : i \in now \ bits => p = Sentinel(i),
         \A i \in ListIndex : p = Sentinel(i) => i \in now
  PROVE  BitsTrack(nx, now)
<1>1. b \in Node /\ b \notin Sentinels
  BY SentinelFacts
<1>2. nx[p] = b /\ \A x \in Node \ {p, b} : nx[x] = next[x]
  BY <1>1
<1>3. ASSUME NEW i \in ListIndex
      PROVE  IF nx[Sentinel(i)] # Sentinel(i) THEN i \in now
             ELSE i \in now => i \in InitialBits
  <2>1. Sentinel(i) \in Node /\ Sentinel(i) # b
    BY <1>1, SentinelFacts
  <2>2. IF next[Sentinel(i)] # Sentinel(i) THEN i \in bits
        ELSE i \in bits => i \in InitialBits
    BY DEF BitsTrack
  <2>3. CASE Sentinel(i) = p
    BY <2>1, <2>3, <1>2
  <2>4. CASE Sentinel(i) # p
    <3>1. nx[Sentinel(i)] = next[Sentinel(i)] /\ (i \in now <=> i \in bits)
      BY <2>1, <2>4, <1>2
    <3> QED
      BY <2>2, <3>1
  <2> QED
    BY <2>3, <2>4
<1> QED
  BY <1>3 DEF BitsTrack

-----------------------------------------------------------------------------
(* The list operations on the heap record. *)

OnLists(h, L, rank, home) ==
  Linked(h.next, h.prev, L, rank, home) /\ BitsTrack(h.next, h.bits)

(* g is h with other links. *)
Relinked(h, g, L) ==
  /\ g \in HeapRecord /\ g.size = h.size /\ g.left = h.left
  /\ g.state = h.state /\ g.wild = h.wild
  /\ \A a \in Addr \ L : g.next[a] = h.next[a]

LEMMA RecordTypes ==
  ASSUME NEW h \in HeapRecord
  PROVE  /\ h.size \in [Addr -> 0 .. HeapLimit] /\ h.left \in [Addr -> 0 .. HeapLimit]
         /\ h.state \in [Addr -> BlockState]
         /\ h.next \in [Node -> Node \cup {NULL}] /\ h.prev \in [Node -> Node \cup {NULL}]
         /\ h.bits \in SUBSET ListIndex /\ h.wild \in BOOLEAN
BY DEF HeapRecord

LEMMA RemoveList ==
  ASSUME NEW h \in HeapRecord, NEW L, NEW rank, NEW home, OnLists(h, L, rank, home),
         NEW b \in L
  PROVE  /\ Relinked(h, FreelistRemove(h, b), L)
         /\ OnLists(FreelistRemove(h, b), L \ {b}, rank, home)
<1> DEFINE n == h.next[b]
           p == h.prev[b]
           g == FreelistRemove(h, b)
<1>1. /\ b \in Addr /\ n \in Node /\ p \in Node /\ n # NULL /\ p # NULL
      /\ n \in L \cup Sentinels /\ p \in L \cup Sentinels /\ L \subseteq Addr
  <2>1. Linked(h.next, h.prev, L, rank, home)
    BY DEF OnLists
  <2>2. L \subseteq Addr
    BY <2>1 DEF Linked
  <2> QED
    BY <2>1, <2>2, Neighbours
<1>2. g = [h EXCEPT !.bits = IF h.next[n] = b THEN @ \ {IndexOf(n)} ELSE @,
                    !.next[p] = n, !.prev[n] = p]
  BY <1>1 DEF FreelistRemove
<1> HIDE DEF n, p, g
<1>3. /\ g.size = h.size /\ g.left = h.left /\ g.state = h.state /\ g.wild = h.wild
      /\ g.bits = IF h.next[n] = b THEN h.bits \ {IndexOf(n)} ELSE h.bits
      /\ g.next = [h.next EXCEPT ![p] = n] /\ g.prev = [h.prev EXCEPT ![n] = p]
      /\ g = [size |-> g.size, left |-> g.left, state |-> g.state, next |-> g.next,
              prev |-> g.prev, bits |-> g.bits, wild |-> g.wild]
  BY <1>2 DEF HeapRecord
<1>4. g \in HeapRecord
  <2>1. /\ g.next \in [Node -> Node \cup {NULL}] /\ g.prev \in [Node -> Node \cup {NULL}]
        /\ g.bits \in SUBSET ListIndex
    BY <1>1, <1>3, RecordTypes
  <2> QED
    BY <1>3, <2>1, RecordTypes DEF HeapRecord
<1>5. \A a \in Addr \ L : g.next[a] = h.next[a]
  BY <1>1, <1>3, SentinelFacts, RecordTypes
<1>6. Linked(g.next, g.prev, L \ {b}, rank, home)
  BY <1>3, RemoveLinked DEF OnLists, n, p
<1>7. BitsTrack(g.next, g.bits)
  <2>1. Linked(h.next, h.prev, L, rank, home) /\ BitsTrack(h.next, h.bits)
    BY DEF OnLists
  <2>2. h.bits \in SUBSET ListIndex
    BY RecordTypes
  <2>3. n = h.next[b] /\ p = h.prev[b]
    BY DEF n, p
  <2> QED
    BY <1>3, <2>1, <2>2, <2>3, RemoveTracked
<1> QED
  BY <1>3, <1>4, <1>5, <1>6, <1>7 DEF g, Relinked, OnLists

LEMMA WordIndexes ==
  ASSUME NEW s \in Nat, s >= MIN
  PROVE  /\ IsBlockSize(8 * s)
         /\ WordIndex(s) \in ListIndex
         /\ SentinelIndex(8 * s) = WordIndex(s)
<1>1. IsBlockSize(8 * s)
  BY HeaderWords, SMT DEF IsBlockSize, HeaderSize
<1> QED
  BY <1>1, ListOfBlockSize DEF WordIndex

(* freelist_insert_between on the record *)
Between(h, b, p, n, g) ==
  /\ g \in HeapRecord /\ g.size = h.size /\ g.left = h.left
  /\ g.state = h.state /\ g.wild = h.wild /\ g.bits = h.bits
  /\ g.next = [h.next EXCEPT ![b] = n, ![p] = b]
  /\ g.prev = [h.prev EXCEPT ![b] = p, ![n] = b]

LEMMA BetweenFields ==
  ASSUME NEW h \in HeapRecord, NEW b \in Addr, NEW p \in Node, NEW n \in Node
  PROVE  Between(h, b, p, n, FreelistInsertBetween(h, b, p, n))
<1> SUFFICES ASSUME NEW g, g = FreelistInsertBetween(h, b, p, n)
             PROVE  Between(h, b, p, n, g)
  OBVIOUS
<1>1. /\ g.size = h.size /\ g.left = h.left /\ g.state = h.state /\ g.wild = h.wild
      /\ g.bits = h.bits
      /\ g.next = [h.next EXCEPT ![b] = n, ![p] = b]
      /\ g.prev = [h.prev EXCEPT ![b] = p, ![n] = b]
      /\ g = [size |-> g.size, left |-> g.left, state |-> g.state, next |-> g.next,
              prev |-> g.prev, bits |-> g.bits, wild |-> g.wild]
  BY DEF FreelistInsertBetween, HeapRecord
<1>2. b \in Node
  BY SentinelFacts
<1>3. g.next \in [Node -> Node \cup {NULL}] /\ g.prev \in [Node -> Node \cup {NULL}]
  BY <1>1, <1>2, RecordTypes
<1> QED
  BY <1>1, <1>3, RecordTypes DEF HeapRecord, Between

LEMMA InsertList ==
  ASSUME NEW h \in HeapRecord, NEW L, NEW rank, NEW home, OnLists(h, L, rank, home),
         NEW b \in Addr \ L, h.size[b] >= MIN
  PROVE  /\ Relinked(h, FreelistInsert(h, b), L \cup {b})
         /\ \E rk \in [Addr -> Nat] :
              OnLists(FreelistInsert(h, b), L \cup {b}, rk,
                      [home EXCEPT ![b] = WordIndex(h.size[b])])
<1> DEFINE i == WordIndex(h.size[b])
           p == Sentinel(i)
           n == h.next[p]
           f == [h EXCEPT !.bits = @ \cup {i}]
           g == FreelistInsert(h, b)
           hm == [home EXCEPT ![b] = i]
           rk == [a \in Addr |-> IF a = b THEN 0 ELSE rank[a] + 1]
<1>1. i \in ListIndex /\ SentinelIndex(8 * h.size[b]) = i
  <2>1. h.size[b] \in Nat
    <3>1. h.size[b] \in 0 .. HeapLimit
      BY RecordTypes
    <3> QED
      BY <3>1, AddrIsNat, SMT
  <2> QED
    BY <2>1, WordIndexes
<1>2. g = FreelistInsertBetween(f, b, p, n)
  BY <1>1 DEF FreelistInsert
<1> HIDE DEF i, g
<1>3. /\ p \in Sentinels /\ p \in Node /\ b \in Node /\ p # b
      /\ L \subseteq Addr /\ L \cap Sentinels = {} /\ b \notin L \cup Sentinels
  BY <1>1, SentinelFacts DEF OnLists, Linked
<1>4. n \in L \cup Sentinels /\ n \in Node
  BY <1>3, SentinelFacts DEF OnLists, Linked
<1>5. /\ f \in HeapRecord /\ f.size = h.size /\ f.left = h.left /\ f.state = h.state
      /\ f.wild = h.wild /\ f.next = h.next /\ f.prev = h.prev /\ f.bits = h.bits \cup {i}
  BY <1>1 DEF HeapRecord
<1> HIDE DEF f, p, n
<1>6. /\ g \in HeapRecord /\ g.size = h.size /\ g.left = h.left
      /\ g.state = h.state /\ g.wild = h.wild /\ g.bits = h.bits \cup {i}
      /\ g.next = [h.next EXCEPT ![b] = n, ![p] = b]
      /\ g.prev = [h.prev EXCEPT ![b] = p, ![n] = b]
  <2>1. Between(f, b, p, n, g)
    BY <1>2, <1>3, <1>4, <1>5, BetweenFields
  <2> QED
    BY <2>1, <1>5 DEF Between
<1>7. Relinked(h, g, L \cup {b})
  <2>1. \A a \in Addr \ (L \cup {b}) : g.next[a] = h.next[a]
    BY <1>3, <1>6, SentinelFacts, RecordTypes
  <2> QED
    BY <2>1, <1>6 DEF Relinked
<1>8. /\ rank \in [Addr -> Nat] /\ home \in [Node -> ListIndex]
      /\ Linked(h.next, h.prev, L, rank, home)
  BY DEF OnLists, Linked
<1>9. /\ rk \in [Addr -> Nat] /\ hm \in [Node -> ListIndex] /\ hm[b] = i
      /\ \A x \in L \cup Sentinels : hm[x] = home[x]
      /\ rk[b] = 0 /\ \A x \in L : rk[x] = rank[x] + 1
  <2>1. \A a \in Addr : rank[a] + 1 \in Nat
    BY <1>8, SMT
  <2> QED
    BY <2>1, <1>1, <1>3, <1>8
<1> HIDE DEF rk, hm
<1>10. home[p] = i
  BY <1>1 DEF OnLists, Linked, p
<1>11. /\ \A x, y \in L : rank[x] < rank[y] => rk[x] < rk[y]
       /\ n \in L => rk[b] < rk[n]
       /\ p \notin L
  <2>1. \A x \in L : rank[x] \in Nat
    BY <1>3, <1>8
  <2> QED
    BY <2>1, <1>3, <1>9, SMT
<1>12. Linked(g.next, g.prev, L \cup {b}, rk, hm)
  <2>1. p \in L \cup Sentinels /\ n = h.next[p] /\ hm[b] = home[p]
    BY <1>3, <1>9, <1>10 DEF n
  <2>2. Inserted(h.next, h.prev, b, p, g.next, g.prev)
    BY <1>6, <2>1 DEF Inserted
  <2>3. Ranked(h.next, L, rank, home, b, p, rk, hm)
    BY <1>9, <1>11, <2>1 DEF Ranked
  <2> QED
    BY <2>1, <2>2, <2>3, <1>8, InsertLinked
<1>13. BitsTrack(g.next, g.bits)
  <2>1. \A j \in ListIndex : p = Sentinel(j) => j = i
    BY <1>1, SentinelFacts DEF p
  <2>2. BitsTrack(h.next, h.bits) /\ h.bits \in SUBSET ListIndex
    BY RecordTypes DEF OnLists
  <2>3. /\ h.bits \cup {i} \in SUBSET ListIndex /\ h.next \in [Node -> Node \cup {NULL}]
        /\ \A j \in ListIndex : j \in (h.bits \cup {i}) \ h.bits => p = Sentinel(j)
        /\ \A j \in ListIndex : p = Sentinel(j) => j \in h.bits \cup {i}
    BY <1>1, <2>1, <2>2, RecordTypes DEF p
  <2> QED
    BY <1>3, <1>4, <1>6, <2>2, <2>3, InsertTracked
<1> QED
  BY <1>7, <1>9, <1>12, <1>13 DEF g, hm, i, OnLists

(* move_coalesced: a block whose size was old is filed under its new size, *)
(* or left where it is among the last lists.                               *)
LEMMA MoveList ==
  ASSUME NEW h \in HeapRecord, NEW L, NEW rank, NEW home, OnLists(h, L, rank, home),
         NEW b \in L, h.size[b] >= MIN, NEW old \in Nat, old >= MIN,
         FiledAs(home[b], old), Filed(h.size, L \ {b}, home)
  PROVE  /\ Relinked(h, MoveCoalesced(h, b, old), L)
         /\ Listing(MoveCoalesced(h, b, old), L)
<1> DEFINE g == MoveCoalesced(h, b, old)
<1>1. /\ Linked(h.next, h.prev, L, rank, home) /\ BitsTrack(h.next, h.bits)
      /\ L \subseteq Addr /\ b \in Addr /\ b \in Node
      /\ rank \in [Addr -> Nat] /\ home \in [Node -> ListIndex]
  BY SentinelFacts DEF OnLists, Linked
<1>2. h.size[b] \in Nat
  <2>1. h.size[b] \in 0 .. HeapLimit
    BY <1>1, RecordTypes
  <2> QED
    BY <2>1, AddrIsNat, SMT
<1>3. CASE Relists(8 * h.size[b], 8 * old)
  <2> DEFINE f == FreelistRemove(h, b)
             hm == [home EXCEPT ![b] = WordIndex(h.size[b])]
  <2>1. Relinked(h, f, L) /\ OnLists(f, L \ {b}, rank, home)
    BY RemoveList
  <2>2. g = FreelistInsert(f, b)
    BY <1>3 DEF MoveCoalesced
  <2> HIDE DEF f, g
  <2>3. f \in HeapRecord /\ f.size = h.size /\ b \in Addr \ (L \ {b}) /\ (L \ {b}) \cup {b} = L
    BY <2>1, <1>1 DEF Relinked
  <2>4. Relinked(f, FreelistInsert(f, b), (L \ {b}) \cup {b})
    BY <2>1, <2>3, InsertList
  <2>5. PICK rk \in [Addr -> Nat] :
          OnLists(FreelistInsert(f, b), (L \ {b}) \cup {b}, rk,
                  [home EXCEPT ![b] = WordIndex(f.size[b])])
    BY <2>1, <2>3, InsertList
  <2>6. OnLists(g, L, rk, hm) /\ Relinked(f, g, L)
    BY <2>2, <2>3, <2>4, <2>5
  <2>7. Relinked(h, g, L)
    BY <2>1, <2>6 DEF Relinked
  <2>8. hm \in [Node -> ListIndex]
    BY <1>1, <1>2, WordIndexes
  <2>9. Filed(g.size, L, hm)
    <3>1. g.size = h.size
      BY <2>7 DEF Relinked
    <3>2. \A c \in L \ {b} : hm[c] = home[c] /\ FiledAs(home[c], h.size[c])
      BY <1>1, SentinelFacts DEF Filed
    <3>3. hm[b] = WordIndex(h.size[b]) /\ FiledAs(hm[b], h.size[b])
      BY <1>1 DEF FiledAs
    <3> HIDE DEF hm
    <3> QED
      BY <3>1, <3>2, <3>3 DEF Filed
  <2> HIDE DEF hm
  <2> QED
    BY <2>6, <2>7, <2>8, <2>9 DEF g, Listing, OnLists
<1>4. CASE ~Relists(8 * h.size[b], 8 * old)
  <2>1. g = h
    BY <1>4 DEF MoveCoalesced
  <2>2. FiledAs(home[b], h.size[b])
    <3>1. IsBlockSize(8 * h.size[b]) /\ IsBlockSize(8 * old)
      BY <1>2, WordIndexes
    <3>2. WordIndex(h.size[b]) # WordIndex(old) =>
            WordIndex(h.size[b]) >= NLists - 3 /\ WordIndex(old) >= NLists - 3
      BY <1>4, <3>1, UnmovedOnlyAtTheTop DEF WordIndex
    <3> QED
      BY <3>2 DEF FiledAs
  <2>3. Filed(g.size, L, home)
    BY <2>1, <2>2 DEF Filed
  <2>4. Relinked(h, g, L)
    BY <2>1 DEF Relinked
  <2> QED
    BY <2>1, <2>3, <2>4, <1>1 DEF Listing
<1> QED
  BY <1>3, <1>4

-----------------------------------------------------------------------------
(* The operations of the heap keep it sound. *)

(* The blocks S of h are blocks of g, of the same size and state. *)
Kept(h, g, S) ==
  \A c \in S : c \in Heads(g.size) /\ g.size[c] = h.size[c] /\ g.state[c] = h.state[c]

LEMMA ListingIntro ==
  ASSUME NEW h, NEW L, NEW rank, NEW home, OnLists(h, L, rank, home),
         Filed(h.size, L, home)
  PROVE  Listing(h, L)
BY DEF OnLists, Listing, Linked

LEMMA ListingElim ==
  ASSUME NEW h, NEW L, Listing(h, L)
  PROVE  \E rank, home : OnLists(h, L, rank, home) /\ Filed(h.size, L, home)
BY DEF OnLists, Listing

(* Tags, lists and states, one by one. *)
LEMMA SoundParts ==
  ASSUME NEW h, NEW F, NEW E, NEW X, NEW end \in Int, Sound(h, F, E, X, end)
  PROVE  /\ h \in HeapRecord /\ ~h.wild
         /\ Tags(h.size, h.left, F, E, end)
         /\ F \subseteq Heads(h.size) /\ E \subseteq Heads(h.size)
         /\ X \subseteq Heads(h.size) \ (F \cup E)
         /\ Vacant(h, X) \subseteq Heads(h.size) \ (F \cup E \cup X)
         /\ \A a \in F \cup E : h.state[a] = "fencepost"
         /\ \A a \in Vacant(h, X) : h.state[a] = "unallocated"
         /\ \A a \in Vacant(h, X) : a + h.size[a] \notin Vacant(h, X)
         /\ \A a \in Addr \ (Vacant(h, X) \cup X) : h.next[a] = NULL
         /\ Listing(h, Vacant(h, X))
         /\ Vacant(h, X) \subseteq Addr /\ X \subseteq Addr
<1>1. /\ h \in HeapRecord /\ ~h.wild
      /\ Tags(h.size, h.left, F, E, end)
      /\ X \subseteq Heads(h.size) \ (F \cup E)
      /\ \A a \in F \cup E : h.state[a] = "fencepost"
      /\ \A a \in Vacant(h, X) : a + h.size[a] \notin Vacant(h, X)
      /\ \A a \in Addr \ (Vacant(h, X) \cup X) : h.next[a] = NULL
      /\ Listing(h, Vacant(h, X))
  BY DEF Sound, RightOf
<1>2. F \subseteq Heads(h.size) /\ E \subseteq Heads(h.size)
  BY <1>1 DEF Tags
<1>3. /\ \A a \in Vacant(h, X) : h.state[a] = "unallocated" /\ a \in Heads(h.size) /\ a \notin X
      /\ Heads(h.size) \subseteq Addr
  BY DEF Vacant, Heads
<1>4. Vacant(h, X) \subseteq Heads(h.size) \ (F \cup E \cup X)
  BY <1>1, <1>3
<1> QED
  BY <1>1, <1>2, <1>3, <1>4

(* The whole block goes to a client. *)
LEMMA RemoveSound ==
  ASSUME NEW h, NEW F, NEW E, NEW X, NEW end \in Int, Sound(h, F, E, X, end),
         NEW b \in Vacant(h, X)
  PROVE  /\ Sound(FreelistRemove(h, b), F, E, X \cup {b}, end)
         /\ FreelistRemove(h, b).size = h.size
         /\ FreelistRemove(h, b).state = h.state
<1> DEFINE g == FreelistRemove(h, b)
           L == Vacant(h, X)
<1>1. h \in HeapRecord /\ Listing(h, L)
  BY SoundParts
<1>2. PICK rank, home : OnLists(h, L, rank, home) /\ Filed(h.size, L, home)
  BY <1>1, ListingElim
<1>3. Relinked(h, g, L) /\ OnLists(g, L \ {b}, rank, home)
  BY <1>1, <1>2, RemoveList
<1> HIDE DEF g
<1>4. /\ g \in HeapRecord /\ g.size = h.size /\ g.left = h.left /\ g.state = h.state
      /\ g.wild = h.wild /\ \A a \in Addr \ L : g.next[a] = h.next[a]
  BY <1>3 DEF Relinked
<1>5. Vacant(g, X \cup {b}) = L \ {b}
  BY <1>4 DEF Vacant
<1>6. Filed(g.size, L \ {b}, home)
  BY <1>2, <1>4 DEF Filed
<1>7. Listing(g, L \ {b})
  BY <1>3, <1>6, ListingIntro
<1>8. b \in Heads(h.size) \ (F \cup E)
  BY SoundParts
<1>9. \A a \in Addr \ ((L \ {b}) \cup (X \cup {b})) : g.next[a] = NULL
  BY <1>4, SoundParts
<1>10. \A a \in L \ {b} : a + g.size[a] \notin L \ {b}
  BY <1>4, SoundParts
<1>11. Sound(g, F, E, X \cup {b}, end)
  <2> HIDE DEF L
  <2> QED
    BY <1>4, <1>5, <1>7, <1>8, <1>9, <1>10 DEF Sound, RightOf
<1> QED
  BY <1>4, <1>11 DEF g

(* A block without a free neighbour goes to its list. *)
LEMMA InsertSound ==
  ASSUME NEW h, NEW F, NEW E, NEW X, NEW end \in Int, Sound(h, F, E, X, end),
         NEW b \in X, h.state[b] = "unallocated",
         LeftOf(h, b) \notin Vacant(h, X), RightOf(h, b) \notin Vacant(h, X)
  PROVE  /\ Sound(FreelistInsert(h, b), F, E, X \ {b}, end)
         /\ FreelistInsert(h, b).size = h.size
         /\ FreelistInsert(h, b).state = h.state
<1> DEFINE g == FreelistInsert(h, b)
           L == Vacant(h, X)
<1>1. /\ h \in HeapRecord /\ Listing(h, L) /\ Tags(h.size, h.left, F, E, end)
      /\ L \subseteq Heads(h.size) \ (F \cup E \cup X)
      /\ b \in Heads(h.size) \ (F \cup E) /\ b \in Addr \ L
  BY SoundParts
<1>2. /\ h.size[b] \in Nat /\ h.size[b] >= MIN /\ b \in Nat
  BY <1>1, BlockTags, HeaderWords
<1>3. PICK rank, home : OnLists(h, L, rank, home) /\ Filed(h.size, L, home)
  BY <1>1, ListingElim
<1> DEFINE hm == [home EXCEPT ![b] = WordIndex(h.size[b])]
<1>4. Relinked(h, g, L \cup {b})
  BY <1>1, <1>2, <1>3, InsertList
<1>5. \E rk \in [Addr -> Nat] : OnLists(g, L \cup {b}, rk, hm)
  BY <1>1, <1>2, <1>3, InsertList
<1> HIDE DEF g
<1>6. /\ g \in HeapRecord /\ g.size = h.size /\ g.left = h.left /\ g.state = h.state
      /\ g.wild = h.wild /\ \A a \in Addr \ (L \cup {b}) : g.next[a] = h.next[a]
  BY <1>4 DEF Relinked
<1>7. Vacant(g, X \ {b}) = L \cup {b}
  BY <1>1, <1>6 DEF Vacant
<1>8. Listing(g, L \cup {b})
  <2>1. home \in [Node -> ListIndex] /\ b \in Node /\ L \subseteq Node
    BY <1>1, <1>3, SentinelFacts DEF OnLists, Linked
  <2>2. hm[b] = WordIndex(h.size[b]) /\ \A c \in L : hm[c] = home[c]
    BY <1>1, <2>1
  <2>3. Filed(g.size, L \cup {b}, hm)
    <3> HIDE DEF hm
    <3> QED
      BY <1>3, <1>6, <2>2 DEF Filed, FiledAs
  <2> QED
    BY <1>5, <2>3, ListingIntro
<1> HIDE DEF L
<1>9. \A a \in L \cup {b} : a + g.size[a] \notin L \cup {b}
  <2> TAKE a \in L \cup {b}
  <2>1. CASE a = b
    <3>1. b + h.size[b] # b
      BY <1>2, HeaderWords, SMT
    <3> QED
      BY <2>1, <3>1, <1>6 DEF RightOf, L
  <2>2. CASE a # b
    <3>1. a + h.size[a] \notin L
      BY <2>2, SoundParts DEF L
    <3>2. a + h.size[a] # b
      <4> SUFFICES ASSUME a + h.size[a] = b PROVE FALSE
        OBVIOUS
      <4>1. a \in Heads(h.size) \ (F \cup E)
        BY <2>2, <1>1
      <4>2. h.left[b] = h.size[a] /\ a \in Nat /\ h.size[a] \in Nat
        BY <4>1, <1>1, BlockTags
      <4>3. b - h.left[b] = a
        BY <4>2, SMT
      <4> QED
        BY <2>2, <4>3 DEF LeftOf, L
    <3> QED
      BY <3>1, <3>2, <1>6
  <2> QED
    BY <2>1, <2>2
<1>10. \A a \in Addr \ ((L \cup {b}) \cup (X \ {b})) : g.next[a] = NULL
  BY <1>6, SoundParts DEF L
<1>11. Sound(g, F, E, X \ {b}, end)
  BY <1>6, <1>7, <1>8, <1>9, <1>10 DEF Sound, RightOf
<1> QED
  BY <1>6, <1>11 DEF g

-----------------------------------------------------------------------------
(* The operations on the heap, one by one. *)

(* Links that differ only outside the lists. *)
LEMMA OnListsElsewhere ==
  ASSUME NEW h, NEW L, NEW rank, NEW home, OnLists(h, L, rank, home), NEW g \in HeapRecord,
         \A x \in L \cup Sentinels : g.next[x] = h.next[x] /\ g.prev[x] = h.prev[x],
         g.bits = h.bits
  PROVE  OnLists(g, L, rank, home)
<1>1. Linked(h.next, h.prev, L, rank, home) /\ BitsTrack(h.next, h.bits)
  BY DEF OnLists
<1>2. g.next \in [Node -> Node \cup {NULL}] /\ g.prev \in [Node -> Node \cup {NULL}]
  BY RecordTypes
<1>3. Linked(g.next, g.prev, L, rank, home)
  BY <1>1, <1>2, LinkedElsewhere
<1>4. \A i \in ListIndex : g.next[Sentinel(i)] = h.next[Sentinel(i)]
  BY SentinelFacts
<1>5. BitsTrack(g.next, g.bits)
  BY <1>1, <1>4 DEF BitsTrack
<1> QED
  BY <1>3, <1>5 DEF OnLists

(* g is h with block b cut in two, the part at ret of s words handed out. *)
SplitDone(h, F, E, X, end, b, s, ret, g) ==
  /\ Sound(g, F, E, X \cup {ret}, end)
  /\ ret \in Addr \ Heads(h.size) /\ g.size[ret] = s
  /\ Kept(h, g, Heads(h.size) \ {b})
  /\ Cover(g.size) = Cover(h.size)

(* split_block *)
LEMMA SplitSound ==
  ASSUME NEW h, NEW F, NEW E, NEW X, NEW end \in Int, Sound(h, F, E, X, end),
         NEW b \in Vacant(h, X), NEW s \in Nat, s >= MIN, h.size[b] >= s + MIN,
         NEW stale \in BlockState, NEW ret, ret = b + h.size[b] - s,
         NEW g, g = SplitBlock(h, b, s, stale)
  PROVE  SplitDone(h, F, E, X, end, b, s, ret, g)
<1> DEFINE old == h.size[b]
           L == Vacant(h, X)
           f == [h EXCEPT !.size  = [@ EXCEPT ![b] = old - s, ![ret] = s],
                          !.left  = [@ EXCEPT ![ret] = old - s, ![b + old] = s],
                          !.state[ret] = stale]
<1>1. /\ h \in HeapRecord /\ ~h.wild /\ Tags(h.size, h.left, F, E, end) /\ Listing(h, L)
      /\ L \subseteq Heads(h.size) \ (F \cup E \cup X)
      /\ b \in Heads(h.size) \ (F \cup E) /\ b \notin X
  BY SoundParts
<1>2. /\ b \in Addr /\ b \in Nat /\ old \in Nat /\ b + old \in Addr /\ b + old \in Nat
  BY <1>1, BlockTags
<1>3. /\ ret \in Int /\ ret - b = old - s /\ old - (ret - b) = s
      /\ ret >= b + MIN /\ ret + MIN <= b + old /\ ret # b /\ ret # b + old
      /\ old - s \in Nat /\ old - s >= MIN
  BY <1>2, HeaderWords, SMT
<1>4. ret \in Addr
  <2>1. b + old \in 0 .. HeapLimit - 1 /\ ret <= b + old /\ ret >= b /\ HeapLimit \in Nat
    BY <1>2, <1>3, HeaderWords, AddrIsNat, SMT DEF Addr
  <2> QED
    BY <2>1, <1>2, <1>3, SMT DEF Addr
<1>5. g = MoveCoalesced(f, b, old)
  BY DEF SplitBlock
<1> HIDE DEF f, old
<1> DEFINE sz == [h.size EXCEPT ![b] = old - s, ![ret] = s]
           lf == [h.left EXCEPT ![ret] = old - s, ![b + old] = s]
<1>6. f = [h EXCEPT !.size = sz, !.left = lf, !.state[ret] = stale]
  BY <1>1 DEF f, HeapRecord
<1> HIDE DEF sz, lf
<1>7. /\ f.size = sz /\ f.left = lf
      /\ f.state = [h.state EXCEPT ![ret] = stale]
      /\ f.next = h.next /\ f.prev = h.prev /\ f.bits = h.bits /\ f.wild = h.wild
      /\ f = [size |-> f.size, left |-> f.left, state |-> f.state, next |-> f.next,
              prev |-> f.prev, bits |-> f.bits, wild |-> f.wild]
  BY <1>1, <1>6 DEF HeapRecord
<1>8. /\ f.size = [h.size EXCEPT ![b] = old - s, ![ret] = s]
      /\ f.left = [h.left EXCEPT ![ret] = old - s, ![b + old] = s]
      /\ f.state = [h.state EXCEPT ![ret] = stale]
      /\ f.next = h.next /\ f.prev = h.prev /\ f.bits = h.bits /\ f.wild = h.wild
  BY <1>7 DEF sz, lf
<1>9. IsSplit(h.size, h.left, b, ret, f.size, f.left)
  <2>1. h.size \in [Addr -> Int] /\ h.left \in [Addr -> Int] /\ h.size[b] = old
    <3>1. 0 .. HeapLimit \subseteq Int
      BY SMT
    <3> QED
      BY <3>1, <1>1, RecordTypes, Zenon DEF old
  <2>2. old - s \in Int /\ s \in Int
    BY <1>3, SMT
  <2> QED
    BY <1>2, <1>3, <1>4, <1>8, <2>1, <2>2 DEF IsSplit
<1>10. /\ ret \in Addr \ Heads(h.size)
       /\ Heads(f.size) = Heads(h.size) \cup {ret}
       /\ Tags(f.size, f.left, F, E, end)
       /\ Cover(f.size) = Cover(h.size)
  BY <1>1, <1>3, <1>9, SplitTags DEF old
<1>11. /\ f.size[b] = old - s /\ f.size[ret] = s
       /\ \A c \in Addr \ {b, ret} : f.size[c] = h.size[c]
       /\ \A c \in Addr \ {ret} : f.state[c] = h.state[c]
  BY <1>1, <1>2, <1>3, <1>4, <1>8, RecordTypes
<1>12. f \in HeapRecord
  <2>1. f.state \in [Addr -> BlockState]
    BY <1>1, <1>4, <1>8, RecordTypes
  <2>2. f.size \in [Addr -> 0 .. HeapLimit] /\ f.left \in [Addr -> 0 .. HeapLimit]
    BY <1>10, TagTypes
  <2> QED
    BY <1>1, <1>7, <2>1, <2>2, RecordTypes DEF HeapRecord
<1>13. Vacant(f, X \cup {ret}) = L
  <2>1. Heads(h.size) \subseteq Addr \ {ret}
    BY <1>10 DEF Heads
  <2>2. \A c \in Heads(h.size) : f.state[c] = h.state[c]
    BY <2>1, <1>1, <1>8, <1>12, RecordTypes
  <2>3. Vacant(f, X \cup {ret}) = {c \in Heads(h.size) : f.state[c] = "unallocated"} \ X
    <3>1. Heads(f.size) = Heads(h.size) \cup {ret} /\ ret \notin Heads(h.size)
      BY <1>10
    <3> HIDE DEF L
    <3> QED
      BY <3>1, Zenon DEF Vacant
  <2> QED
    BY <2>2, <2>3 DEF Vacant
<1>14. PICK rank, home : OnLists(h, L, rank, home) /\ Filed(h.size, L, home)
  BY <1>1, ListingElim
<1>15. OnLists(f, L, rank, home)
  BY <1>8, <1>12, <1>14, OnListsElsewhere
<1>16. /\ FiledAs(home[b], old) /\ Filed(f.size, L \ {b}, home)
  <2>1. \A c \in L \ {b} : f.size[c] = h.size[c]
    <3>1. L \subseteq Addr /\ ret \notin L
      BY <1>1, <1>10 DEF Heads
    <3> QED
      BY <3>1, <1>11
  <2> QED
    BY <1>14, <2>1 DEF Filed, old
<1>17. Relinked(f, g, L) /\ Listing(g, L)
  <2>1. b \in L /\ f.size[b] >= MIN /\ old \in Nat /\ old >= MIN
    BY <1>2, <1>3, <1>11, HeaderWords, SMT DEF old
  <2> QED
    BY <2>1, <1>5, <1>12, <1>15, <1>16, MoveList
<1>18. /\ g \in HeapRecord /\ g.size = f.size /\ g.left = f.left /\ g.state = f.state
       /\ g.wild = f.wild /\ \A a \in Addr \ L : g.next[a] = f.next[a]
  BY <1>17 DEF Relinked
<1>19. Vacant(g, X \cup {ret}) = L
  BY <1>13, <1>18 DEF Vacant
<1> HIDE DEF L
<1>20. \A a \in L : a + g.size[a] \notin L
  <2> TAKE a \in L
  <2>1. CASE a = b
    <3>1. b + g.size[b] = ret
      BY <1>2, <1>3, <1>11, <1>18, SMT
    <3> QED
      BY <2>1, <3>1, <1>1, <1>10
  <2>2. CASE a # b
    <3>1. g.size[a] = h.size[a]
      <4>1. a \in Addr \ {b, ret}
        BY <2>2, <1>1, <1>10 DEF Heads
      <4> QED
        BY <4>1, <1>11, <1>18
    <3> QED
      BY <3>1, SoundParts DEF L
  <2> QED
    BY <2>1, <2>2
<1>21. \A a \in Addr \ (L \cup (X \cup {ret})) : g.next[a] = NULL
  BY <1>8, <1>18, SoundParts DEF L
<1>22. Sound(g, F, E, X \cup {ret}, end)
  <2>1. X \cup {ret} \subseteq Heads(g.size) \ (F \cup E)
    BY <1>10, <1>18, SoundParts
  <2>2. \A a \in F \cup E : g.state[a] = "fencepost"
    <3>1. \A a \in F \cup E : h.state[a] = "fencepost" /\ a \in Heads(h.size) /\ a \in Addr
      BY SoundParts DEF Heads
    <3>2. \A c \in Addr \ {ret} : g.state[c] = h.state[c]
      BY <1>1, <1>8, <1>12, <1>18, RecordTypes
    <3>3. \A a \in F \cup E : a # ret
      BY <3>1, <1>10
    <3> QED
      BY <3>1, <3>2, <3>3, Zenon
  <2>3. \A a \in Heads(g.size) \ (F \cup E \cup (X \cup {ret})) : g.state[a] # "fencepost"
    <3>1. \A a \in Heads(h.size) \ (F \cup E \cup X) : h.state[a] # "fencepost" /\ a \in Addr
      BY DEF Sound, Heads
    <3> QED
      <4> TAKE a \in Heads(g.size) \ (F \cup E \cup (X \cup {ret}))
      <4>1. a \in Heads(h.size) \ (F \cup E \cup X) /\ a # ret
        BY <1>10, <1>18
      <4>2. a \in Addr \ {ret} /\ h.state[a] # "fencepost"
        BY <3>1, <4>1
      <4>3. g.state[a] = h.state[a]
        BY <4>2, <1>1, <1>8, <1>12, <1>18, RecordTypes
      <4> QED
        BY <4>2, <4>3, Zenon
  <2>4. ~g.wild
    BY <1>1, <1>8, <1>18
  <2> QED
    BY <2>1, <2>2, <2>3, <2>4, <1>10, <1>17, <1>18, <1>19, <1>20, <1>21 DEF Sound, RightOf
<1>23. Kept(h, g, Heads(h.size) \ {b})
  <2>1. \A c \in Heads(h.size) \ {b} : c \in Addr \ {b, ret}
    BY <1>10 DEF Heads
  <2> QED
    BY <2>1, <1>10, <1>11, <1>18 DEF Kept
<1> QED
  BY <1>10, <1>11, <1>18, <1>22, <1>23 DEF SplitDone

(* my_malloc marks the block. *)
MarkDone(h, F, E, X, end, b, g) ==
  /\ Sound(g, F, E, X \ {b}, end)
  /\ g.size = h.size /\ g.state = [h.state EXCEPT ![b] = "allocated"]
  /\ \A n \in Node \ {b} : g.next[n] = h.next[n]

LEMMA MarkSound ==
  ASSUME NEW h, NEW F, NEW E, NEW X, NEW end \in Int, Sound(h, F, E, X, end),
         NEW b \in X,
         NEW g, g = [h EXCEPT !.state[b] = "allocated", !.next[b] = NULL, !.prev[b] = NULL]
  PROVE  MarkDone(h, F, E, X, end, b, g)
<1> DEFINE L == Vacant(h, X)
<1>1. /\ h \in HeapRecord /\ ~h.wild /\ Tags(h.size, h.left, F, E, end) /\ Listing(h, L)
      /\ L \subseteq Heads(h.size) \ (F \cup E \cup X) /\ L \subseteq Addr
      /\ b \in Heads(h.size) \ (F \cup E) /\ b \in Addr /\ b \in Node /\ b \notin Sentinels
  BY SoundParts, SentinelFacts
<1>2. /\ g.size = h.size /\ g.left = h.left /\ g.bits = h.bits /\ g.wild = h.wild
      /\ g.state = [h.state EXCEPT ![b] = "allocated"]
      /\ g.next = [h.next EXCEPT ![b] = NULL] /\ g.prev = [h.prev EXCEPT ![b] = NULL]
      /\ g = [size |-> g.size, left |-> g.left, state |-> g.state, next |-> g.next,
              prev |-> g.prev, bits |-> g.bits, wild |-> g.wild]
  BY <1>1 DEF HeapRecord
<1>3. g \in HeapRecord
  <2>1. /\ g.state \in [Addr -> BlockState] /\ g.next \in [Node -> Node \cup {NULL}]
        /\ g.prev \in [Node -> Node \cup {NULL}]
    BY <1>1, <1>2, RecordTypes DEF BlockState
  <2> QED
    BY <2>1, <1>1, <1>2, RecordTypes DEF HeapRecord
<1>4. g.state[b] = "allocated" /\ \A a \in Addr \ {b} : g.state[a] = h.state[a]
  BY <1>1, <1>2, RecordTypes
<1>5. Vacant(g, X \ {b}) = L
  <2>1. Heads(h.size) \subseteq Addr
    BY DEF Heads
  <2> QED
    BY <2>1, <1>2, <1>4 DEF Vacant
<1>6. Listing(g, L)
  <2>1. PICK rank, home : OnLists(h, L, rank, home) /\ Filed(h.size, L, home)
    BY <1>1, ListingElim
  <2>2. \A x \in L \cup Sentinels : g.next[x] = h.next[x] /\ g.prev[x] = h.prev[x]
    BY <1>1, <1>2, SentinelFacts, RecordTypes
  <2>3. g.bits = h.bits
    BY <1>2
  <2>4. OnLists(g, L, rank, home)
    BY <2>1, <2>2, <2>3, <1>3, OnListsElsewhere
  <2>5. g.size = h.size
    BY <1>2
  <2> QED
    BY <2>1, <2>4, <2>5, ListingIntro
<1> HIDE DEF L
<1>7. \A a \in L : a + g.size[a] \notin L
  BY <1>2, SoundParts DEF L
<1>8. \A a \in Addr \ (L \cup (X \ {b})) : g.next[a] = NULL
  BY <1>1, <1>2, SoundParts, RecordTypes DEF L
<1>9. Sound(g, F, E, X \ {b}, end)
  <2>1. X \ {b} \subseteq Heads(g.size) \ (F \cup E)
    BY <1>2, SoundParts
  <2>2. \A a \in F \cup E : g.state[a] = "fencepost"
    <3>1. \A a \in F \cup E : h.state[a] = "fencepost" /\ a \in Heads(h.size) /\ a \in Addr
      BY SoundParts DEF Heads
    <3> QED
      BY <3>1, <1>1, <1>4
  <2>3. \A a \in Heads(g.size) \ (F \cup E \cup (X \ {b})) : g.state[a] # "fencepost"
    <3>1. \A a \in Heads(h.size) \ (F \cup E \cup X) : h.state[a] # "fencepost" /\ a \in Addr
      BY DEF Sound, Heads
    <3> QED
      BY <3>1, <1>2, <1>4
  <2>4. /\ g \in HeapRecord /\ ~g.wild /\ Tags(g.size, g.left, F, E, end)
        /\ \A a \in Vacant(g, X \ {b}) : RightOf(g, a) \notin Vacant(g, X \ {b})
    BY <1>1, <1>2, <1>3, <1>5, <1>7 DEF RightOf
  <2>5. /\ \A a \in Addr \ (Vacant(g, X \ {b}) \cup (X \ {b})) : g.next[a] = NULL
        /\ Listing(g, Vacant(g, X \ {b}))
    BY <1>5, <1>6, <1>8
  <2> QED
    BY <2>1, <2>2, <2>3, <2>4, <2>5, Zenon DEF Sound
<1>10. \A n \in Node \ {b} : g.next[n] = h.next[n]
  BY <1>1, <1>2, RecordTypes
<1> QED
  BY <1>2, <1>9, <1>10 DEF MarkDone

(* deallocate_object takes the block from the client. *)
UnmarkDone(h, F, E, end, b, g) ==
  /\ Sound(g, F, E, {b}, end) /\ g.size = h.size
  /\ g.state = [h.state EXCEPT ![b] = "unallocated"]

LEMMA UnmarkSound ==
  ASSUME NEW h, NEW F, NEW E, NEW end \in Int, Sound(h, F, E, {}, end),
         NEW b \in Heads(h.size) \ (F \cup E), h.state[b] = "allocated",
         NEW g, g = [h EXCEPT !.state[b] = "unallocated"]
  PROVE  UnmarkDone(h, F, E, end, b, g)
<1> DEFINE L == Vacant(h, {})
<1>1. /\ h \in HeapRecord /\ ~h.wild /\ Tags(h.size, h.left, F, E, end) /\ Listing(h, L)
      /\ L \subseteq Addr /\ b \in Addr /\ b \notin L
  BY SoundParts DEF Heads
<1>2. /\ g.size = h.size /\ g.left = h.left /\ g.bits = h.bits /\ g.wild = h.wild
      /\ g.state = [h.state EXCEPT ![b] = "unallocated"]
      /\ g.next = h.next /\ g.prev = h.prev
      /\ g = [size |-> g.size, left |-> g.left, state |-> g.state, next |-> g.next,
              prev |-> g.prev, bits |-> g.bits, wild |-> g.wild]
  BY <1>1 DEF HeapRecord
<1>3. g \in HeapRecord
  <2>1. g.state \in [Addr -> BlockState]
    <3>1. h.state \in [Addr -> BlockState] /\ "unallocated" \in BlockState
      BY <1>1, RecordTypes DEF BlockState
    <3> QED
      BY <1>2, <3>1, Zenon
  <2> QED
    BY <2>1, <1>1, <1>2, RecordTypes DEF HeapRecord
<1>4. \A a \in Addr \ {b} : g.state[a] = h.state[a]
  BY <1>1, <1>2, RecordTypes
<1>5. Vacant(g, {b}) = L
  <2>1. Heads(h.size) \subseteq Addr
    BY DEF Heads
  <2> QED
    BY <2>1, <1>1, <1>2, <1>4 DEF Vacant
<1>6. Listing(g, L)
  <2>1. PICK rank, home : OnLists(h, L, rank, home) /\ Filed(h.size, L, home)
    BY <1>1, ListingElim
  <2>2. OnLists(g, L, rank, home)
    BY <2>1, <1>2, <1>3, OnListsElsewhere
  <2> QED
    BY <2>1, <2>2, <1>2, ListingIntro
<1> HIDE DEF L
<1>7. \A a \in L : a + g.size[a] \notin L
  BY <1>2, SoundParts DEF L
<1>8. \A a \in Addr \ (L \cup {b}) : g.next[a] = NULL
  BY <1>2, SoundParts DEF L
<1>9. Sound(g, F, E, {b}, end)
  <2>1. \A a \in F \cup E : g.state[a] = "fencepost"
    <3>1. \A a \in F \cup E : h.state[a] = "fencepost" /\ a \in Heads(h.size) /\ a \in Addr
      BY SoundParts DEF Heads
    <3> QED
      BY <3>1, <1>4
  <2>2. \A a \in Heads(g.size) \ (F \cup E \cup {b}) : g.state[a] # "fencepost"
    <3>1. \A a \in Heads(h.size) \ (F \cup E) : h.state[a] # "fencepost" /\ a \in Addr
      BY DEF Sound, Heads
    <3> QED
      BY <3>1, <1>2, <1>4
  <2>3. /\ {b} \subseteq Heads(g.size) \ (F \cup E) /\ ~g.wild
        /\ Tags(g.size, g.left, F, E, end)
    BY <1>1, <1>2
  <2> QED
    BY <2>1, <2>2, <2>3, <1>3, <1>5, <1>6, <1>7, <1>8 DEF Sound, RightOf
<1> QED
  BY <1>2, <1>9 DEF UnmarkDone

(* The record after b has been merged into its left neighbour a. *)
Merged(h, a, b) ==
  LET sum == h.size[a] + h.size[b]
  IN [Forget(h, b) EXCEPT !.size[a] = sum, !.left[b + h.size[b]] = sum]

MergeDone(h, F, E, end, a, b, f) ==
  /\ f \in HeapRecord /\ f.state = h.state /\ f.bits = h.bits /\ f.wild = h.wild
  /\ f.next = [h.next EXCEPT ![b] = NULL] /\ f.prev = [h.prev EXCEPT ![b] = NULL]
  /\ Tags(f.size, f.left, F, E, end)
  /\ Heads(f.size) = Heads(h.size) \ {b} /\ Cover(f.size) = Cover(h.size)
  /\ f.size[a] = h.size[a] + h.size[b]
  /\ \A x \in Addr \ {a, b} : f.size[x] = h.size[x]

LEMMA MergeFields ==
  ASSUME NEW h \in HeapRecord, NEW F, NEW E, NEW end \in Int, end <= HeapLimit,
         Tags(h.size, h.left, F, E, end),
         NEW a \in Heads(h.size) \ (F \cup E), NEW b \in Heads(h.size) \ (F \cup E),
         b = a + h.size[a]
  PROVE  MergeDone(h, F, E, end, a, b, Merged(h, a, b))
<1> DEFINE f == Merged(h, a, b)
<1> DEFINE sum == h.size[a] + h.size[b]
           e == b + h.size[b]
<1>1. /\ a \in Addr /\ b \in Addr /\ e \in Addr /\ a \in Nat /\ b \in Nat
      /\ h.size[a] \in Nat /\ h.size[b] \in Nat /\ h.size[a] >= 4 /\ h.size[b] >= 4
  <2>1. a \in Addr /\ a \in Nat /\ h.size[a] \in Nat /\ h.size[a] >= 4
    BY BlockTags DEF HeapRecord
  <2>2. /\ b \in Addr /\ b \in Nat /\ h.size[b] \in Nat /\ h.size[b] >= 4
        /\ b + h.size[b] \in Addr
    <3> HIDE DEF f, sum, e
    <3> QED
      BY BlockTags
  <2> QED
    BY <2>1, <2>2
<1>2. a # b /\ b # e /\ sum \in Int
  BY <1>1, SMT
<1>3. f = [Forget(h, b) EXCEPT !.size[a] = sum, !.left[e] = sum]
  BY DEF Merged
<1> HIDE DEF sum, e, f
<1>4. /\ f.size = [h.size EXCEPT ![b] = 0, ![a] = sum]
      /\ f.left = [h.left EXCEPT ![b] = 0, ![e] = sum]
      /\ f.next = [h.next EXCEPT ![b] = NULL] /\ f.prev = [h.prev EXCEPT ![b] = NULL]
      /\ f.state = h.state /\ f.bits = h.bits /\ f.wild = h.wild
      /\ f = [size |-> f.size, left |-> f.left, state |-> f.state, next |-> f.next,
              prev |-> f.prev, bits |-> f.bits, wild |-> f.wild]
  BY <1>3 DEF Forget, HeapRecord
<1>5. IsMerge(h.size, h.left, a, b, f.size, f.left)
  <2>1. h.size \in [Addr -> Int] /\ h.left \in [Addr -> Int]
    <3>1. 0 .. HeapLimit \subseteq Int
      BY SMT
    <3> QED
      BY <3>1, RecordTypes, Zenon
  <2>2. 0 \in Int
    BY SMT
  <2> QED
    BY <1>1, <1>2, <1>4, <2>1, <2>2 DEF IsMerge, sum, e
<1>6. /\ Heads(f.size) = Heads(h.size) \ {b} /\ Tags(f.size, f.left, F, E, end)
      /\ Cover(f.size) = Cover(h.size)
  BY <1>5, MergeTags
<1>7. f \in HeapRecord
  <2>1. f.next \in [Node -> Node \cup {NULL}] /\ f.prev \in [Node -> Node \cup {NULL}]
    BY <1>1, <1>4, SentinelFacts, RecordTypes
  <2>2. f.size \in [Addr -> 0 .. HeapLimit] /\ f.left \in [Addr -> 0 .. HeapLimit]
    BY <1>6, TagTypes
  <2> QED
    BY <1>4, <2>1, <2>2, RecordTypes DEF HeapRecord
<1>8. f.size[a] = sum /\ \A x \in Addr \ {a, b} : f.size[x] = h.size[x]
  BY <1>5, <1>1 DEF IsMerge, sum
<1> QED
  BY <1>4, <1>6, <1>7, <1>8 DEF sum, f, MergeDone

(* A free left neighbour takes b in. *)
LEMMA CoalesceLeftSound ==
  ASSUME NEW h, NEW F, NEW E, NEW X, NEW end \in Int, Sound(h, F, E, X, end), end <= HeapLimit,
         NEW b \in X, NEW l, l = LeftOf(h, b), NEW r, r = RightOf(h, b),
         l \in Vacant(h, X), r \notin Vacant(h, X),
         NEW g, g = CoalesceLeft(h, l, b, r)
  PROVE  /\ Sound(g, F, E, X \ {b}, end) /\ g.state = h.state
         /\ Kept(h, g, Heads(h.size) \ {l, b})
         /\ Cover(g.size) = Cover(h.size)
<1> DEFINE L == Vacant(h, X)
           f == Merged(h, l, b)
           old == h.size[l]
<1>1. /\ h \in HeapRecord /\ ~h.wild /\ Tags(h.size, h.left, F, E, end) /\ Listing(h, L)
      /\ L \subseteq Heads(h.size) \ (F \cup E \cup X) /\ L \subseteq Addr
      /\ b \in Heads(h.size) \ (F \cup E) /\ b \in Addr /\ b \notin L
      /\ l \in Heads(h.size) \ (F \cup E) /\ l \in L /\ l # b
      /\ b \notin L \cup Sentinels /\ b \in Node
  BY SoundParts, SentinelFacts
<1>2. /\ b \in Nat /\ h.size[b] \in Nat /\ h.size[b] >= 4
      /\ l \in Nat /\ old \in Nat /\ old >= 4
      /\ old = h.left[b]
  BY <1>1, BlockTags DEF LeftOf
<1>3. b = l + h.size[l] /\ r = b + h.size[b]
  BY <1>2, SMT DEF LeftOf, RightOf
<1>4. g = MoveCoalesced(f, l, old)
  BY <1>3 DEF CoalesceLeft, Merged
<1>5. /\ f \in HeapRecord /\ f.state = h.state /\ f.bits = h.bits /\ f.wild = h.wild
      /\ f.next = [h.next EXCEPT ![b] = NULL] /\ f.prev = [h.prev EXCEPT ![b] = NULL]
      /\ Tags(f.size, f.left, F, E, end)
      /\ Heads(f.size) = Heads(h.size) \ {b} /\ Cover(f.size) = Cover(h.size)
      /\ f.size[l] = h.size[l] + h.size[b]
      /\ \A x \in Addr \ {l, b} : f.size[x] = h.size[x]
  <2>1. MergeDone(h, F, E, end, l, b, f)
    BY <1>1, <1>3, MergeFields
  <2> HIDE DEF f
  <2> QED
    BY <2>1 DEF MergeDone
<1> HIDE DEF f, old
<1>6. PICK rank, home : OnLists(h, L, rank, home) /\ Filed(h.size, L, home)
  BY <1>1, ListingElim
<1>7. f.next[b] = NULL /\ \A x \in Node \ {b} : f.next[x] = h.next[x] /\ f.prev[x] = h.prev[x]
  BY <1>1, <1>5, RecordTypes
<1>8. OnLists(f, L, rank, home)
  <2>1. \A x \in L \cup Sentinels : f.next[x] = h.next[x] /\ f.prev[x] = h.prev[x]
    BY <1>1, <1>7, SentinelFacts
  <2>2. f \in HeapRecord /\ f.bits = h.bits
    BY <1>5
  <2> QED
    BY <2>1, <2>2, <1>6, OnListsElsewhere
<1>9. FiledAs(home[l], old) /\ Filed(f.size, L \ {l}, home)
  <2>1. \A c \in L \ {l} : f.size[c] = h.size[c]
    BY <1>1, <1>5
  <2> QED
    BY <1>1, <1>6, <2>1 DEF Filed, old
<1>10. f.size[l] >= MIN /\ old >= MIN
  BY <1>2, <1>5, HeaderWords, SMT DEF old
<1>11. Relinked(f, g, L) /\ Listing(g, L)
  BY <1>1, <1>2, <1>4, <1>5, <1>8, <1>9, <1>10, MoveList
<1>12. /\ g \in HeapRecord /\ g.size = f.size /\ g.left = f.left /\ g.state = h.state
       /\ ~g.wild /\ \A a \in Addr \ L : g.next[a] = f.next[a]
  BY <1>1, <1>5, <1>11 DEF Relinked
<1>13. Vacant(g, X \ {b}) = L
  BY <1>1, <1>5, <1>12 DEF Vacant
<1> HIDE DEF L
<1>14. \A a \in L : a + g.size[a] \notin L
  <2> TAKE a \in L
  <2>1. CASE a = l
    <3>1. l + g.size[l] = r
      <4>1. g.size[l] = h.size[l] + h.size[b]
        BY <1>5, <1>12
      <4> QED
        BY <1>2, <1>3, <4>1, SMT DEF old
    <3> QED
      BY <2>1, <3>1 DEF L
  <2>2. CASE a # l
    <3>1. g.size[a] = h.size[a]
      BY <2>2, <1>1, <1>5, <1>12
    <3> QED
      BY <3>1, SoundParts DEF L
  <2> QED
    BY <2>1, <2>2
<1>15. \A a \in Addr \ (L \cup (X \ {b})) : g.next[a] = NULL
  <2> TAKE a \in Addr \ (L \cup (X \ {b}))
  <2>1. g.next[a] = f.next[a] /\ a \in Node
    BY <1>12, SentinelFacts
  <2>2. a # b => h.next[a] = NULL
    BY SoundParts DEF L
  <2> QED
    BY <2>1, <2>2, <1>7
<1>16. Sound(g, F, E, X \ {b}, end)
  <2>1. X \ {b} \subseteq Heads(g.size) \ (F \cup E)
    BY <1>5, <1>12, SoundParts
  <2>2. \A a \in F \cup E : g.state[a] = "fencepost"
    BY <1>12, SoundParts
  <2>3. \A a \in Heads(g.size) \ (F \cup E \cup (X \ {b})) : g.state[a] # "fencepost"
    BY <1>5, <1>12 DEF Sound
  <2>4. Tags(g.size, g.left, F, E, end)
    BY <1>5, <1>12
  <2> QED
    BY <2>1, <2>2, <2>3, <2>4, <1>11, <1>12, <1>13, <1>14, <1>15 DEF Sound, RightOf
<1>17. Kept(h, g, Heads(h.size) \ {l, b})
  <2>1. \A c \in Heads(h.size) \ {l, b} : c \in Addr \ {l, b}
    BY DEF Heads
  <2> QED
    BY <2>1, <1>5, <1>12 DEF Kept
<1> QED
  BY <1>5, <1>12, <1>16, <1>17

(* On k's lists b stands where r stood on those of `home'. *)
Replaced(k, L, home, b, r) ==
  \E rk, hm : /\ OnLists(k, (L \ {r}) \cup {b}, rk, hm)
              /\ hm[b] = home[r] /\ \A x \in L \ {r} : hm[x] = home[x]

(* coalesce_right_block gives b the links of its free right neighbour r. *)
LEMMA ReplaceLinked ==
  ASSUME NEW h \in HeapRecord, NEW L, NEW rank, NEW home, OnLists(h, L, rank, home),
         NEW b \in Addr \ L, NEW r \in L, NEW f \in HeapRecord,
         f.next = [h.next EXCEPT ![r] = NULL], f.prev = [h.prev EXCEPT ![r] = NULL],
         f.bits = h.bits
  PROVE  Replaced(FreelistInsertBetween(f, b, h.prev[r], h.next[r]), L, home, b, r)
<1> DEFINE n == h.next[r]
           p == h.prev[r]
           g == FreelistInsertBetween(f, b, p, n)
           M == L \ {r}
           nx0 == [h.next EXCEPT ![p] = n]
           pv0 == [h.prev EXCEPT ![n] = p]
           nx1 == [nx0 EXCEPT ![b] = nx0[p], ![p] = b]
           pv1 == [pv0 EXCEPT ![b] = p, ![nx0[p]] = b]
           rk == [rank EXCEPT ![b] = rank[r]]
           hm == [home EXCEPT ![b] = home[p]]
<1>1. /\ Linked(h.next, h.prev, L, rank, home) /\ BitsTrack(h.next, h.bits)
      /\ rank \in [Addr -> Nat] /\ home \in [Node -> ListIndex]
      /\ L \subseteq Addr /\ b \in Node /\ b \notin L \cup Sentinels
  BY SentinelFacts DEF OnLists, Linked
<1>2. /\ r \in Addr /\ r \in Node /\ L \cap Sentinels = {}
      /\ n \in L \cup Sentinels /\ p \in L \cup Sentinels
      /\ n \in Node /\ p \in Node /\ n # r /\ p # r
      /\ h.next[p] = r /\ h.prev[n] = r
  BY <1>1, Neighbours
<1>3. Linked(nx0, pv0, M, rank, home)
  BY <1>1, RemoveLinked
<1>4. nx0[p] = n
  BY <1>2, RecordTypes
<1>5. home[r] = home[p]
  BY <1>1, <1>2 DEF Linked
<1>6. Ranked(nx0, M, rank, home, b, p, rk, hm)
  <2>1. /\ rk \in [Addr -> Nat] /\ hm \in [Node -> ListIndex]
        /\ rk[b] = rank[r] /\ hm[b] = home[p]
        /\ \A x \in M : rk[x] = rank[x]
        /\ \A x \in M \cup Sentinels : hm[x] = home[x]
    BY <1>1, <1>2, SentinelFacts
  <2>2. p \in M => rank[p] < rank[r]
    BY <1>1, <1>2 DEF Linked
  <2>3. n \in M => rank[r] < rank[n]
    BY <1>1, <1>2 DEF Linked
  <2> HIDE DEF rk, hm
  <2> QED
    BY <2>1, <2>2, <2>3, <1>4 DEF Ranked
<1>7. Linked(nx1, pv1, M \cup {b}, rk, hm)
  <2>1. b \in Addr \ M /\ p \in M \cup Sentinels
    BY <1>2
  <2>2. Inserted(nx0, pv0, b, p, nx1, pv1)
    BY DEF Inserted
  <2> HIDE DEF nx0, pv0, nx1, pv1, rk, hm, M, p
  <2> QED
    BY <1>3, <1>6, <2>1, <2>2, InsertLinked
<1>8. /\ g \in HeapRecord /\ g.bits = h.bits
      /\ g.next = [f.next EXCEPT ![b] = n, ![p] = b]
      /\ g.prev = [f.prev EXCEPT ![b] = p, ![n] = b]
  <2>1. n \in Node /\ p \in Node /\ b \in Addr /\ g = FreelistInsertBetween(f, b, p, n)
    BY <1>2
  <2> HIDE DEF n, p, g, nx0, pv0, nx1, pv1, rk, hm, M
  <2>2. Between(f, b, p, n, g)
    BY <2>1, BetweenFields
  <2> QED
    BY <2>2 DEF Between
<1> HIDE DEF g
<1>9. \A x \in M \cup {b} \cup Sentinels : g.next[x] = nx1[x] /\ g.prev[x] = pv1[x]
  <2> TAKE x \in M \cup {b} \cup Sentinels
  <2>1. x \in Node /\ (x = b \/ x # r)
    BY <1>1, SentinelFacts
  <2>2. h.next \in [Node -> Node \cup {NULL}] /\ h.prev \in [Node -> Node \cup {NULL}]
    BY RecordTypes
  <2>3. g.next[x] = IF x = p THEN b ELSE IF x = b THEN n ELSE h.next[x]
    BY <1>1, <1>2, <1>8, <2>1, <2>2
  <2>4. g.prev[x] = IF x = n THEN b ELSE IF x = b THEN p ELSE h.prev[x]
    BY <1>1, <1>2, <1>8, <2>1, <2>2
  <2>5. nx1[x] = IF x = p THEN b ELSE IF x = b THEN n ELSE h.next[x]
    BY <1>1, <1>2, <1>4, <2>1, <2>2
  <2>6. pv1[x] = IF x = n THEN b ELSE IF x = b THEN p ELSE h.prev[x]
    BY <1>1, <1>2, <1>4, <2>1, <2>2
  <2> QED
    BY <2>3, <2>4, <2>5, <2>6
<1>10. Linked(g.next, g.prev, M \cup {b}, rk, hm)
  <2>1. g.next \in [Node -> Node \cup {NULL}] /\ g.prev \in [Node -> Node \cup {NULL}]
    BY <1>8, RecordTypes
  <2> HIDE DEF nx1, pv1, rk, hm, M
  <2> QED
    BY <2>1, <1>7, <1>9, LinkedElsewhere
<1>11. BitsTrack(g.next, g.bits)
  <2>1. \A i \in ListIndex : f.next[Sentinel(i)] = h.next[Sentinel(i)]
    BY <1>2, SentinelFacts, RecordTypes
  <2>2. BitsTrack(f.next, h.bits)
    BY <1>1, <2>1 DEF BitsTrack
  <2>3. /\ h.bits \in SUBSET ListIndex /\ f.next \in [Node -> Node \cup {NULL}]
        /\ \A i \in ListIndex : i \in h.bits \ h.bits => p = Sentinel(i)
    BY RecordTypes
  <2>4. \A i \in ListIndex : p = Sentinel(i) => i \in h.bits
    BY <1>1, <1>2 DEF BitsTrack
  <2>5. /\ b \in Addr /\ p \in Node /\ n \in Node /\ g.bits = h.bits
        /\ g.next = [f.next EXCEPT ![b] = n, ![p] = b]
    BY <1>2, <1>8
  <2> HIDE DEF n, p, nx0, pv0, nx1, pv1, rk, hm, M
  <2> QED
    BY <2>2, <2>3, <2>4, <2>5, InsertTracked
<1>12. hm[b] = home[r] /\ \A x \in M : hm[x] = home[x]
  BY <1>1, <1>5, SentinelFacts
<1> QED
  <2> HIDE DEF rk, hm
  <2> QED
    BY <1>10, <1>11, <1>12 DEF OnLists, Replaced, g

LEMMA CoalesceRightSound ==
  ASSUME NEW h, NEW F, NEW E, NEW X, NEW end \in Int, Sound(h, F, E, X, end), end <= HeapLimit,
         NEW b \in X, h.state[b] = "unallocated",
         LeftOf(h, b) \notin Vacant(h, X), NEW r, r = RightOf(h, b), r \in Vacant(h, X),
         NEW g, g = CoalesceRight(h, b, r)
  PROVE  /\ Sound(g, F, E, X \ {b}, end) /\ g.state = h.state
         /\ Kept(h, g, Heads(h.size) \ {b, r})
         /\ Cover(g.size) = Cover(h.size)
<1> DEFINE L == Vacant(h, X)
           f == Merged(h, b, r)
           k == FreelistInsertBetween(f, b, h.prev[r], h.next[r])
           old == h.size[r]
           N == (L \ {r}) \cup {b}
<1>1. /\ h \in HeapRecord /\ ~h.wild /\ Tags(h.size, h.left, F, E, end) /\ Listing(h, L)
      /\ L \subseteq Heads(h.size) \ (F \cup E \cup X) /\ L \subseteq Addr
      /\ b \in Heads(h.size) \ (F \cup E) /\ b \in Addr /\ b \notin L
      /\ r \in Heads(h.size) \ (F \cup E) /\ r \in L /\ r # b
  BY SoundParts
<1>2. /\ b \in Nat /\ h.size[b] \in Nat /\ h.size[b] >= 4
      /\ r \in Nat /\ old \in Nat /\ old >= 4 /\ r \in Addr
  BY <1>1, BlockTags
<1>3. r = b + h.size[b]
  BY DEF RightOf
<1>4. PICK rank, home : OnLists(h, L, rank, home) /\ Filed(h.size, L, home)
  BY <1>1, ListingElim
<1>5. h.next[r] # NULL /\ h.prev[r] # NULL /\ h.next[r] \in Node /\ h.prev[r] \in Node
  BY <1>1, <1>4, Neighbours DEF OnLists
<1>6. g = MoveCoalesced(k, b, old)
  BY <1>5 DEF CoalesceRight, Merged, RightOf
<1>7. MergeDone(h, F, E, end, b, r, f)
  BY <1>1, <1>3, MergeFields
<1> HIDE DEF f, old
<1>8. /\ f \in HeapRecord /\ f.state = h.state /\ f.bits = h.bits /\ f.wild = h.wild
      /\ f.next = [h.next EXCEPT ![r] = NULL] /\ f.prev = [h.prev EXCEPT ![r] = NULL]
      /\ Tags(f.size, f.left, F, E, end)
      /\ Heads(f.size) = Heads(h.size) \ {r} /\ Cover(f.size) = Cover(h.size)
      /\ f.size[b] = h.size[b] + h.size[r]
      /\ \A x \in Addr \ {b, r} : f.size[x] = h.size[x]
  BY <1>7 DEF MergeDone
<1>9. PICK rk, hm :
        /\ OnLists(k, N, rk, hm)
        /\ hm[b] = home[r] /\ \A x \in L \ {r} : hm[x] = home[x]
  <2>1. b \in Addr \ L /\ r \in L /\ f \in HeapRecord /\ h \in HeapRecord
    BY <1>1, <1>8
  <2>2. /\ f.next = [h.next EXCEPT ![r] = NULL] /\ f.prev = [h.prev EXCEPT ![r] = NULL]
        /\ f.bits = h.bits
    BY <1>8
  <2>3. OnLists(h, L, rank, home)
    BY <1>4
  <2> HIDE DEF L
  <2>4. Replaced(k, L, home, b, r)
    BY <2>1, <2>2, <2>3, ReplaceLinked
  <2> HIDE DEF k
  <2> QED
    BY <2>4 DEF Replaced
<1>10. /\ k \in HeapRecord /\ k.size = f.size /\ k.left = f.left /\ k.state = h.state
       /\ k.wild = h.wild
       /\ k.next = [f.next EXCEPT ![b] = h.next[r], ![h.prev[r]] = b]
  <2> DEFINE n == h.next[r]
             p == h.prev[r]
  <2>1. n \in Node /\ p \in Node /\ b \in Addr /\ f \in HeapRecord
        /\ k = FreelistInsertBetween(f, b, p, n)
    BY <1>1, <1>5, <1>8
  <2> HIDE DEF n, p, k
  <2>2. Between(f, b, p, n, k)
    BY <2>1, BetweenFields
  <2> QED
    BY <2>2, <1>8 DEF Between, n, p
<1> HIDE DEF k
<1>11. FiledAs(hm[b], old) /\ Filed(k.size, N \ {b}, hm)
  <2>1. \A c \in L \ {r} : k.size[c] = h.size[c] /\ hm[c] = home[c]
    BY <1>1, <1>8, <1>9, <1>10
  <2> QED
    BY <1>1, <1>4, <1>9, <2>1 DEF Filed, old
<1>12. k.size[b] >= MIN /\ old >= MIN
  BY <1>2, <1>8, <1>10, HeaderWords, SMT DEF old
<1>13. Relinked(k, g, N) /\ Listing(g, N)
  <2>1. b \in N /\ k \in HeapRecord /\ old \in Nat
    BY <1>2, <1>10
  <2>2. OnLists(k, N, rk, hm)
    BY <1>9
  <2> HIDE DEF N, L
  <2> QED
    BY <2>1, <2>2, <1>6, <1>11, <1>12, MoveList
<1>14. /\ g \in HeapRecord /\ g.size = f.size /\ g.left = f.left /\ g.state = h.state
       /\ ~g.wild /\ \A a \in Addr \ N : g.next[a] = k.next[a]
  BY <1>1, <1>8, <1>10, <1>13 DEF Relinked
<1>15. Vacant(g, X \ {b}) = N
  BY <1>1, <1>8, <1>14 DEF Vacant
<1> HIDE DEF L
<1>16. \A a \in N : a + g.size[a] \notin N
  <2> TAKE a \in N
  <2>1. CASE a = b
    <3>1. b + g.size[b] = r + h.size[r]
      BY <1>2, <1>3, <1>8, <1>14, SMT DEF old
    <3>2. r + h.size[r] \notin L /\ r + h.size[r] # b
      <4>1. r + h.size[r] \notin L
        BY <1>1, SoundParts DEF L
      <4>2. r + h.size[r] # b
        BY <1>2, <1>3, SMT DEF old
      <4> QED
        BY <4>1, <4>2
    <3> QED
      BY <2>1, <3>1, <3>2
  <2>2. CASE a # b
    <3>1. a \in L /\ a # r /\ g.size[a] = h.size[a]
      BY <2>2, <1>1, <1>8, <1>14
    <3>2. a + h.size[a] \notin L
      BY <3>1, SoundParts DEF L
    <3>3. a + h.size[a] # b
      <4> SUFFICES ASSUME a + h.size[a] = b PROVE FALSE
        OBVIOUS
      <4>1. a \in Heads(h.size) \ (F \cup E)
        BY <3>1, <1>1
      <4>2. h.left[b] = h.size[a] /\ a \in Nat /\ h.size[a] \in Nat
        BY <4>1, <1>1, BlockTags
      <4>3. b - h.left[b] = a
        BY <4>2, SMT
      <4> QED
        BY <3>1, <4>3 DEF LeftOf, L
    <3> QED
      BY <3>1, <3>2, <3>3
  <2> QED
    BY <2>1, <2>2
<1>17. \A a \in Addr \ (N \cup (X \ {b})) : g.next[a] = NULL
  <2> TAKE a \in Addr \ (N \cup (X \ {b}))
  <2>1. g.next[a] = k.next[a] /\ a \in Node /\ a # b
    BY <1>14, SentinelFacts
  <2>2. a # h.prev[r]
    <3>1. h.prev[r] \in L \cup Sentinels /\ h.prev[r] # r
      BY <1>1, <1>4, Neighbours DEF OnLists
    <3> QED
      BY <3>1, SentinelFacts
  <2>3. k.next[a] = f.next[a]
    BY <1>1, <1>8, <1>10, <2>1, <2>2, RecordTypes
  <2>4. CASE a = r
    BY <1>2, <1>8, <2>1, <2>3, <2>4, RecordTypes
  <2>5. CASE a # r
    <3>1. h.next[a] = NULL
      BY <2>1, <2>5, SoundParts DEF L
    <3> QED
      BY <1>8, <2>1, <2>3, <2>5, <3>1, RecordTypes
  <2> QED
    BY <2>4, <2>5
<1>18. Sound(g, F, E, X \ {b}, end)
  <2>1. X \ {b} \subseteq Heads(g.size) \ (F \cup E)
    BY <1>1, <1>8, <1>14, SoundParts
  <2>2. \A a \in F \cup E : g.state[a] = "fencepost"
    BY <1>14, SoundParts
  <2>3. \A a \in Heads(g.size) \ (F \cup E \cup (X \ {b})) : g.state[a] # "fencepost"
    BY <1>8, <1>14 DEF Sound
  <2>4. Tags(g.size, g.left, F, E, end)
    BY <1>8, <1>14
  <2> HIDE DEF N
  <2> QED
    BY <2>1, <2>2, <2>3, <2>4, <1>13, <1>14, <1>15, <1>16, <1>17 DEF Sound, RightOf
<1>19. Kept(h, g, Heads(h.size) \ {b, r})
  <2>1. \A c \in Heads(h.size) \ {b, r} : c \in Addr \ {b, r}
    BY DEF Heads
  <2> QED
    BY <2>1, <1>8, <1>14 DEF Kept
<1> QED
  BY <1>8, <1>14, <1>18, <1>19

LEMMA BlockNumbers ==
  ASSUME NEW size, NEW left, NEW F, NEW E, NEW end \in Int,
         Tags(size, left, F, E, end), NEW b \in Heads(size) \ (F \cup E)
  PROVE  b \in Addr /\ b \in Nat /\ size[b] \in Nat /\ size[b] >= 4
BY BlockTags

(* The record after b and its right neighbour r have been merged into a. *)
MergeBothDone(h, F, E, end, a, b, r, size, left) ==
  /\ Tags(size, left, F, E, end)
  /\ Heads(size) = Heads(h.size) \ {b, r} /\ Cover(size) = Cover(h.size)
  /\ size[a] = h.size[a] + h.size[b] + h.size[r]
  /\ \A x \in Addr \ {a, b, r} : size[x] = h.size[x]

LEMMA MergeBothFields ==
  ASSUME NEW h \in HeapRecord, NEW F, NEW E, NEW end \in Int, end <= HeapLimit,
         Tags(h.size, h.left, F, E, end),
         NEW a \in Heads(h.size) \ (F \cup E), NEW b \in Heads(h.size) \ (F \cup E),
         NEW r \in Heads(h.size) \ (F \cup E),
         b = a + h.size[a], r = b + h.size[b],
         NEW sum, sum = h.size[a] + h.size[b] + h.size[r],
         NEW e, e = r + h.size[r],
         NEW sz, sz = [h.size EXCEPT ![a] = sum, ![r] = 0, ![b] = 0],
         NEW lf, lf = [h.left EXCEPT ![e] = sum, ![r] = 0, ![b] = 0]
  PROVE  MergeBothDone(h, F, E, end, a, b, r, sz, lf)
<1> DEFINE m == Merged(h, a, b)
           w == Merged(m, a, r)
<1>1. /\ a \in Addr /\ b \in Addr /\ r \in Addr /\ e \in Addr
      /\ a \in Nat /\ b \in Nat /\ r \in Nat
      /\ h.size[a] \in Nat /\ h.size[b] \in Nat /\ h.size[r] \in Nat
      /\ h.size[a] >= 4 /\ h.size[b] >= 4 /\ h.size[r] >= 4
  <2>1. a \in Addr /\ a \in Nat /\ h.size[a] \in Nat /\ h.size[a] >= 4
    BY BlockNumbers, Zenon
  <2>2. b \in Addr /\ b \in Nat /\ h.size[b] \in Nat /\ h.size[b] >= 4
    BY BlockTags
  <2>3. r \in Addr /\ r \in Nat /\ h.size[r] \in Nat /\ h.size[r] >= 4 /\ e \in Addr
    BY BlockTags
  <2> QED
    BY <2>1, <2>2, <2>3
<1>2. a # b /\ a # r /\ b # r /\ b # e /\ r # e /\ e # a
  BY <1>1, SMT
<1>3. MergeDone(h, F, E, end, a, b, m)
  BY MergeFields
<1>4. /\ m.size = [h.size EXCEPT ![b] = 0, ![a] = h.size[a] + h.size[b]]
      /\ m.left = [h.left EXCEPT ![b] = 0, ![b + h.size[b]] = h.size[a] + h.size[b]]
  BY DEF Merged, Forget, HeapRecord
<1>5. /\ w.size = [m.size EXCEPT ![r] = 0, ![a] = m.size[a] + m.size[r]]
      /\ w.left = [m.left EXCEPT ![r] = 0, ![r + m.size[r]] = m.size[a] + m.size[r]]
  <2>1. m \in HeapRecord
    BY <1>3 DEF MergeDone
  <2> HIDE DEF m
  <2> QED
    BY <2>1 DEF Merged, Forget, HeapRecord
<1> HIDE DEF m, w
<1>6. /\ m \in HeapRecord /\ Tags(m.size, m.left, F, E, end)
      /\ Heads(m.size) = Heads(h.size) \ {b} /\ Cover(m.size) = Cover(h.size)
      /\ m.size[a] = h.size[a] + h.size[b]
      /\ \A x \in Addr \ {a, b} : m.size[x] = h.size[x]
  BY <1>3 DEF MergeDone
<1>7. m.size[r] = h.size[r]
  BY <1>1, <1>2, <1>6
<1>8. MergeDone(m, F, E, end, a, r, w)
  <2>1. a \in Heads(m.size) \ (F \cup E) /\ r \in Heads(m.size) \ (F \cup E)
    BY <1>2, <1>6
  <2>2. r = a + m.size[a]
    BY <1>1, <1>6, SMT
  <2> QED
    BY <2>1, <2>2, <1>6, MergeFields DEF w
<1>9. /\ Tags(w.size, w.left, F, E, end)
      /\ Heads(w.size) = Heads(m.size) \ {r} /\ Cover(w.size) = Cover(m.size)
      /\ w.size[a] = m.size[a] + m.size[r]
      /\ \A x \in Addr \ {a, r} : w.size[x] = m.size[x]
  BY <1>8 DEF MergeDone
<1>10. sum = m.size[a] + m.size[r] /\ e = r + m.size[r]
  BY <1>6, <1>7
<1>11. sz = w.size /\ lf = w.left
  <2>1. h.size \in [Addr -> 0 .. HeapLimit] /\ h.left \in [Addr -> 0 .. HeapLimit]
    BY RecordTypes
  <2>2. w.size = [m.size EXCEPT ![r] = 0, ![a] = sum] /\ w.left = [m.left EXCEPT ![r] = 0, ![e] = sum]
    BY <1>5, <1>10
  <2>3. sz = w.size
    <3>1. DOMAIN sz = Addr /\ DOMAIN w.size = Addr
      BY <2>1, <2>2, <1>4
    <3>2. ASSUME NEW x \in Addr PROVE sz[x] = w.size[x]
      <4>1. sz[x] = IF x = b \/ x = r THEN 0 ELSE IF x = a THEN sum ELSE h.size[x]
        BY <2>1, <1>2
      <4>2. m.size[x] = IF x = a THEN h.size[a] + h.size[b] ELSE IF x = b THEN 0 ELSE h.size[x]
        BY <2>1, <1>4
      <4>3. w.size[x] = IF x = a THEN sum ELSE IF x = r THEN 0 ELSE m.size[x]
        BY <2>1, <2>2, <1>4
      <4> QED
        BY <4>1, <4>2, <4>3, <1>1, <1>2
    <3>3. w.size = [x \in Addr |-> w.size[x]]
      BY <2>1, <2>2, <1>4
    <3>4. sz = [x \in Addr |-> sz[x]]
      BY <2>1
    <3> QED
      BY <3>1, <3>2, <3>3, <3>4
  <2>4. lf = w.left
    <3>1. ASSUME NEW x \in Addr PROVE lf[x] = w.left[x]
      <4>1. lf[x] = IF x = b \/ x = r THEN 0 ELSE IF x = e THEN sum ELSE h.left[x]
        BY <2>1, <1>2
      <4>2. m.left[x] = IF x = r THEN h.size[a] + h.size[b] ELSE IF x = b THEN 0 ELSE h.left[x]
        BY <2>1, <1>1, <1>4
      <4>3. w.left[x] = IF x = e THEN sum ELSE IF x = r THEN 0 ELSE m.left[x]
        BY <2>1, <2>2, <1>4
      <4> QED
        BY <4>1, <4>2, <4>3, <1>1, <1>2
    <3>2. w.left = [x \in Addr |-> w.left[x]]
      BY <2>1, <2>2, <1>4
    <3>3. lf = [x \in Addr |-> lf[x]]
      BY <2>1
    <3> QED
      BY <3>1, <3>2, <3>3
  <2> QED
    BY <2>3, <2>4
<1>12. /\ Heads(sz) = Heads(h.size) \ {b, r} /\ Cover(sz) = Cover(h.size)
       /\ sz[a] = sum
  BY <1>6, <1>9, <1>10, <1>11
<1>13. \A x \in Addr \ {a, b, r} : sz[x] = h.size[x]
  BY <1>6, <1>9, <1>11
<1> QED
  BY <1>9, <1>11, <1>12, <1>13 DEF MergeBothDone

(* Both neighbours are free: b and the right one go to the left one. *)
LEMMA CoalesceBothSound ==
  ASSUME NEW h, NEW F, NEW E, NEW X, NEW end \in Int, Sound(h, F, E, X, end), end <= HeapLimit,
         NEW b \in X, NEW l, l = LeftOf(h, b), NEW r, r = RightOf(h, b),
         l \in Vacant(h, X), r \in Vacant(h, X),
         NEW g, g = CoalesceBoth(h, l, b, r)
  PROVE  /\ Sound(g, F, E, X \ {b}, end) /\ g.state = h.state
         /\ Kept(h, g, Heads(h.size) \ {l, b, r})
         /\ Cover(g.size) = Cover(h.size)
<1> DEFINE L == Vacant(h, X)
           old == h.size[l]
           sum == h.size[l] + h.size[b] + h.size[r]
           e == r + h.size[r]
           k == [h EXCEPT !.size[l] = sum, !.left[e] = sum]
           q == FreelistRemove(k, r)
           f == Forget(Forget(q, r), b)
           N == L \ {r}
           sz == [h.size EXCEPT ![l] = sum, ![r] = 0, ![b] = 0]
           lf == [h.left EXCEPT ![e] = sum, ![r] = 0, ![b] = 0]
<1>1. /\ h \in HeapRecord /\ ~h.wild /\ Tags(h.size, h.left, F, E, end) /\ Listing(h, L)
      /\ L \subseteq Heads(h.size) \ (F \cup E \cup X) /\ L \subseteq Addr
      /\ b \in Heads(h.size) \ (F \cup E) /\ b \in Addr /\ b \notin L
      /\ l \in Heads(h.size) \ (F \cup E) /\ l \in L /\ l # b
      /\ r \in Heads(h.size) \ (F \cup E) /\ r \in L /\ r # b
      /\ b \notin L \cup Sentinels /\ b \in Node /\ r \in Node /\ r \notin Sentinels
  BY SoundParts, SentinelFacts
<1>2. /\ b \in Nat /\ h.size[b] \in Nat /\ h.size[b] >= 4
      /\ l \in Nat /\ old \in Nat /\ old >= 4 /\ l \in Addr
      /\ r \in Nat /\ h.size[r] \in Nat /\ h.size[r] >= 4 /\ r \in Addr
      /\ e \in Addr /\ old = h.left[b]
  <2>1. b \in Nat /\ h.size[b] \in Nat /\ h.size[b] >= 4 /\ old = h.left[b]
    <3>1. /\ b \in Nat /\ h.size[b] \in Nat /\ h.size[b] >= 4
          /\ h.size[b - h.left[b]] = h.left[b]
      BY <1>1, BlockTags
    <3> QED
      BY <3>1 DEF LeftOf
  <2>2. l \in Nat /\ old \in Nat /\ old >= 4 /\ l \in Addr
    BY <1>1, BlockTags
  <2>3. /\ r \in Nat /\ h.size[r] \in Nat /\ h.size[r] >= 4 /\ r \in Addr /\ e \in Addr
    BY <1>1, BlockTags
  <2> QED
    BY <2>1, <2>2, <2>3
<1>3. b = l + h.size[l] /\ r = b + h.size[b] /\ l # r
  BY <1>2, SMT DEF LeftOf, RightOf
<1>4. g = MoveCoalesced(f, l, old)
  BY DEF CoalesceBoth, RightOf
<1>5. /\ Tags(sz, lf, F, E, end)
      /\ Heads(sz) = Heads(h.size) \ {b, r} /\ Cover(sz) = Cover(h.size)
      /\ sz[l] = h.size[l] + h.size[b] + h.size[r]
      /\ \A x \in Addr \ {l, b, r} : sz[x] = h.size[x]
  <2>1. MergeBothDone(h, F, E, end, l, b, r, sz, lf)
    BY <1>1, <1>3, MergeBothFields
  <2> HIDE DEF sz, lf
  <2> QED
    BY <2>1 DEF MergeBothDone
<1>6. sz \in [Addr -> 0 .. HeapLimit] /\ lf \in [Addr -> 0 .. HeapLimit]
  <2> HIDE DEF sz, lf
  <2> QED
    BY <1>5, TagTypes
<1>7. h.size \in [Addr -> 0 .. HeapLimit] /\ h.left \in [Addr -> 0 .. HeapLimit]
  BY <1>1, RecordTypes
<1>8. sum \in 0 .. HeapLimit
  <2>1. sz[l] = sum
    BY <1>5
  <2> HIDE DEF sz, sum
  <2> QED
    BY <1>2, <1>6, <2>1
<1> HIDE DEF sum, e
<1>9. /\ k.size = [h.size EXCEPT ![l] = sum] /\ k.left = [h.left EXCEPT ![e] = sum]
      /\ k.state = h.state /\ k.next = h.next /\ k.prev = h.prev /\ k.bits = h.bits
      /\ k.wild = h.wild
      /\ k = [size |-> k.size, left |-> k.left, state |-> k.state, next |-> k.next,
              prev |-> k.prev, bits |-> k.bits, wild |-> k.wild]
  <2>1. k = [h EXCEPT !.size[l] = sum, !.left[e] = sum]
    OBVIOUS
  <2> HIDE DEF k
  <2> QED
    BY <1>1, <2>1 DEF HeapRecord
<1> HIDE DEF k
<1>10. k \in HeapRecord
  <2>1. k.size \in [Addr -> 0 .. HeapLimit] /\ k.left \in [Addr -> 0 .. HeapLimit]
    BY <1>2, <1>7, <1>8, <1>9
  <2> QED
    BY <2>1, <1>1, <1>9, RecordTypes DEF HeapRecord
<1>11. PICK rank, home : OnLists(h, L, rank, home) /\ Filed(h.size, L, home)
  BY <1>1, ListingElim
<1>12. OnLists(k, L, rank, home)
  BY <1>9, <1>10, <1>11, OnListsElsewhere
<1>13. Relinked(k, q, L) /\ OnLists(q, N, rank, home)
  BY <1>1, <1>10, <1>12, RemoveList
<1> HIDE DEF q
<1>14. /\ q \in HeapRecord /\ q.size = k.size /\ q.left = k.left /\ q.state = h.state
       /\ q.wild = h.wild /\ \A a \in Addr \ L : q.next[a] = h.next[a]
  BY <1>9, <1>13 DEF Relinked
<1>15. /\ f.size = [q.size EXCEPT ![r] = 0, ![b] = 0]
       /\ f.left = [q.left EXCEPT ![r] = 0, ![b] = 0]
       /\ f.next = [q.next EXCEPT ![r] = NULL, ![b] = NULL]
       /\ f.prev = [q.prev EXCEPT ![r] = NULL, ![b] = NULL]
       /\ f.state = q.state /\ f.bits = q.bits /\ f.wild = q.wild
       /\ f = [size |-> f.size, left |-> f.left, state |-> f.state, next |-> f.next,
               prev |-> f.prev, bits |-> f.bits, wild |-> f.wild]
  <2>1. f = Forget(Forget(q, r), b) /\ q \in HeapRecord
    BY <1>14
  <2> HIDE DEF f
  <2> QED
    BY <2>1 DEF Forget, HeapRecord
<1> HIDE DEF f
<1>16. f.size = sz /\ f.left = lf
  BY <1>9, <1>14, <1>15
<1> HIDE DEF sz, lf, old
<1>17. f \in HeapRecord
  <2>1. f.next \in [Node -> Node \cup {NULL}] /\ f.prev \in [Node -> Node \cup {NULL}]
    BY <1>1, <1>14, <1>15, RecordTypes
  <2> QED
    BY <2>1, <1>6, <1>14, <1>15, <1>16, RecordTypes DEF HeapRecord
<1>18. /\ f.next[b] = NULL /\ f.next[r] = NULL
       /\ \A x \in Node \ {b, r} : f.next[x] = q.next[x] /\ f.prev[x] = q.prev[x]
  BY <1>1, <1>14, <1>15, RecordTypes
<1>19. OnLists(f, N, rank, home)
  <2>1. \A x \in N \cup Sentinels : f.next[x] = q.next[x] /\ f.prev[x] = q.prev[x]
    BY <1>1, <1>18, SentinelFacts
  <2>2. f.bits = q.bits
    BY <1>15
  <2> HIDE DEF N
  <2> QED
    BY <2>1, <2>2, <1>13, <1>17, OnListsElsewhere
<1>20. FiledAs(home[l], old) /\ Filed(f.size, N \ {l}, home)
  <2>1. \A c \in N \ {l} : f.size[c] = h.size[c]
    BY <1>1, <1>5, <1>16
  <2> QED
    BY <1>1, <1>11, <2>1 DEF Filed, old
<1>21. f.size[l] >= MIN /\ old >= MIN
  BY <1>2, <1>5, <1>16, HeaderWords, SMT DEF old
<1>22. Relinked(f, g, N) /\ Listing(g, N)
  <2>1. l \in N /\ old \in Nat
    BY <1>1, <1>2, <1>3
  <2> HIDE DEF N, L
  <2> QED
    BY <2>1, <1>4, <1>17, <1>19, <1>20, <1>21, MoveList
<1>23. /\ g \in HeapRecord /\ g.size = sz /\ g.left = lf /\ g.state = h.state
       /\ ~g.wild /\ \A a \in Addr \ N : g.next[a] = f.next[a]
  BY <1>1, <1>14, <1>15, <1>16, <1>22 DEF Relinked
<1>24. Vacant(g, X \ {b}) = N
  BY <1>1, <1>5, <1>23 DEF Vacant
<1> HIDE DEF L
<1>25. \A a \in N : a + g.size[a] \notin N
  <2> TAKE a \in N
  <2>1. CASE a = l
    <3>1. l + g.size[l] = r + h.size[r]
      <4>1. g.size[l] = h.size[l] + h.size[b] + h.size[r]
        BY <1>5, <1>23
      <4>2. /\ l \in Nat /\ h.size[l] \in Nat /\ h.size[b] \in Nat /\ h.size[r] \in Nat
            /\ r = (l + h.size[l]) + h.size[b]
        BY <1>2, <1>3 DEF old
      <4> QED
        BY <4>1, <4>2, SMT
    <3> QED
      BY <2>1, <3>1, <1>1, SoundParts DEF L
  <2>2. CASE a # l
    <3>1. g.size[a] = h.size[a] /\ a \in L
      BY <2>2, <1>1, <1>5, <1>23
    <3> QED
      BY <3>1, SoundParts DEF L
  <2> QED
    BY <2>1, <2>2
<1>26. \A a \in Addr \ (N \cup (X \ {b})) : g.next[a] = NULL
  <2> TAKE a \in Addr \ (N \cup (X \ {b}))
  <2>1. g.next[a] = f.next[a] /\ a \in Node
    BY <1>23, SentinelFacts
  <2>2. CASE a = b \/ a = r
    BY <2>1, <2>2, <1>18
  <2>3. CASE a # b /\ a # r
    <3>1. a \notin L /\ h.next[a] = NULL
      BY <2>3, SoundParts DEF L
    <3> QED
      BY <2>1, <2>3, <3>1, <1>14, <1>18
  <2> QED
    BY <2>2, <2>3
<1>27. Sound(g, F, E, X \ {b}, end)
  <2>1. X \ {b} \subseteq Heads(g.size) \ (F \cup E)
    BY <1>1, <1>5, <1>23, SoundParts
  <2>2. \A a \in F \cup E : g.state[a] = "fencepost"
    BY <1>23, SoundParts
  <2>3. \A a \in Heads(g.size) \ (F \cup E \cup (X \ {b})) : g.state[a] # "fencepost"
    BY <1>5, <1>23 DEF Sound
  <2>4. Tags(g.size, g.left, F, E, end)
    BY <1>5, <1>23
  <2> HIDE DEF N
  <2> QED
    BY <2>1, <2>2, <2>3, <2>4, <1>22, <1>23, <1>24, <1>25, <1>26 DEF Sound, RightOf
<1>28. Kept(h, g, Heads(h.size) \ {l, b, r})
  <2>1. \A c \in Heads(h.size) \ {l, b, r} : c \in Addr \ {l, b, r}
    BY DEF Heads
  <2> QED
    BY <2>1, <1>5, <1>23 DEF Kept
<1> QED
  BY <1>5, <1>23, <1>27, <1>28

(* In g the block b is free and every block that is not free is as in h. *)
Freed(h, F, E, b, end, g) ==
  /\ Sound(g, F, E, {}, end) /\ g.state = h.state
  /\ Kept(h, g, Heads(h.size) \ (Vacant(h, {b}) \cup {b}))
  /\ Cover(g.size) = Cover(h.size)

(* free_list_deallocate, whichever of the neighbours is free *)
LEMMA DeallocateSound ==
  ASSUME NEW h, NEW F, NEW E, NEW end \in Int, NEW b, Sound(h, F, E, {b}, end),
         end <= HeapLimit, h.state[b] = "unallocated",
         NEW g, g = FreeListDeallocate(h, b)
  PROVE  Freed(h, F, E, b, end, g)
<1> DEFINE l == LeftOf(h, b)
           r == RightOf(h, b)
           V == Vacant(h, {b})
<1>1. /\ h \in HeapRecord /\ Tags(h.size, h.left, F, E, end)
      /\ b \in Heads(h.size) \ (F \cup E)
  BY SoundParts
<1>2. /\ l \in Heads(h.size) /\ r \in Heads(h.size) /\ l # b /\ r # b
  <2>1. /\ b - h.left[b] \in Heads(h.size) /\ b + h.size[b] \in Heads(h.size)
        /\ b - h.left[b] < b /\ b \in Nat /\ h.size[b] \in Nat /\ h.size[b] >= 4
        /\ h.left[b] \in Nat
    BY <1>1, BlockTags
  <2>2. b - h.left[b] # b /\ b + h.size[b] # b
    BY <2>1, SMT
  <2> QED
    BY <2>1, <2>2 DEF LeftOf, RightOf
<1>3. l \in V <=> h.state[l] = "unallocated"
  BY <1>2 DEF Vacant
<1>4. r \in V <=> h.state[r] = "unallocated"
  BY <1>2 DEF Vacant
<1> HIDE DEF l, r, V
<1>5. {b} \ {b} = {}
  OBVIOUS
<1>6. CASE l \notin V /\ r \notin V
  <2>1. g = FreelistInsert(h, b)
    BY <1>3, <1>4, <1>6 DEF FreeListDeallocate, l, r
  <2>2. Sound(g, F, E, {}, end) /\ g.size = h.size /\ g.state = h.state
    BY <2>1, <1>5, <1>6, InsertSound DEF l, r, V
  <2> QED
    BY <2>2 DEF Freed, Kept
<1>7. CASE l \in V /\ r \in V
  <2>1. g = CoalesceBoth(h, l, b, r)
    BY <1>3, <1>4, <1>7 DEF FreeListDeallocate, l, r
  <2>2. /\ Sound(g, F, E, {b} \ {b}, end) /\ g.state = h.state
        /\ Kept(h, g, Heads(h.size) \ {l, b, r})
        /\ Cover(g.size) = Cover(h.size)
    BY <2>1, <1>7, CoalesceBothSound DEF l, r, V
  <2>3. Kept(h, g, Heads(h.size) \ (V \cup {b}))
    <3>1. \A c \in Heads(h.size) \ (V \cup {b}) : c \in Heads(h.size) \ {l, b, r}
      BY <1>7
    <3> QED
      BY <2>2, <3>1 DEF Kept
  <2>4. Sound(g, F, E, {}, end)
    BY <2>2, <1>5, Zenon
  <2> QED
    BY <2>2, <2>3, <2>4 DEF Freed, V
<1>8. CASE l \in V /\ r \notin V
  <2>1. g = CoalesceLeft(h, l, b, r)
    BY <1>3, <1>4, <1>8 DEF FreeListDeallocate, l, r
  <2>2. /\ Sound(g, F, E, {b} \ {b}, end) /\ g.state = h.state
        /\ Kept(h, g, Heads(h.size) \ {l, b})
        /\ Cover(g.size) = Cover(h.size)
    BY <2>1, <1>8, CoalesceLeftSound DEF l, r, V
  <2>3. Kept(h, g, Heads(h.size) \ (V \cup {b}))
    <3>1. \A c \in Heads(h.size) \ (V \cup {b}) : c \in Heads(h.size) \ {l, b}
      BY <1>8
    <3> QED
      BY <2>2, <3>1 DEF Kept
  <2>4. Sound(g, F, E, {}, end)
    BY <2>2, <1>5, Zenon
  <2> QED
    BY <2>2, <2>3, <2>4 DEF Freed, V
<1>9. CASE l \notin V /\ r \in V
  <2>1. g = CoalesceRight(h, b, r)
    BY <1>3, <1>4, <1>9 DEF FreeListDeallocate, l, r
  <2>2. /\ Sound(g, F, E, {b} \ {b}, end) /\ g.state = h.state
        /\ Kept(h, g, Heads(h.size) \ {b, r})
        /\ Cover(g.size) = Cover(h.size)
    BY <2>1, <1>9, CoalesceRightSound DEF l, r, V
  <2>3. Kept(h, g, Heads(h.size) \ (V \cup {b}))
    <3>1. \A c \in Heads(h.size) \ (V \cup {b}) : c \in Heads(h.size) \ {b, r}
      BY <1>9
    <3> QED
      BY <2>2, <3>1 DEF Kept
  <2>4. Sound(g, F, E, {}, end)
    BY <2>2, <1>5, Zenon
  <2> QED
    BY <2>2, <2>3, <2>4 DEF Freed, V
<1> QED
  BY <1>6, <1>7, <1>8, <1>9

(* The fields allocate_chunk sets, b being the chunk's one block. *)
ChunkDone(h, mem, b, rfp, k) ==
  /\ IsChunk(h.size, h.left, mem, k.size, k.left)
  /\ k.state = [h.state EXCEPT ![mem] = "fencepost", ![rfp] = "fencepost", ![b] = "unallocated"]
  /\ k.next = h.next /\ k.prev = h.prev /\ k.bits = h.bits /\ k.wild = h.wild
  /\ k = [size |-> k.size, left |-> k.left, state |-> k.state, next |-> k.next,
          prev |-> k.prev, bits |-> k.bits, wild |-> k.wild]

LEMMA ChunkWords ==
  ASSUME NEW mem \in Nat, mem + Arena <= HeapLimit
  PROVE  /\ mem \in Addr /\ mem + HDR \in Addr /\ mem + Arena - HDR \in Addr
         /\ mem # mem + HDR /\ mem # mem + Arena - HDR /\ mem + HDR # mem + Arena - HDR
         /\ HDR \in Int /\ Arena - 2 * HDR \in Int /\ Arena - 2 * HDR >= MIN
         /\ mem + HDR - HDR = mem /\ (mem + HDR) + (Arena - 2 * HDR) = mem + Arena - HDR
         /\ mem - HDR \in Int /\ mem - HDR # mem /\ mem - HDR # mem + HDR
         /\ mem - HDR # mem + Arena - HDR /\ Arena \in Nat
BY HeapAssumption, HeaderWords, AddrIsNat, SMT DEF Addr

LEMMA ChunkFields ==
  ASSUME NEW h \in HeapRecord, NEW mem \in Nat, mem + Arena <= HeapLimit
  PROVE  ChunkDone(h, mem, mem + HDR, mem + Arena - HDR, AllocateChunk(h, mem))
<1> DEFINE b == mem + HDR
           rfp == mem + Arena - HDR
           w == Arena - 2 * HDR
<1>1. SUFFICES ASSUME NEW k, k = AllocateChunk(h, mem)
               PROVE  ChunkDone(h, mem, b, rfp, k)
  OBVIOUS
<1>2. /\ mem \in Addr /\ b \in Addr /\ rfp \in Addr
      /\ mem # b /\ mem # rfp /\ b # rfp /\ HDR \in Int /\ w \in Int
  BY ChunkWords
<1>3. k = [InitializeFencepost(InitializeFencepost(h, mem, HDR), rfp, w) EXCEPT
             !.size[b] = w, !.left[b] = HDR, !.state[b] = "unallocated"]
  BY <1>1 DEF AllocateChunk, InsertFenceposts
<1> HIDE DEF b, rfp, w
<1>4. /\ k.size = [h.size EXCEPT ![mem] = HDR, ![rfp] = HDR, ![b] = w]
      /\ k.left = [h.left EXCEPT ![mem] = HDR, ![rfp] = w, ![b] = HDR]
      /\ k.state = [h.state EXCEPT ![mem] = "fencepost", ![rfp] = "fencepost", ![b] = "unallocated"]
      /\ k.next = h.next /\ k.prev = h.prev /\ k.bits = h.bits /\ k.wild = h.wild
      /\ k = [size |-> k.size, left |-> k.left, state |-> k.state, next |-> k.next,
              prev |-> k.prev, bits |-> k.bits, wild |-> k.wild]
  BY <1>3 DEF InitializeFencepost, HeapRecord
<1>5. h.size \in [Addr -> Int] /\ h.left \in [Addr -> Int]
  <2>1. 0 .. HeapLimit \subseteq Int
    BY SMT
  <2> QED
    BY <2>1, RecordTypes, Zenon
<1>6. /\ k.size \in [Addr -> Int] /\ k.left \in [Addr -> Int]
      /\ \A x \in Addr :
           k.size[x] = IF x = mem \/ x = rfp THEN HDR ELSE IF x = b THEN w ELSE h.size[x]
      /\ \A x \in Addr :
           k.left[x] = IF x = mem \/ x = b THEN HDR ELSE IF x = rfp THEN w ELSE h.left[x]
  BY <1>2, <1>4, <1>5
<1> QED
  BY <1>4, <1>6 DEF ChunkDone, IsChunk, b, rfp, w

(* The new chunk, its block b in nobody's list yet. *)
ChunkMade(h, F, E, X, mem, b, rfp, k) ==
  /\ Sound(k, F \cup {mem}, E \cup {rfp}, X \cup {b}, mem + Arena)
  /\ b \in Addr \ Heads(h.size) /\ k.state[b] = "unallocated"
  /\ k.size[b] >= MIN
  /\ LeftOf(k, b) = mem /\ RightOf(k, b) = rfp
  /\ k.state[mem] = "fencepost" /\ k.state[rfp] = "fencepost"
  /\ Kept(h, k, Heads(h.size))
  /\ Cover(h.size) \subseteq Cover(k.size)

LEMMA ChunkSound ==
  ASSUME NEW h, NEW F, NEW E, NEW X, NEW end \in Int, Sound(h, F, E, X, end),
         NEW mem \in Nat, end <= mem, mem + Arena <= HeapLimit,
         NEW k, k = AllocateChunk(h, mem), NEW b, b = mem + HDR, NEW rfp, rfp = mem + Arena - HDR
  PROVE  ChunkMade(h, F, E, X, mem, b, rfp, k)
<1> DEFINE L == Vacant(h, X)
<1>1. /\ h \in HeapRecord /\ ~h.wild /\ Tags(h.size, h.left, F, E, end) /\ Listing(h, L)
      /\ L \subseteq Heads(h.size) \ (F \cup E \cup X) /\ L \subseteq Addr
      /\ X \subseteq Heads(h.size) \ (F \cup E) /\ Heads(h.size) \subseteq Addr
  BY SoundParts DEF Heads
<1>2. ChunkDone(h, mem, b, rfp, k)
  BY <1>1, ChunkFields
<1>3. /\ IsChunk(h.size, h.left, mem, k.size, k.left)
      /\ k.state = [h.state EXCEPT ![mem] = "fencepost", ![rfp] = "fencepost", ![b] = "unallocated"]
      /\ k.next = h.next /\ k.prev = h.prev /\ k.bits = h.bits /\ k.wild = h.wild
      /\ k = [size |-> k.size, left |-> k.left, state |-> k.state, next |-> k.next,
              prev |-> k.prev, bits |-> k.bits, wild |-> k.wild]
  BY <1>2 DEF ChunkDone
<1>4. /\ {mem, b, rfp} \subseteq Addr \ Heads(h.size)
      /\ Heads(k.size) = Heads(h.size) \cup {mem, b, rfp}
      /\ Tags(k.size, k.left, F \cup {mem}, E \cup {rfp}, mem + Arena)
      /\ Cover(h.size) \subseteq Cover(k.size)
  <2>1. /\ {mem, mem + HDR, mem + Arena - HDR} \subseteq Addr \ Heads(h.size)
        /\ Heads(k.size) = Heads(h.size) \cup {mem, mem + HDR, mem + Arena - HDR}
        /\ Tags(k.size, k.left, F \cup {mem}, E \cup {mem + Arena - HDR}, mem + Arena)
        /\ Cover(h.size) \subseteq Cover(k.size)
    BY <1>1, <1>3, ChunkTags, Zenon
  <2> QED
    BY <2>1, Zenon
<1>5. /\ mem \in Addr /\ b \in Addr /\ rfp \in Addr /\ mem # b /\ mem # rfp /\ b # rfp
  BY ChunkWords
<1>6. /\ k.size[b] = Arena - 2 * HDR /\ k.left[b] = HDR
      /\ \A x \in Addr \ {mem, b, rfp} : k.size[x] = h.size[x]
  BY <1>3, <1>5 DEF IsChunk
<1>7. /\ k.state[mem] = "fencepost" /\ k.state[rfp] = "fencepost" /\ k.state[b] = "unallocated"
      /\ \A x \in Addr \ {mem, b, rfp} : k.state[x] = h.state[x]
  BY <1>1, <1>3, <1>5, RecordTypes
<1>8. LeftOf(k, b) = mem /\ RightOf(k, b) = rfp /\ k.size[b] >= MIN
  BY <1>6, ChunkWords DEF LeftOf, RightOf
<1>9. k \in HeapRecord
  <2>1. k.size \in [Addr -> 0 .. HeapLimit] /\ k.left \in [Addr -> 0 .. HeapLimit]
    <3>1. mem + Arena \in Int
      BY ChunkWords, SMT
    <3> QED
      BY <1>4, <3>1, TagTypes
  <2>2. k.state \in [Addr -> BlockState]
    BY <1>1, <1>3, <1>5, RecordTypes DEF BlockState
  <2> QED
    BY <1>1, <1>3, <2>1, <2>2, RecordTypes DEF HeapRecord
<1>10. Vacant(k, X \cup {b}) = L
  <2>1. \A x \in Heads(h.size) : x \in Addr \ {mem, b, rfp}
    BY <1>1, <1>4
  <2> QED
    BY <2>1, <1>4, <1>7 DEF Vacant
<1>11. Listing(k, L)
  <2>1. PICK rank, home : OnLists(h, L, rank, home) /\ Filed(h.size, L, home)
    BY <1>1, ListingElim
  <2>2. OnLists(k, L, rank, home)
    BY <2>1, <1>3, <1>9, OnListsElsewhere
  <2>3. Filed(k.size, L, home)
    <3>1. \A x \in L : k.size[x] = h.size[x]
      BY <1>1, <1>4, <1>6
    <3> QED
      BY <2>1, <3>1 DEF Filed
  <2> QED
    BY <2>2, <2>3, ListingIntro
<1> HIDE DEF L
<1>12. \A a \in L : a + k.size[a] \notin L
  <2> TAKE a \in L
  <2>1. k.size[a] = h.size[a]
    BY <1>1, <1>4, <1>6
  <2> QED
    BY <2>1, SoundParts DEF L
<1>13. \A a \in Addr \ (L \cup (X \cup {b})) : k.next[a] = NULL
  BY <1>3, SoundParts DEF L
<1>14. Sound(k, F \cup {mem}, E \cup {rfp}, X \cup {b}, mem + Arena)
  <2>1. X \cup {b} \subseteq Heads(k.size) \ ((F \cup {mem}) \cup (E \cup {rfp}))
    <3>1. F \subseteq Heads(h.size) /\ E \subseteq Heads(h.size)
      BY SoundParts
    <3> QED
      BY <3>1, <1>1, <1>4, <1>5
  <2>2. \A a \in (F \cup {mem}) \cup (E \cup {rfp}) : k.state[a] = "fencepost"
    <3>1. \A a \in F \cup E : a \in Addr \ {mem, b, rfp} /\ h.state[a] = "fencepost"
      BY <1>1, <1>4, SoundParts
    <3> QED
      BY <3>1, <1>7
  <2>3. \A a \in Heads(k.size) \ ((F \cup {mem}) \cup (E \cup {rfp}) \cup (X \cup {b})) :
          k.state[a] # "fencepost"
    <3>1. \A a \in Heads(h.size) \ (F \cup E \cup X) : a \in Addr \ {mem, b, rfp} /\ h.state[a] # "fencepost"
      BY <1>1, <1>4 DEF Sound
    <3> QED
      BY <3>1, <1>4, <1>7
  <2>4. ~k.wild
    BY <1>1, <1>3
  <2> QED
    BY <2>1, <2>2, <2>3, <2>4, <1>4, <1>9, <1>10, <1>11, <1>12, <1>13 DEF Sound, RightOf
<1>15. Kept(h, k, Heads(h.size))
  <2>1. \A x \in Heads(h.size) : x \in Addr \ {mem, b, rfp}
    BY <1>1, <1>4
  <2> QED
    BY <2>1, <1>4, <1>6, <1>7 DEF Kept
<1> QED
  BY <1>4, <1>7, <1>8, <1>14, <1>15 DEF ChunkMade

(* A chunk of its own, its block on a list: what the constructor does, and *)
(* what the search does when someone else has moved the break.             *)
SeparateDone(h, F, E, X, mem, g) ==
  /\ Sound(g, F \cup {mem}, E \cup {mem + Arena - HDR}, X, mem + Arena)
  /\ Kept(h, g, Heads(h.size))
  /\ Cover(h.size) \subseteq Cover(g.size)

LEMMA SeparateSound ==
  ASSUME NEW h, NEW F, NEW E, NEW X, NEW end \in Int, Sound(h, F, E, X, end),
         NEW mem \in Nat, end <= mem, mem + Arena <= HeapLimit,
         NEW g, g = FreelistInsert(AllocateChunk(h, mem), mem + HDR)
  PROVE  SeparateDone(h, F, E, X, mem, g)
<1> DEFINE k == AllocateChunk(h, mem)
           b == mem + HDR
           rfp == mem + Arena - HDR
<1>1. /\ Sound(k, F \cup {mem}, E \cup {rfp}, X \cup {b}, mem + Arena)
      /\ b \in Addr \ Heads(h.size) /\ k.state[b] = "unallocated"
      /\ LeftOf(k, b) = mem /\ RightOf(k, b) = rfp
      /\ k.state[mem] = "fencepost" /\ k.state[rfp] = "fencepost"
      /\ Kept(h, k, Heads(h.size))
      /\ Cover(h.size) \subseteq Cover(k.size)
  <2>1. k = AllocateChunk(h, mem) /\ b = mem + HDR /\ rfp = mem + Arena - HDR
    OBVIOUS
  <2> HIDE DEF k, b, rfp
  <2>2. ChunkMade(h, F, E, X, mem, b, rfp, k)
    BY <2>1, ChunkSound
  <2> QED
    BY <2>2 DEF ChunkMade
<1>2. g = FreelistInsert(k, b)
  OBVIOUS
<1>3. mem + Arena \in Int
  BY ChunkWords, SMT
<1> HIDE DEF k, b, rfp
<1>4. X \subseteq Heads(h.size) /\ (X \cup {b}) \ {b} = X
  <2>1. X \subseteq Heads(h.size)
    BY SoundParts
  <2> QED
    BY <2>1, <1>1
<1>5. mem \notin Vacant(k, X \cup {b}) /\ rfp \notin Vacant(k, X \cup {b})
  BY <1>1 DEF Vacant
<1>6. /\ Sound(g, F \cup {mem}, E \cup {rfp}, (X \cup {b}) \ {b}, mem + Arena)
      /\ g.size = k.size /\ g.state = k.state
  BY <1>1, <1>2, <1>3, <1>5, InsertSound
<1>7. Sound(g, F \cup {mem}, E \cup {rfp}, X, mem + Arena)
  BY <1>4, <1>6, Zenon
<1> QED
  <2>1. /\ Sound(g, F \cup {mem}, E \cup {mem + Arena - HDR}, X, mem + Arena)
        /\ Kept(h, g, Heads(h.size))
        /\ Cover(h.size) \subseteq Cover(g.size)
    BY <1>1, <1>6, <1>7 DEF Kept, rfp
  <2> QED
    BY <2>1 DEF SeparateDone

(* A chunk behind the last one: the two fenceposts between them and the    *)
(* new chunk's header become one block, which is then freed.               *)
JoinDone(h, F, E, mem, g) ==
  /\ Sound(g, F, (E \ {mem - HDR}) \cup {mem + Arena - HDR}, {}, mem + Arena)
  /\ Kept(h, g, Heads(h.size) \ (Vacant(h, {}) \cup {mem - HDR}))
  /\ Cover(h.size) \subseteq Cover(g.size)

LEMMA JoinSound ==
  ASSUME NEW h, NEW F, NEW E, NEW mem \in Nat, Sound(h, F, E, {}, mem),
         NEW p, p = mem - HDR, p \in E, mem + Arena <= HeapLimit,
         NEW rfp, rfp = mem + Arena - HDR,
         NEW g, g = JoinChunk(h, mem)
  PROVE  JoinDone(h, F, E, mem, g)
<1> DEFINE L == Vacant(h, {})
           b == mem + HDR
           D == (E \ {p}) \cup {rfp}
           k == AllocateChunk(h, mem)
           f == [Forget(Forget(k, mem), b) EXCEPT
                   !.size[p] = Arena, !.left[rfp] = Arena, !.state[p] = "unallocated"]
<1>1. mem \in Int /\ mem + Arena \in Int
  BY ChunkWords, SMT
<1>2. /\ h \in HeapRecord /\ ~h.wild /\ Tags(h.size, h.left, F, E, mem) /\ Listing(h, L)
      /\ L \subseteq Heads(h.size) \ (F \cup E) /\ L \subseteq Addr
      /\ F \subseteq Heads(h.size) /\ E \subseteq Heads(h.size) /\ Heads(h.size) \subseteq Addr
      /\ p \in Heads(h.size) /\ p \in Addr /\ p \notin L
  BY <1>1, SoundParts DEF Heads
<1>3. /\ mem \in Addr /\ b \in Addr /\ rfp \in Addr /\ mem # b /\ mem # rfp /\ b # rfp
      /\ p # mem /\ p # b /\ p # rfp /\ Arena \in Nat
  BY ChunkWords
<1>4. g = FreeListDeallocate(f, p)
  BY DEF JoinChunk
<1>5. ChunkDone(h, mem, b, rfp, k)
  BY <1>2, ChunkFields
<1> HIDE DEF k
<1>6. /\ IsChunk(h.size, h.left, mem, k.size, k.left)
      /\ k.state = [h.state EXCEPT ![mem] = "fencepost", ![rfp] = "fencepost", ![b] = "unallocated"]
      /\ k.next = h.next /\ k.prev = h.prev /\ k.bits = h.bits /\ k.wild = h.wild
      /\ k = [size |-> k.size, left |-> k.left, state |-> k.state, next |-> k.next,
              prev |-> k.prev, bits |-> k.bits, wild |-> k.wild]
  BY <1>5 DEF ChunkDone
<1>7. f = [Forget(Forget(k, mem), b) EXCEPT
             !.size[p] = Arena, !.left[rfp] = Arena, !.state[p] = "unallocated"]
  OBVIOUS
<1> HIDE DEF f
<1>8. /\ f.size = [k.size EXCEPT ![mem] = 0, ![b] = 0, ![p] = Arena]
      /\ f.left = [k.left EXCEPT ![mem] = 0, ![b] = 0, ![rfp] = Arena]
      /\ f.state = [k.state EXCEPT ![p] = "unallocated"]
      /\ f.next = [k.next EXCEPT ![mem] = NULL, ![b] = NULL]
      /\ f.prev = [k.prev EXCEPT ![mem] = NULL, ![b] = NULL]
      /\ f.bits = k.bits /\ f.wild = k.wild
      /\ f = [size |-> f.size, left |-> f.left, state |-> f.state, next |-> f.next,
              prev |-> f.prev, bits |-> f.bits, wild |-> f.wild]
  <2> DEFINE c == Forget(k, mem)
             d == Forget(c, b)
  <2>0. /\ c = [k EXCEPT !.size[mem] = 0, !.left[mem] = 0, !.next[mem] = NULL, !.prev[mem] = NULL]
        /\ k = [size |-> k.size, left |-> k.left, state |-> k.state, next |-> k.next,
                prev |-> k.prev, bits |-> k.bits, wild |-> k.wild]
        /\ d = [c EXCEPT !.size[b] = 0, !.left[b] = 0, !.next[b] = NULL, !.prev[b] = NULL]
        /\ f = [d EXCEPT !.size[p] = Arena, !.left[rfp] = Arena, !.state[p] = "unallocated"]
    BY <1>6, <1>7 DEF Forget
  <2> HIDE DEF b, c, d
  <2>1. /\ c.size = [k.size EXCEPT ![mem] = 0] /\ c.left = [k.left EXCEPT ![mem] = 0]
        /\ c.next = [k.next EXCEPT ![mem] = NULL] /\ c.prev = [k.prev EXCEPT ![mem] = NULL]
        /\ c.state = k.state /\ c.bits = k.bits /\ c.wild = k.wild
        /\ c = [size |-> c.size, left |-> c.left, state |-> c.state, next |-> c.next,
                prev |-> c.prev, bits |-> c.bits, wild |-> c.wild]
    BY <2>0
  <2>3. /\ d.size = [c.size EXCEPT ![b] = 0] /\ d.left = [c.left EXCEPT ![b] = 0]
        /\ d.next = [c.next EXCEPT ![b] = NULL] /\ d.prev = [c.prev EXCEPT ![b] = NULL]
        /\ d.state = c.state /\ d.bits = c.bits /\ d.wild = c.wild
    BY <2>0, <2>1
  <2>4. d = [size |-> d.size, left |-> d.left, state |-> d.state, next |-> d.next,
             prev |-> d.prev, bits |-> d.bits, wild |-> d.wild]
    BY <2>0, <2>1
  <2>5. /\ f.size = [d.size EXCEPT ![p] = Arena] /\ f.left = [d.left EXCEPT ![rfp] = Arena]
        /\ f.state = [d.state EXCEPT ![p] = "unallocated"]
        /\ f.next = d.next /\ f.prev = d.prev /\ f.bits = d.bits /\ f.wild = d.wild
        /\ f = [size |-> f.size, left |-> f.left, state |-> f.state, next |-> f.next,
                prev |-> f.prev, bits |-> f.bits, wild |-> f.wild]
    <3> DEFINE s == d.size
               t == d.left
               u == d.state
               v == d.next
               x == d.prev
               y == d.bits
               z == d.wild
    <3>1. d = [size |-> s, left |-> t, state |-> u, next |-> v, prev |-> x, bits |-> y, wild |-> z]
      BY <2>4
    <3>2. f = [d EXCEPT !.size = [s EXCEPT ![p] = Arena], !.left = [t EXCEPT ![rfp] = Arena],
                        !.state = [u EXCEPT ![p] = "unallocated"]]
      BY <2>0
    <3> HIDE DEF s, t, u, v, x, y, z
    <3>3. f = [size |-> [s EXCEPT ![p] = Arena], left |-> [t EXCEPT ![rfp] = Arena],
               state |-> [u EXCEPT ![p] = "unallocated"],
               next |-> v, prev |-> x, bits |-> y, wild |-> z]
      BY <3>1, <3>2
    <3> QED
      BY <3>3 DEF s, t, u, v, x, y, z
  <2> QED
    BY <2>1, <2>3, <2>5
<1>9. IsJoin(h.size, h.left, mem, f.size, f.left)
  <2> DEFINE w == Arena - 2 * HDR
  <2>1. /\ k.size \in [Addr -> Int] /\ k.left \in [Addr -> Int]
        /\ \A x \in Addr :
             k.size[x] = IF x = mem \/ x = rfp THEN HDR ELSE IF x = b THEN w ELSE h.size[x]
        /\ \A x \in Addr :
             k.left[x] = IF x = mem \/ x = b THEN HDR ELSE IF x = rfp THEN w ELSE h.left[x]
    BY <1>6 DEF IsChunk
  <2>2. 0 \in Int /\ Arena \in Int
    BY <1>3, SMT
  <2> HIDE DEF w, b
  <2>3. f.size \in [Addr -> Int] /\ f.left \in [Addr -> Int]
    BY <1>2, <1>3, <1>8, <2>1, <2>2
  <2>4. \A x \in Addr :
          f.size[x] = IF x = p THEN Arena ELSE IF x = rfp THEN HDR
                      ELSE IF x = mem \/ x = b THEN 0 ELSE h.size[x]
    BY <1>2, <1>3, <1>8, <2>1
  <2>5. \A x \in Addr :
          f.left[x] = IF x = rfp THEN Arena ELSE IF x = mem \/ x = b THEN 0 ELSE h.left[x]
    BY <1>2, <1>3, <1>8, <2>1
  <2> QED
    BY <2>3, <2>4, <2>5 DEF IsJoin, b
<1>10. /\ rfp \in Addr \ Heads(h.size) /\ Heads(f.size) = Heads(h.size) \cup {rfp}
       /\ Tags(f.size, f.left, F, D, mem + Arena)
       /\ Cover(h.size) \subseteq Cover(f.size)
  <2>1. /\ mem + Arena - HDR \in Addr \ Heads(h.size)
        /\ Heads(f.size) = Heads(h.size) \cup {mem + Arena - HDR}
        /\ Tags(f.size, f.left, F, (E \ {mem - HDR}) \cup {mem + Arena - HDR}, mem + Arena)
        /\ Cover(h.size) \subseteq Cover(f.size)
    BY <1>2, <1>9, JoinTags, Zenon
  <2> QED
    BY <2>1, Zenon
<1> HIDE DEF D, b
<1>11. mem \notin Heads(h.size) /\ b \notin Heads(h.size)
  <2>1. \A x \in Heads(h.size) : x < mem /\ x \in Int
    BY <1>1, <1>2, FreshAbove
  <2>2. ~(mem < mem) /\ ~(b < mem)
    BY HeaderWords, SMT DEF b
  <2> QED
    BY <2>1, <2>2
<1>12. /\ f.state[p] = "unallocated" /\ f.state[rfp] = "fencepost"
       /\ \A x \in Addr \ {p, mem, b, rfp} : f.state[x] = h.state[x]
  BY <1>2, <1>3, <1>6, <1>8, RecordTypes
<1>13. \A x \in Heads(h.size) \ {p} : f.size[x] = h.size[x] /\ f.state[x] = h.state[x]
  <2>1. \A x \in Heads(h.size) \ {p} : x \in Addr \ {p, mem, b, rfp}
    BY <1>2, <1>10, <1>11
  <2>2. \A x \in Addr \ {p, mem, b, rfp} : f.size[x] = h.size[x]
    BY <1>9 DEF IsJoin, b
  <2> QED
    BY <2>1, <2>2, <1>12
<1>14. f \in HeapRecord
  <2>1. f.size \in [Addr -> 0 .. HeapLimit] /\ f.left \in [Addr -> 0 .. HeapLimit]
    BY <1>1, <1>10, TagTypes
  <2>2. f.state \in [Addr -> BlockState]
    BY <1>2, <1>3, <1>6, <1>8, RecordTypes DEF BlockState
  <2>3. f.next \in [Node -> Node \cup {NULL}] /\ f.prev \in [Node -> Node \cup {NULL}]
    BY <1>2, <1>3, <1>6, <1>8, RecordTypes, SentinelFacts
  <2> QED
    BY <2>1, <2>2, <2>3, <1>2, <1>6, <1>8, RecordTypes DEF HeapRecord
<1>15. \A x \in Node \ {mem, b} : f.next[x] = h.next[x] /\ f.prev[x] = h.prev[x]
  BY <1>2, <1>6, <1>8, RecordTypes
<1>16. f.next[mem] = NULL /\ f.next[b] = NULL
  BY <1>2, <1>3, <1>6, <1>8, RecordTypes, SentinelFacts
<1>17. Vacant(f, {p}) = L
  <2>1. \A x \in Heads(f.size) \ {p} : x = rfp \/ x \in Heads(h.size) \ {p}
    BY <1>10
  <2>2. Heads(h.size) \ {p} \subseteq Heads(f.size) \ {p}
    BY <1>10
  <2> QED
    BY <2>1, <2>2, <1>2, <1>12, <1>13 DEF Vacant
<1>18. Listing(f, L)
  <2>1. PICK rank, home : OnLists(h, L, rank, home) /\ Filed(h.size, L, home)
    BY <1>2, ListingElim
  <2>2. \A x \in L \cup Sentinels : f.next[x] = h.next[x] /\ f.prev[x] = h.prev[x]
    <3>1. \A x \in L \cup Sentinels : x \in Node \ {mem, b}
      BY <1>2, <1>3, <1>11, SentinelFacts
    <3> QED
      BY <3>1, <1>15
  <2>3. OnLists(f, L, rank, home)
    <3>1. f.bits = h.bits
      BY <1>6, <1>8
    <3> QED
      BY <2>1, <2>2, <3>1, <1>14, OnListsElsewhere
  <2>4. Filed(f.size, L, home)
    <3>1. \A x \in L : f.size[x] = h.size[x]
      BY <1>2, <1>13
    <3> QED
      BY <2>1, <3>1 DEF Filed
  <2> QED
    BY <2>3, <2>4, ListingIntro
<1> HIDE DEF L
<1>19. \A a \in L : a + f.size[a] \notin L
  <2> TAKE a \in L
  <2>1. f.size[a] = h.size[a]
    BY <1>2, <1>13
  <2> QED
    BY <2>1, <1>1, SoundParts DEF L
<1>20. \A a \in Addr \ (L \cup {p}) : f.next[a] = NULL
  <2> TAKE a \in Addr \ (L \cup {p})
  <2>1. h.next[a] = NULL /\ a \in Node
    BY <1>1, SoundParts, SentinelFacts DEF L
  <2> QED
    BY <2>1, <1>15, <1>16
<1>21. Sound(f, F, D, {p}, mem + Arena)
  <2>1. {p} \subseteq Heads(f.size) \ (F \cup D)
    <3>1. p \notin F
      BY <1>2 DEF Tags
    <3> QED
      BY <3>1, <1>2, <1>3, <1>10 DEF D
  <2>2. \A a \in F \cup D : f.state[a] = "fencepost"
    <3>1. \A a \in F \cup (E \ {p}) : a \in Heads(h.size) \ {p} /\ h.state[a] = "fencepost"
      <4>1. p \notin F
        BY <1>2 DEF Tags
      <4> QED
        BY <4>1, <1>1, <1>2, SoundParts
    <3> QED
      BY <3>1, <1>12, <1>13 DEF D
  <2>3. \A a \in Heads(f.size) \ (F \cup D \cup {p}) : f.state[a] # "fencepost"
    <3>1. \A a \in Heads(h.size) \ (F \cup E) : h.state[a] # "fencepost"
      BY DEF Sound
    <3> TAKE a \in Heads(f.size) \ (F \cup D \cup {p})
    <3>2. a \in Heads(h.size) \ (F \cup E) /\ a \in Heads(h.size) \ {p}
      BY <1>10 DEF D
    <3> QED
      BY <3>1, <3>2, <1>13
  <2>4. ~f.wild
    BY <1>2, <1>6, <1>8
  <2> QED
    BY <2>1, <2>2, <2>3, <2>4, <1>10, <1>14, <1>17, <1>18, <1>19, <1>20 DEF Sound, RightOf
<1>22. /\ Sound(g, F, D, {}, mem + Arena) /\ g.state = f.state
       /\ Kept(f, g, Heads(f.size) \ (Vacant(f, {p}) \cup {p}))
       /\ Cover(g.size) = Cover(f.size)
  <2>1. f.state[p] = "unallocated" /\ mem + Arena <= HeapLimit
    BY <1>12
  <2> DEFINE top == mem + Arena
  <2>2. top \in Int /\ top <= HeapLimit /\ Sound(f, F, D, {p}, top)
    BY <1>1, <1>21
  <2> HIDE DEF top
  <2>3. Freed(f, F, D, p, top, g)
    BY <1>4, <2>1, <2>2, DeallocateSound
  <2> QED
    BY <2>3 DEF Freed, top
<1>23. Kept(h, g, Heads(h.size) \ (L \cup {p}))
  <2> SUFFICES ASSUME NEW c \in Heads(h.size) \ (L \cup {p})
               PROVE  c \in Heads(g.size) /\ g.size[c] = h.size[c] /\ g.state[c] = h.state[c]
    BY DEF Kept
  <2>1. c \in Heads(f.size) \ (Vacant(f, {p}) \cup {p}) /\ c \in Heads(h.size) \ {p}
    BY <1>10, <1>17
  <2>2. c \in Heads(g.size) /\ g.size[c] = f.size[c] /\ g.state[c] = f.state[c]
    BY <2>1, <1>22 DEF Kept
  <2> QED
    BY <2>1, <2>2, <1>13
<1> QED
  <2>1. /\ Sound(g, F, (E \ {p}) \cup {rfp}, {}, mem + Arena)
        /\ Kept(h, g, Heads(h.size) \ (Vacant(h, {}) \cup {p}))
        /\ Cover(h.size) \subseteq Cover(g.size)
    BY <1>10, <1>22, <1>23 DEF D, L
  <2> QED
    BY <2>1 DEF JoinDone

(* The program break may move away from the heap. *)
LEMMA SoundBelow ==
  ASSUME NEW h, NEW F, NEW E, NEW X, NEW end \in Int, Sound(h, F, E, X, end),
         NEW more \in Int, end <= more
  PROVE  Sound(h, F, E, X, more)
<1>1. Tags(h.size, h.left, F, E, end)
  BY SoundParts
<1>2. \A a \in Heads(h.size) : a + h.size[a] <= more
  <2> TAKE a \in Heads(h.size)
  <2>1. a \in Int /\ h.size[a] \in Int /\ a + h.size[a] <= end
    BY <1>1, FreshAbove
  <2> QED
    BY <2>1, SMT
<1>3. Tags(h.size, h.left, F, E, more)
  BY <1>1, <1>2 DEF Tags
<1> QED
  BY <1>3 DEF Sound

(* The right fenceposts are the other fenceposts. *)
LEMMA RightFences ==
  ASSUME NEW h, NEW F, NEW E, NEW X, NEW end \in Int, Sound(h, F, E, X, end),
         NEW a \in Heads(h.size) \ X
  PROVE  a \in E <=> h.state[a] = "fencepost" /\ a \notin F
<1>1. F \cap E = {} /\ \A c \in F \cup E : h.state[c] = "fencepost"
  BY DEF Sound, Tags
<1>2. \A c \in Heads(h.size) \ (F \cup E \cup X) : h.state[c] # "fencepost"
  BY DEF Sound
<1> QED
  BY <1>1, <1>2

(* Before the constructor runs there is no chunk and every list is empty. *)
LEMMA EmptySound == Sound(EmptyHeap, {}, {}, {}, 0)
<1> DEFINE h == EmptyHeap
           home == [n \in Node |-> IF n \in Sentinels THEN IndexOf(n) ELSE 0]
           rank == [a \in Addr |-> 0]
<1>1. /\ h.size = [a \in Addr |-> 0] /\ h.left = [a \in Addr |-> 0]
      /\ h.state = [a \in Addr |-> "unallocated"]
      /\ h.next = [n \in Node |-> IF n \in Sentinels THEN n ELSE NULL]
      /\ h.prev = [n \in Node |-> IF n \in Sentinels THEN n ELSE NULL]
      /\ h.bits = InitialBits /\ h.wild = FALSE
      /\ h = [size |-> h.size, left |-> h.left, state |-> h.state, next |-> h.next,
              prev |-> h.prev, bits |-> h.bits, wild |-> h.wild]
  BY DEF EmptyHeap
<1> HIDE DEF h
<1>2. Heads(h.size) = {} /\ Vacant(h, {}) = {}
  BY <1>1 DEF Heads, Vacant
<1>3. h \in HeapRecord
  <2>1. 0 \in 0 .. HeapLimit
    BY AddrIsNat, SMT
  <2>2. InitialBits \subseteq ListIndex
    BY HeapAssumption
  <2>3. h.size \in [Addr -> 0 .. HeapLimit] /\ h.left \in [Addr -> 0 .. HeapLimit]
    BY <1>1, <2>1
  <2>4. h.state \in [Addr -> BlockState]
    BY <1>1 DEF BlockState
  <2>5. h.next \in [Node -> Node \cup {NULL}] /\ h.prev \in [Node -> Node \cup {NULL}]
    BY <1>1
  <2> QED
    BY <1>1, <2>2, <2>3, <2>4, <2>5 DEF HeapRecord
<1>4. Tags(h.size, h.left, {}, {}, 0)
  BY <1>2, <1>3, RecordTypes DEF Tags
<1>5. rank \in [Addr -> Nat] /\ home \in [Node -> ListIndex]
  <2>1. 0 \in ListIndex
    BY NListsAssumption, SMT DEF ListIndex
  <2> QED
    BY <2>1, SentinelFacts
<1>6. Linked(h.next, h.prev, {}, rank, home)
  <2>1. \A s \in Sentinels : s \in Node /\ h.next[s] = s /\ h.prev[s] = s
    BY <1>1, SentinelFacts
  <2>2. \A i \in ListIndex : home[Sentinel(i)] = i
    BY SentinelFacts
  <2> HIDE DEF home, rank
  <2> QED
    BY <1>3, <1>5, <2>1, <2>2, RecordTypes DEF Linked
<1>7. BitsTrack(h.next, h.bits)
  <2>1. \A i \in ListIndex : h.next[Sentinel(i)] = Sentinel(i)
    BY <1>1, SentinelFacts
  <2> QED
    BY <1>1, <2>1 DEF BitsTrack
<1>8. Listing(h, {})
  <2> HIDE DEF home, rank
  <2> QED
    BY <1>5, <1>6, <1>7 DEF Listing, Filed
<1>9. \A a \in Addr : h.next[a] = NULL
  BY <1>1, SentinelFacts
<1> QED
  BY <1>1, <1>2, <1>3, <1>4, <1>8, <1>9 DEF Sound, h

-----------------------------------------------------------------------------
(* A thread has released the mutex with its block and not yet marked it. *)
InWindow == \E t \in Threads : pc[t] = "mark"

(* The steps that merge a block with its neighbours. *)
Merges == \E t \in Threads : Free(t) \/ ReleaseOld(t) \/ GrowJoined(t)

(* The runs in which nothing is merged in the window. *)
Guarded == Init /\ [][Next /\ (InWindow => ~Merges)]_vars

OneClient == \A t, u \in Threads : t = u

(* No sum of a request and its header wraps. *)
Unwrapped == \A raw \in Requests : raw < SizeMod - 23

-----------------------------------------------------------------------------
(***************************************************************************)
(* The inductive invariant.                                                *)
(***************************************************************************)
Lefts == {osChunkList[i] : i \in 1 .. Len(osChunkList)}

(* The heap is sound, but for the blocks that wait to be marked, and the   *)
(* last chunk is the one that ends at lastFencePost.                       *)
HeapInv == \E E : Sound(heap, Lefts, E, Handing, brk) /\ lastFencePost \in E

CallOK(t) ==
  /\ pc[t] = "search" <=> mutex = t
  /\ pc[t] \in {"search", "mark"} => call[t].raw \in Requests \ {0}
  /\ call[t].kind = "realloc" <=> call[t].old # NULL
  /\ pc[t] = "idle" => call[t].old = NULL
  /\ pc[t] = "release" => call[t].old # NULL
  /\ pc[t] = "mark" => call[t].at # NULL
  /\ call[t].old # NULL => \E r \in live : r.ptr = call[t].old

Apart(t, u) ==
  /\ call[t].old # NULL => call[t].old # call[u].old
  /\ pc[t] = "mark" /\ pc[u] = "mark" => call[t].at # call[u].at

CallInv ==
  /\ \A t \in Threads : CallOK(t)
  /\ \A t, u \in Threads : t # u => Apart(t, u)

(* s is the sentinel of the list on which c is, however lists are named. *)
SameList(h, L, c, s) ==
  \A home \in [Node -> ListIndex] :
    (\A n \in L \cup Sentinels : home[h.next[n]] = home[n]) => home[c] = home[s]

SearchInv ==
  mutex # NULL =>
    /\ freelist \in Sentinels /\ cur \in FreeBlocks \cup Sentinels
    /\ SameList(heap, FreeBlocks, cur, freelist)

(* An allocation of a client has a block that is nobody else's. *)
LiveInv ==
  /\ \A r \in live :
       /\ r.ptr \in Addr /\ r.ptr - HDR \in Headers \ Handing
       /\ heap.state[r.ptr - HDR] = "allocated"
  /\ \A r, s \in live : r.ptr = s.ptr => r = s

(* It fits. *)
FitInv ==
  Unwrapped =>
    /\ \A r \in live : HDR + r.len <= heap.size[r.ptr - HDR]
    /\ \A t \in Threads :
         pc[t] = "mark" => HDR + (call[t].raw + 7) \div 8 <= heap.size[call[t].at]

(* The block freed last can be told from an allocated one. *)
FreedInv ==
  /\ lastFreed # NULL =>
       heap.state[lastFreed] = "unallocated" /\ mutex = NULL /\ ~InWindow
  /\ status # "undetected"

IInv == TypeOK /\ HeapInv /\ CallInv /\ SearchInv /\ LiveInv /\ FitInv /\ FreedInv

-----------------------------------------------------------------------------
LEMMA HandingIs ==
  \A a : a \in Handing <=> \E t \in Threads : pc[t] = "mark" /\ call[t].at = a
BY DEF Handing

LEMMA FreeIsVacant == Headers = Heads(heap.size) /\ FreeBlocks = Vacant(heap, Handing)
BY DEF Headers, Heads, FreeBlocks, Vacant

LEMMA RequestWords ==
  ASSUME NEW raw \in Requests
  PROVE  /\ raw \in 0 .. SizeMod - 1 /\ raw \in Nat
         /\ BlockWords(raw) \in Nat /\ BlockWords(raw) >= MIN
         /\ WordIndex(BlockWords(raw)) \in ListIndex
         /\ (raw + 7) \div 8 \in Nat
         /\ raw < SizeMod - 23 => HDR + (raw + 7) \div 8 <= BlockWords(raw)
<1>1. raw \in 0 .. SizeMod - 1 /\ raw \in Nat
  BY HeapAssumption, SizeModAssumption, SMT
<1>2. IsBlockSize(BlockSize(raw))
  BY <1>1, BlockSizeIsBlockSize
<1> DEFINE s == BlockSize(raw)
<1>3. s \in Nat /\ s >= 32 /\ s % 8 = 0
  BY <1>2 DEF IsBlockSize, HeaderSize
<1>4. raw < SizeMod - 23 => s >= raw + 16
  BY <1>1, BlockHoldsUnwrapped DEF AllocHeaderSize
<1> HIDE DEF s
<1>5. /\ s \div 8 \in Nat /\ s \div 8 >= 4 /\ (raw + 7) \div 8 \in Nat
      /\ raw < SizeMod - 23 => 2 + (raw + 7) \div 8 <= s \div 8
  BY <1>1, <1>3, <1>4, SizeModAssumption, SMT
<1>6. BlockWords(raw) = s \div 8
  BY DEF BlockWords, s
<1>7. BlockWords(raw) \in Nat /\ BlockWords(raw) >= MIN
  BY <1>5, <1>6, HeaderWords
<1> QED
  BY <1>1, <1>5, <1>6, <1>7, HeaderWords, WordIndexes

(* Where a search begins. *)
LEMMA SearchStart ==
  ASSUME NEW h, NEW L, Listing(h, L), h \in HeapRecord, NEW raw \in Requests,
         NEW s, s = PopulatedSentinel(h, BlockWords(raw)), NEW c, c = h.next[s]
  PROVE  s \in Sentinels /\ c \in L \cup Sentinels /\ SameList(h, L, c, s)
<1>1. WordIndex(BlockWords(raw)) \in ListIndex
  BY RequestWords
<1>2. NextSetBit(h.bits, WordIndex(BlockWords(raw))) \in ListIndex
  BY <1>1, NextSetBitInRange
<1>3. s \in Sentinels
  BY <1>2, SentinelFacts DEF PopulatedSentinel
<1>4. c \in L \cup Sentinels
  BY <1>3, ListingElim DEF OnLists, Linked
<1>5. SameList(h, L, c, s)
  BY <1>3 DEF SameList
<1> QED
  BY <1>3, <1>4, <1>5

(* Where a search that is not at its end stands, and how it goes on. *)
LEMMA SearchStep ==
  ASSUME NEW h, NEW L, Listing(h, L), NEW s \in Sentinels, NEW c \in L \cup Sentinels,
         SameList(h, L, c, s), c # s
  PROVE  /\ c \in L
         /\ h.next[c] \in L \cup Sentinels /\ h.next[c] # NULL
         /\ SameList(h, L, h.next[c], s)
<1>1. PICK rank, home : OnLists(h, L, rank, home)
  BY ListingElim
<1>2. Linked(h.next, h.prev, L, rank, home)
  BY <1>1 DEF OnLists
<1>3. /\ home \in [Node -> ListIndex] /\ L \subseteq Addr
      /\ \A n \in L \cup Sentinels : home[h.next[n]] = home[n]
      /\ \A n \in L \cup Sentinels : h.next[n] \in L \cup Sentinels
      /\ \A i \in ListIndex : home[Sentinel(i)] = i
  BY <1>2 DEF Linked
<1>4. home[c] = home[s]
  BY <1>3 DEF SameList
<1>5. c \in L
  <2> SUFFICES ASSUME c \in Sentinels PROVE FALSE
    OBVIOUS
  <2>1. /\ c = Sentinel(IndexOf(c)) /\ IndexOf(c) \in ListIndex
        /\ s = Sentinel(IndexOf(s)) /\ IndexOf(s) \in ListIndex
    BY SentinelFacts
  <2>2. IndexOf(c) = IndexOf(s)
    BY <1>3, <1>4, <2>1
  <2> QED
    BY <2>1, <2>2
<1>6. h.next[c] \in L \cup Sentinels
  BY <1>3
<1>7. h.next[c] # NULL
  BY <1>3, <1>6, SentinelFacts
<1>8. SameList(h, L, h.next[c], s)
  BY DEF SameList
<1> QED
  BY <1>5, <1>6, <1>7, <1>8

LEMMA SameListElsewhere ==
  ASSUME NEW h, NEW g, NEW L, \A n \in L \cup Sentinels : g.next[n] = h.next[n],
         NEW c, NEW s, SameList(h, L, c, s)
  PROVE  SameList(g, L, c, s)
BY DEF SameList

-----------------------------------------------------------------------------
(* What a step leaves alone. *)

SameWindow ==
  \A u \in Threads :
    /\ pc'[u] = "mark" <=> pc[u] = "mark"
    /\ pc[u] = "mark" => call'[u].at = call[u].at /\ call'[u].raw = call[u].raw

Others(t) ==
  \A u \in Threads \ {t} :
    pc'[u] = pc[u] /\ call'[u] = call[u] /\ (mutex' = u <=> mutex = u)

(* The fields of a thread's call. *)
LEMMA CallTypes ==
  ASSUME TypeOK, NEW t \in Threads
  PROVE  /\ call[t].kind \in {"malloc", "calloc", "realloc"}
         /\ call[t].raw \in 0 .. SizeMod - 1
         /\ call[t].at \in Addr \cup {NULL} /\ call[t].old \in Nat \cup {NULL}
         /\ call[t] = [kind |-> call[t].kind, raw |-> call[t].raw,
                       at |-> call[t].at, old |-> call[t].old]
         /\ NULL \notin Threads
<1>1. call[t] \in [kind : {"malloc", "calloc", "realloc"}, raw : 0 .. SizeMod - 1,
                   at : Addr \cup {NULL}, old : Nat \cup {NULL}]
  BY DEF TypeOK
<1> QED
  BY <1>1, HeapAssumption

LEMMA SetCall ==
  ASSUME TypeOK, NEW t \in Threads, NEW p, NEW c,
         pc' = [pc EXCEPT ![t] = p], call' = [call EXCEPT ![t] = c]
  PROVE  /\ pc'[t] = p /\ call'[t] = c
         /\ \A u \in Threads \ {t} : pc'[u] = pc[u] /\ call'[u] = call[u]
         /\ p \in {"idle", "search", "mark", "release"}
              => pc' \in [Threads -> {"idle", "search", "mark", "release"}]
         /\ c \in [kind : {"malloc", "calloc", "realloc"}, raw : 0 .. SizeMod - 1,
                   at : Addr \cup {NULL}, old : Nat \cup {NULL}]
              => call' \in [Threads -> [kind : {"malloc", "calloc", "realloc"},
                                        raw  : 0 .. SizeMod - 1,
                                        at   : Addr \cup {NULL},
                                        old  : Nat \cup {NULL}]]
BY DEF TypeOK

LEMMA CallStep ==
  ASSUME CallInv, NEW t \in Threads, Others(t),
         \A r \in live : \A u \in Threads \ {t} :
           call[u].old = r.ptr => \E s \in live' : s.ptr = r.ptr,
         CallOK(t)',
         call'[t].old # NULL => \A u \in Threads \ {t} : call[u].old # call'[t].old,
         pc'[t] = "mark" =>
           \A u \in Threads \ {t} : pc[u] = "mark" => call[u].at # call'[t].at
  PROVE  CallInv'
<1>1. ASSUME NEW u \in Threads PROVE CallOK(u)'
  <2>1. CASE u = t
    BY <2>1
  <2>2. CASE u # t
    <3>1. /\ pc'[u] = pc[u] /\ call'[u] = call[u] /\ (mutex' = u <=> mutex = u)
          /\ CallOK(u)
      BY <2>2 DEF Others, CallInv
    <3>2. call[u].old # NULL => \E r \in live' : r.ptr = call[u].old
      BY <2>2, <3>1 DEF CallOK
    <3> QED
      BY <3>1, <3>2 DEF CallOK
  <2> QED
    BY <2>1, <2>2
<1>2. ASSUME NEW u \in Threads, NEW v \in Threads, u # v PROVE Apart(u, v)'
  <2>1. CASE u # t /\ v # t
    BY <1>2, <2>1 DEF Others, CallInv, Apart
  <2>2. CASE u = t
    BY <1>2, <2>2 DEF Others, Apart
  <2>3. CASE v = t
    BY <1>2, <2>3 DEF Others, Apart
  <2> QED
    BY <2>1, <2>2, <2>3
<1> QED
  BY <1>1, <1>2 DEF CallInv

LEMMA WindowKept ==
  ASSUME SameWindow
  PROVE  Handing' = Handing /\ (InWindow' <=> InWindow)
<1>1. \A a : a \in Handing' <=> a \in Handing
  BY DEF Handing, SameWindow
<1> QED
  BY <1>1 DEF InWindow, SameWindow

(* Steps that do not touch the heap. *)
LEMMA HeapKept ==
  ASSUME HeapInv, LiveInv, FitInv, SameWindow,
         UNCHANGED <<heap, brk, lastFencePost, osChunkList, live>>
  PROVE  /\ HeapInv' /\ LiveInv' /\ FitInv'
         /\ Headers' = Headers /\ FreeBlocks' = FreeBlocks
         /\ Handing' = Handing /\ (InWindow' <=> InWindow)
<1>1. Handing' = Handing /\ (InWindow' <=> InWindow)
  BY WindowKept
<1>2. HeapInv'
  BY <1>1 DEF HeapInv, Lefts
<1>3. Headers' = Headers
  BY DEF Headers
<1>4. FreeBlocks' = FreeBlocks
  BY <1>1, <1>3 DEF FreeBlocks
<1>5. LiveInv'
  BY <1>1, <1>3 DEF LiveInv
<1>6. FitInv'
  BY DEF FitInv, SameWindow
<1> QED
  BY <1>1, <1>2, <1>3, <1>4, <1>5, <1>6

(* The search the mutex holder makes over an unchanged heap. *)
LEMMA SearchKept ==
  ASSUME SearchInv, heap' = heap, FreeBlocks' = FreeBlocks,
         mutex' # NULL => UNCHANGED <<mutex, freelist, cur>>
  PROVE  SearchInv'
BY DEF SearchInv

-----------------------------------------------------------------------------
(* The steps, one by one. *)

LEMMA RequestStep ==
  ASSUME IInv, NEW t \in Threads, NEW kind \in {"malloc", "calloc", "realloc"},
         NEW raw \in Requests, NEW old \in Nat \cup {NULL},
         kind = "realloc" <=> old # NULL,
         old # NULL => Unclaimed(old) /\ \E r \in live : r.ptr = old,
         Request(t, kind, raw, old)
  PROVE  IInv'
<1> DEFINE c == [kind |-> kind, raw |-> raw, at |-> NULL, old |-> old]
<1>1. /\ pc[t] = "idle" /\ mutex = NULL /\ raw # 0 /\ mutex' = t
      /\ pc' = [pc EXCEPT ![t] = "search"] /\ call' = [call EXCEPT ![t] = c]
      /\ StartSearch(heap, raw) /\ lastFreed' = NULL
      /\ UNCHANGED <<heap, brk, lastFencePost, osChunkList, live, status>>
  BY DEF Request
<1>2. raw \in 0 .. SizeMod - 1
  BY RequestWords
<1>3. TypeOK /\ HeapInv /\ CallInv /\ SearchInv /\ LiveInv /\ FitInv /\ FreedInv
  BY DEF IInv
<1>4. /\ pc'[t] = "search" /\ call'[t] = c
      /\ \A u \in Threads \ {t} : pc'[u] = pc[u] /\ call'[u] = call[u]
      /\ pc' \in [Threads -> {"idle", "search", "mark", "release"}]
      /\ call' \in [Threads -> [kind : {"malloc", "calloc", "realloc"},
                                raw  : 0 .. SizeMod - 1,
                                at   : Addr \cup {NULL},
                                old  : Nat \cup {NULL}]]
  <2>1. c \in [kind : {"malloc", "calloc", "realloc"}, raw : 0 .. SizeMod - 1,
               at : Addr \cup {NULL}, old : Nat \cup {NULL}]
    BY <1>2
  <2> HIDE DEF c
  <2> QED
    BY <1>1, <1>3, <2>1, SetCall
<1>5. NULL \notin Threads
  BY HeapAssumption
<1>6. SameWindow
  BY <1>1, <1>4 DEF SameWindow
<1>7. /\ HeapInv' /\ LiveInv' /\ FitInv'
      /\ FreeBlocks' = FreeBlocks
  BY <1>1, <1>3, <1>6, HeapKept
<1>8. freelist' \in Sentinels /\ cur' \in FreeBlocks \cup Sentinels
      /\ SameList(heap, FreeBlocks, cur', freelist')
  <2>1. PICK E : Sound(heap, Lefts, E, Handing, brk)
    BY <1>3 DEF HeapInv
  <2>2. Listing(heap, FreeBlocks) /\ heap \in HeapRecord
    BY <2>1, FreeIsVacant DEF Sound
  <2> QED
    BY <1>1, <2>2, SearchStart DEF StartSearch
<1>9. SearchInv'
  BY <1>1, <1>7, <1>8 DEF SearchInv
<1>10. CallInv'
  <2>1. Others(t)
    BY <1>1, <1>4, <1>5 DEF Others
  <2>2. CallOK(t)'
    BY <1>1, <1>4 DEF CallOK
  <2>3. \A u \in Threads \ {t} : call'[t].old # NULL => call[u].old # call'[t].old
    BY <1>4 DEF Unclaimed
  <2>4. pc'[t] # "mark"
    BY <1>4
  <2> QED
    BY <1>1, <1>3, <2>1, <2>2, <2>3, <2>4, CallStep
<1>11. FreedInv'
  BY <1>1, <1>3 DEF FreedInv
<1>12. TypeOK'
  <2>1. /\ freelist' \in Sentinels \cup {NULL} /\ cur' \in Node \cup {NULL}
    <3>1. FreeBlocks \subseteq Node /\ Sentinels \subseteq Node
      BY SentinelFacts DEF FreeBlocks, Headers
    <3> QED
      BY <1>8, <3>1
  <2> QED
    BY <1>1, <1>3, <1>4, <2>1 DEF TypeOK
<1> QED
  BY <1>7, <1>9, <1>10, <1>11, <1>12 DEF IInv

LEMMA ReallocZeroStep ==
  ASSUME IInv, NEW t \in Threads, ReallocZero(t)
  PROVE  IInv'
<1>1. /\ pc[t] = "idle" /\ mutex = NULL
      /\ pc' = [pc EXCEPT ![t] = "release"]
      /\ UNCHANGED <<heap, brk, lastFencePost, osChunkList, mutex, freelist, cur,
                     live, lastFreed, status>>
  BY DEF ReallocZero
<1>2. PICK r \in live :
        /\ Unclaimed(r.ptr)
        /\ call' = [call EXCEPT ![t] = [NoCall EXCEPT !.kind = "realloc", !.old = r.ptr]]
  BY DEF ReallocZero
<1> DEFINE c == [kind |-> "realloc", raw |-> 0, at |-> NULL, old |-> r.ptr]
<1>3. TypeOK /\ HeapInv /\ CallInv /\ SearchInv /\ LiveInv /\ FitInv /\ FreedInv
  BY DEF IInv
<1>4. r.ptr \in Addr /\ r.ptr \in Nat /\ r.ptr # NULL
  BY <1>3, AddrIsNat, SentinelFacts DEF LiveInv
<1>5. call' = [call EXCEPT ![t] = c]
  <2>1. PICK d : d = [NoCall EXCEPT !.kind = "realloc", !.old = r.ptr]
    OBVIOUS
  <2>2. /\ d = [kind |-> d.kind, raw |-> d.raw, at |-> d.at, old |-> d.old]
        /\ d.kind = "realloc" /\ d.raw = 0 /\ d.at = NULL /\ d.old = r.ptr
    BY <2>1 DEF NoCall
  <2>3. d = c
    BY <2>2
  <2> QED
    BY <1>2, <2>1, <2>3
<1>6. /\ pc'[t] = "release" /\ call'[t] = c
      /\ \A u \in Threads \ {t} : pc'[u] = pc[u] /\ call'[u] = call[u]
      /\ pc' \in [Threads -> {"idle", "search", "mark", "release"}]
      /\ call' \in [Threads -> [kind : {"malloc", "calloc", "realloc"},
                                raw  : 0 .. SizeMod - 1,
                                at   : Addr \cup {NULL},
                                old  : Nat \cup {NULL}]]
  <2>1. c \in [kind : {"malloc", "calloc", "realloc"}, raw : 0 .. SizeMod - 1,
               at : Addr \cup {NULL}, old : Nat \cup {NULL}]
    <3>1. 0 \in 0 .. SizeMod - 1
      BY SizeModAssumption, SMT
    <3> QED
      BY <1>4, <3>1
  <2> HIDE DEF c
  <2> QED
    BY <1>1, <1>3, <1>5, <2>1, SetCall
<1>7. SameWindow
  BY <1>1, <1>6 DEF SameWindow
<1>8. /\ HeapInv' /\ LiveInv' /\ FitInv'
      /\ FreeBlocks' = FreeBlocks /\ (InWindow' <=> InWindow)
  BY <1>1, <1>3, <1>7, HeapKept
<1>9. SearchInv'
  BY <1>1, <1>3, <1>8, SearchKept
<1>10. CallInv'
  <2>1. Others(t) /\ t # NULL
    BY <1>1, <1>6, HeapAssumption DEF Others
  <2>2. CallOK(t)'
    BY <1>1, <1>4, <1>6, <2>1 DEF CallOK
  <2>3. \A u \in Threads \ {t} : call[u].old # call'[t].old
    BY <1>2, <1>6 DEF Unclaimed
  <2>4. pc'[t] # "mark"
    BY <1>6
  <2> QED
    BY <1>1, <1>3, <2>1, <2>2, <2>3, <2>4, CallStep
<1>11. FreedInv'
  BY <1>1, <1>3, <1>8 DEF FreedInv
<1>12. TypeOK'
  BY <1>1, <1>3, <1>6 DEF TypeOK
<1> QED
  BY <1>8, <1>9, <1>10, <1>11, <1>12 DEF IInv

(* What the invariant says of the heap, in the words of the lemmas. *)
LEMMA HeapNow ==
  ASSUME TypeOK, HeapInv
  PROVE  \E E :
           /\ Sound(heap, Lefts, E, Handing, brk) /\ lastFencePost \in E
           /\ brk \in Int /\ brk \in Nat /\ brk <= HeapLimit
           /\ Listing(heap, FreeBlocks)
           /\ heap \in HeapRecord /\ ~heap.wild /\ FreeBlocks \subseteq Addr
<1>1. PICK E : Sound(heap, Lefts, E, Handing, brk) /\ lastFencePost \in E
  BY DEF HeapInv
<1>2. brk \in Int /\ brk \in Nat /\ brk <= HeapLimit
  BY HeapAssumption, SMT DEF TypeOK
<1>3. /\ Listing(heap, FreeBlocks)
      /\ heap \in HeapRecord /\ ~heap.wild /\ FreeBlocks \subseteq Addr
  BY <1>1, <1>2, SoundParts, FreeIsVacant
<1> QED
  BY <1>1, <1>2, <1>3

LEMMA SkipSmallStep ==
  ASSUME IInv, NEW t \in Threads, SkipSmall(t)
  PROVE  IInv'
<1>1. /\ mutex = t /\ cur # freelist
      /\ cur' = heap.next[cur] /\ heap' = [heap EXCEPT !.wild = cur' = NULL]
      /\ UNCHANGED <<brk, lastFencePost, osChunkList, mutex, pc, call,
                     freelist, live, lastFreed, status>>
  BY DEF SkipSmall, Searching
<1>2. TypeOK /\ HeapInv /\ CallInv /\ SearchInv /\ LiveInv /\ FitInv /\ FreedInv
  BY DEF IInv
<1>3. mutex # NULL
  BY <1>1, HeapAssumption
<1>4. Listing(heap, FreeBlocks) /\ heap \in HeapRecord /\ ~heap.wild /\ FreeBlocks \subseteq Addr
  BY <1>2, HeapNow
<1>5. /\ freelist \in Sentinels /\ cur \in FreeBlocks \cup Sentinels
      /\ SameList(heap, FreeBlocks, cur, freelist)
  BY <1>2, <1>3 DEF SearchInv
<1>6. /\ cur' \in FreeBlocks \cup Sentinels /\ cur' # NULL
      /\ SameList(heap, FreeBlocks, cur', freelist)
  BY <1>1, <1>4, <1>5, SearchStep
<1>7. heap' = heap
  BY <1>1, <1>4, <1>6 DEF HeapRecord
<1>8. SameWindow
  BY <1>1 DEF SameWindow
<1>9. /\ HeapInv' /\ LiveInv' /\ FitInv'
      /\ FreeBlocks' = FreeBlocks /\ (InWindow' <=> InWindow)
  BY <1>1, <1>2, <1>7, <1>8, HeapKept
<1>10. SearchInv'
  BY <1>1, <1>5, <1>6, <1>7, <1>9 DEF SearchInv
<1>11. CallInv'
  BY <1>1, <1>2 DEF CallInv, CallOK, Apart
<1>12. FreedInv'
  BY <1>1, <1>2, <1>7, <1>9 DEF FreedInv
<1>13. TypeOK'
  <2>1. cur' \in Node \cup {NULL}
    BY <1>4, <1>6, SentinelFacts
  <2> QED
    BY <1>1, <1>2, <1>7, <2>1 DEF TypeOK
<1> QED
  BY <1>9, <1>10, <1>11, <1>12, <1>13 DEF IInv

LEMMA NoCallType ==
  NoCall \in [kind : {"malloc", "calloc", "realloc"}, raw : 0 .. SizeMod - 1,
              at : Addr \cup {NULL}, old : Nat \cup {NULL}]
<1>1. 0 \in 0 .. SizeMod - 1
  BY SizeModAssumption, SMT
<1> QED
  BY <1>1 DEF NoCall

(* The call of thread t, which held no lock or lets it go, is over. *)
LEMMA CallOver ==
  ASSUME TypeOK, CallInv, NEW t \in Threads,
         pc' = [pc EXCEPT ![t] = "idle"], call' = [call EXCEPT ![t] = NoCall],
         mutex' = NULL, mutex \in {t, NULL},
         \A r \in live : \A u \in Threads \ {t} :
           call[u].old = r.ptr => \E s \in live' : s.ptr = r.ptr
  PROVE  CallInv'
<1>1. /\ pc'[t] = "idle" /\ call'[t] = NoCall
      /\ \A u \in Threads \ {t} : pc'[u] = pc[u] /\ call'[u] = call[u]
  BY SetCall
<1>2. Others(t)
  BY <1>1, HeapAssumption DEF Others
<1>3. CallOK(t)' /\ call'[t].old = NULL /\ pc'[t] # "mark"
  BY <1>1, HeapAssumption DEF CallOK, NoCall
<1> QED
  BY <1>2, <1>3, CallStep

LEMMA OutOfMemoryStep ==
  ASSUME IInv, NEW t \in Threads, OutOfMemory(t)
  PROVE  IInv'
<1>1. /\ mutex = t /\ pc[t] = "search" /\ mutex' = NULL
      /\ pc' = [pc EXCEPT ![t] = "idle"] /\ call' = [call EXCEPT ![t] = NoCall]
      /\ status' = AfterNull(call[t].kind)
      /\ freelist' = NULL /\ cur' = NULL
      /\ UNCHANGED <<heap, brk, lastFencePost, osChunkList, live, lastFreed>>
  BY DEF OutOfMemory, Searching, EndSearch
<1>2. TypeOK /\ HeapInv /\ CallInv /\ SearchInv /\ LiveInv /\ FitInv /\ FreedInv
  BY DEF IInv
<1>3. /\ pc'[t] = "idle" /\ call'[t] = NoCall
      /\ \A u \in Threads \ {t} : pc'[u] = pc[u] /\ call'[u] = call[u]
      /\ pc' \in [Threads -> {"idle", "search", "mark", "release"}]
      /\ call' \in [Threads -> [kind : {"malloc", "calloc", "realloc"},
                                raw  : 0 .. SizeMod - 1,
                                at   : Addr \cup {NULL},
                                old  : Nat \cup {NULL}]]
  BY <1>1, <1>2, NoCallType, SetCall
<1>4. SameWindow
  BY <1>1, <1>3 DEF SameWindow
<1>5. /\ HeapInv' /\ LiveInv' /\ FitInv' /\ (InWindow' <=> InWindow)
  BY <1>1, <1>2, <1>4, HeapKept
<1>6. SearchInv'
  BY <1>1 DEF SearchInv
<1>7. CallInv'
  BY <1>1, <1>2, CallOver
<1>8. status' \in {"running", "exited", "crashed"}
  BY <1>1, <1>2 DEF AfterNull, TypeOK, FreedInv
<1>9. FreedInv'
  BY <1>1, <1>2, <1>5, <1>8 DEF FreedInv
<1>10. TypeOK'
  BY <1>1, <1>2, <1>3, <1>8 DEF TypeOK
<1> QED
  BY <1>5, <1>6, <1>7, <1>9, <1>10 DEF IInv

LEMMA DoubleFreeStep ==
  ASSUME IInv, NEW t \in Threads, DoubleFree(t)
  PROVE  IInv'
<1>1. /\ lastFreed # NULL
      /\ status' = IF heap.state[lastFreed] = "unallocated" THEN "exited" ELSE "undetected"
      /\ UNCHANGED <<heap, brk, lastFencePost, osChunkList, mutex, pc, call,
                     freelist, cur, live, lastFreed>>
  BY DEF DoubleFree
<1>2. TypeOK /\ HeapInv /\ CallInv /\ SearchInv /\ LiveInv /\ FitInv /\ FreedInv
  BY DEF IInv
<1>3. status' = "exited"
  BY <1>1, <1>2 DEF FreedInv
<1>4. SameWindow
  BY <1>1 DEF SameWindow
<1>5. /\ HeapInv' /\ LiveInv' /\ FitInv'
      /\ FreeBlocks' = FreeBlocks /\ (InWindow' <=> InWindow)
  BY <1>1, <1>2, <1>4, HeapKept
<1>6. SearchInv'
  BY <1>1, <1>2, <1>5, SearchKept
<1>7. CallInv'
  BY <1>1, <1>2 DEF CallInv, CallOK, Apart
<1>8. FreedInv'
  BY <1>1, <1>2, <1>3, <1>5 DEF FreedInv
<1>9. TypeOK'
  BY <1>1, <1>2, <1>3 DEF TypeOK
<1> QED
  BY <1>5, <1>6, <1>7, <1>8, <1>9 DEF IInv

LEMMA ForeignSbrkStep ==
  ASSUME IInv, ForeignSbrk
  PROVE  IInv'
<1>1. PICK n \in ForeignSizes : brk + n <= HeapLimit /\ brk' = brk + n
  BY DEF ForeignSbrk
<1>2. UNCHANGED <<heap, lastFencePost, osChunkList, mutex, pc, call, freelist,
                  cur, live, lastFreed, status>>
  BY DEF ForeignSbrk
<1>3. TypeOK /\ HeapInv /\ CallInv /\ SearchInv /\ LiveInv /\ FitInv /\ FreedInv
  BY DEF IInv
<1>4. PICK E : /\ Sound(heap, Lefts, E, Handing, brk) /\ lastFencePost \in E
               /\ brk \in Int /\ brk \in Nat
  BY <1>3, HeapNow
<1>5. brk' \in Int /\ brk <= brk' /\ brk' \in Arena .. HeapLimit
  <2>1. n \in Nat /\ brk \in Arena .. HeapLimit /\ Arena \in Nat /\ HeapLimit \in Nat
    BY <1>3, HeapAssumption DEF TypeOK
  <2> QED
    BY <1>1, <1>4, <2>1, SMT
<1>6. /\ Handing' = Handing /\ Headers' = Headers /\ (InWindow' <=> InWindow)
      /\ Lefts' = Lefts
  BY <1>2 DEF Handing, Headers, InWindow, Lefts
<1>7. FreeBlocks' = FreeBlocks
  BY <1>2, <1>6 DEF FreeBlocks
<1>8. HeapInv'
  <2>1. Sound(heap, Lefts, E, Handing, brk')
    BY <1>4, <1>5, SoundBelow
  <2> QED
    BY <2>1, <1>2, <1>4, <1>6 DEF HeapInv
<1>9. LiveInv' /\ FitInv' /\ FreedInv'
  BY <1>2, <1>3, <1>6 DEF LiveInv, FitInv, FreedInv
<1>10. SearchInv'
  BY <1>2, <1>3, <1>7, SearchKept
<1>11. CallInv'
  BY <1>2, <1>3 DEF CallInv, CallOK, Apart
<1>12. TypeOK'
  BY <1>2, <1>3, <1>5 DEF TypeOK
<1> QED
  BY <1>8, <1>9, <1>10, <1>11, <1>12 DEF IInv

-----------------------------------------------------------------------------
(* A block is handed out: the mutex is free, the block waits to be marked. *)
LEMMA HandOutStep ==
  ASSUME IInv, NEW t \in Threads, mutex = t, pc[t] = "search",
         NEW at \in Addr, HandOut(t, at), at \notin Handing,
         \A r \in live : r.ptr - HDR # at,
         NEW E, Sound(heap', Lefts, E, Handing \cup {at}, brk), lastFencePost \in E,
         Kept(heap, heap', Headers \ FreeBlocks), heap'.size[at] >= Want(t)
  PROVE  IInv'
<1> DEFINE c == [call[t] EXCEPT !.at = at]
<1>1. /\ mutex' = NULL
      /\ pc' = [pc EXCEPT ![t] = "mark"] /\ call' = [call EXCEPT ![t].at = at]
      /\ freelist' = NULL /\ cur' = NULL
      /\ UNCHANGED <<brk, lastFencePost, osChunkList, live, lastFreed, status>>
  BY DEF HandOut, EndSearch
<1>2. TypeOK /\ HeapInv /\ CallInv /\ SearchInv /\ LiveInv /\ FitInv /\ FreedInv
  BY DEF IInv
<1>3. call' = [call EXCEPT ![t] = c]
  BY <1>1
<1>4. /\ c.kind = call[t].kind /\ c.raw = call[t].raw /\ c.at = at /\ c.old = call[t].old
      /\ c \in [kind : {"malloc", "calloc", "realloc"}, raw : 0 .. SizeMod - 1,
                at : Addr \cup {NULL}, old : Nat \cup {NULL}]
  <2>1. c = [call[t] EXCEPT !.at = at]
    OBVIOUS
  <2> HIDE DEF c
  <2>2. call[t] \in [kind : {"malloc", "calloc", "realloc"}, raw : 0 .. SizeMod - 1,
                     at : Addr \cup {NULL}, old : Nat \cup {NULL}]
    BY <1>2 DEF TypeOK
  <2> QED
    BY <2>1, <2>2
<1> HIDE DEF c
<1>5. /\ pc'[t] = "mark" /\ call'[t] = c
      /\ \A u \in Threads \ {t} : pc'[u] = pc[u] /\ call'[u] = call[u]
      /\ pc' \in [Threads -> {"idle", "search", "mark", "release"}]
      /\ call' \in [Threads -> [kind : {"malloc", "calloc", "realloc"},
                                raw  : 0 .. SizeMod - 1,
                                at   : Addr \cup {NULL},
                                old  : Nat \cup {NULL}]]
  <2>1. pc' = [pc EXCEPT ![t] = "mark"]
    BY <1>1
  <2> QED
    BY <2>1, <1>2, <1>3, <1>4, SetCall
<1>6. Handing' = Handing \cup {at}
  <2>1. \A a : a \in Handing' <=> a \in Handing \/ a = at
    BY <1>4, <1>5 DEF Handing
  <2> QED
    BY <2>1
<1>7. at # NULL /\ t # NULL
  BY SentinelFacts, HeapAssumption
<1>8. brk \in Int /\ Handing \subseteq Heads(heap.size)
  BY <1>2, HeapNow, SoundParts
<1>9. heap' \in HeapRecord
  BY <1>8, SoundParts
<1>10. HeapInv'
  <2>1. Lefts' = Lefts
    BY <1>1 DEF Lefts
  <2> QED
    BY <1>1, <1>6, <2>1 DEF HeapInv
<1>11. \A a \in Headers \ FreeBlocks :
         /\ a \in Headers' /\ heap'.size[a] = heap.size[a] /\ heap'.state[a] = heap.state[a]
  BY DEF Kept, Headers, Heads
<1>12. \A r \in live : r.ptr - HDR \in Headers \ FreeBlocks
  BY <1>2 DEF LiveInv, FreeBlocks
<1>13. LiveInv'
  BY <1>1, <1>2, <1>6, <1>11, <1>12 DEF LiveInv
<1>14. FitInv'
  <2> SUFFICES ASSUME Unwrapped
               PROVE  /\ \A r \in live' : HDR + r.len <= heap'.size[r.ptr - HDR]
                      /\ \A u \in Threads : pc'[u] = "mark" =>
                           HDR + (call'[u].raw + 7) \div 8 <= heap'.size[call'[u].at]
    BY DEF FitInv
  <2>1. \A r \in live' : HDR + r.len <= heap'.size[r.ptr - HDR]
    BY <1>1, <1>2, <1>11, <1>12 DEF FitInv
  <2>2. ASSUME NEW u \in Threads, u # t, pc'[u] = "mark"
        PROVE  HDR + (call'[u].raw + 7) \div 8 <= heap'.size[call'[u].at]
    <3>1. pc[u] = "mark" /\ call'[u] = call[u]
      BY <1>5, <2>2
    <3>2. call[u].at \in Headers \ FreeBlocks
      BY <1>8, <3>1, HandingIs, FreeIsVacant DEF Vacant
    <3> QED
      BY <1>2, <1>11, <3>1, <3>2 DEF FitInv
  <2>3. HDR + (call'[t].raw + 7) \div 8 <= heap'.size[call'[t].at]
    <3>1. call[t].raw \in Requests /\ call[t].raw < SizeMod - 23
      BY <1>2 DEF CallInv, CallOK, Unwrapped
    <3>2. HDR + (call[t].raw + 7) \div 8 <= Want(t) /\ Want(t) \in Nat
      BY <3>1, RequestWords DEF Want
    <3>3. heap'.size[at] \in 0 .. HeapLimit
      BY <1>9, RecordTypes
    <3>4. (call[t].raw + 7) \div 8 \in Nat
      BY <3>1, RequestWords
    <3>5. HDR + (call[t].raw + 7) \div 8 <= heap'.size[at]
      BY <3>2, <3>3, <3>4, HeaderWords, AddrIsNat, SMT
    <3> QED
      BY <1>4, <1>5, <3>5
  <2> QED
    BY <2>1, <2>2, <2>3
<1>15. CallInv'
  <2>1. Others(t)
    BY <1>1, <1>5, HeapAssumption DEF Others
  <2>2. CallOK(t)
    BY <1>2 DEF CallInv
  <2>3. CallOK(t)'
    BY <1>1, <1>4, <1>5, <1>7, <2>2 DEF CallOK
  <2>4. \A u \in Threads \ {t} : call'[t].old # NULL => call[u].old # call'[t].old
    BY <1>2, <1>4, <1>5 DEF CallInv, Apart
  <2>5. \A u \in Threads \ {t} : pc[u] = "mark" => call[u].at # call'[t].at
    BY <1>4, <1>5, HandingIs
  <2> QED
    BY <1>1, <1>2, <2>1, <2>3, <2>4, <2>5, CallStep
<1>16. FreedInv'
  BY <1>1, <1>2, <1>7 DEF FreedInv
<1>17. SearchInv'
  BY <1>1 DEF SearchInv
<1>18. TypeOK'
  BY <1>1, <1>2, <1>5, <1>9 DEF TypeOK
<1> QED
  BY <1>10, <1>13, <1>14, <1>15, <1>16, <1>17, <1>18 DEF IInv

(* The block a search has come to. *)
LEMMA SearchAt ==
  ASSUME IInv, NEW t \in Threads, Searching(t), cur # freelist
  PROVE  /\ cur \in FreeBlocks /\ cur \in Addr /\ cur \notin Handing
         /\ \A r \in live : r.ptr - HDR # cur
         /\ call[t].raw \in Requests
         /\ Want(t) \in Nat /\ Want(t) >= MIN
<1>1. mutex # NULL /\ mutex = t /\ pc[t] = "search"
  BY HeapAssumption DEF Searching
<1>2. Listing(heap, FreeBlocks)
  BY HeapNow DEF IInv
<1>3. cur \in FreeBlocks
  BY <1>1, <1>2, SearchStep DEF IInv, SearchInv
<1>4. cur \in Addr /\ cur \notin Handing /\ heap.state[cur] = "unallocated"
  BY <1>3 DEF FreeBlocks, Headers
<1>5. \A r \in live : r.ptr - HDR # cur
  BY <1>4 DEF IInv, LiveInv
<1>6. call[t].raw \in Requests
  BY <1>1 DEF IInv, CallInv, CallOK
<1> QED
  BY <1>3, <1>4, <1>5, <1>6, RequestWords DEF Want

LEMMA TakeSplitStep ==
  ASSUME IInv, NEW t \in Threads, TakeSplit(t)
  PROVE  IInv'
<1> DEFINE s == Want(t)
           ret == cur + heap.size[cur] - s
<1>1. /\ Searching(t) /\ cur # freelist /\ heap.size[cur] >= s + MIN
      /\ HandOut(t, ret)
  BY DEF TakeSplit
<1>2. PICK stale \in BlockState : heap' = SplitBlock(heap, cur, s, stale)
  BY DEF TakeSplit
<1>3. /\ cur \in FreeBlocks /\ cur \in Addr /\ s \in Nat /\ s >= MIN
      /\ \A r \in live : r.ptr - HDR # cur
  BY <1>1, SearchAt
<1>4. PICK E : /\ Sound(heap, Lefts, E, Handing, brk) /\ lastFencePost \in E
               /\ brk \in Int
  BY HeapNow DEF IInv
<1> HIDE DEF s
<1>5. cur \in Vacant(heap, Handing) /\ ret = cur + heap.size[cur] - s
  BY <1>3, FreeIsVacant
<1> HIDE DEF ret
<1>6. /\ Sound(heap', Lefts, E, Handing \cup {ret}, brk)
      /\ ret \in Addr \ Heads(heap.size) /\ heap'.size[ret] = s
      /\ Kept(heap, heap', Heads(heap.size) \ {cur})
  <2>1. SplitDone(heap, Lefts, E, Handing, brk, cur, s, ret, heap')
    BY <1>1, <1>2, <1>3, <1>4, <1>5, SplitSound
  <2> QED
    BY <2>1 DEF SplitDone
<1>7. ret \notin Handing
  BY <1>4, <1>6, SoundParts
<1>8. \A r \in live : r.ptr - HDR # ret
  BY <1>6, FreeIsVacant DEF IInv, LiveInv
<1>9. Kept(heap, heap', Headers \ FreeBlocks)
  BY <1>3, <1>6, FreeIsVacant DEF Kept
<1>10. heap'.size[ret] >= Want(t)
  BY <1>3, <1>6, SMT DEF s
<1>11. mutex = t /\ pc[t] = "search" /\ ret \in Addr
  BY <1>1, <1>6 DEF Searching
<1> QED
  BY <1>1, <1>4, <1>6, <1>7, <1>8, <1>9, <1>10, <1>11, HandOutStep

LEMMA TakeWholeStep ==
  ASSUME IInv, NEW t \in Threads, TakeWhole(t)
  PROVE  IInv'
<1>1. /\ Searching(t) /\ cur # freelist
      /\ heap.size[cur] \in Want(t) .. Want(t) + MIN - 1
      /\ heap' = FreelistRemove(heap, cur) /\ HandOut(t, cur)
  BY DEF TakeWhole
<1>2. /\ cur \in FreeBlocks /\ cur \in Addr /\ cur \notin Handing
      /\ \A r \in live : r.ptr - HDR # cur
      /\ Want(t) \in Nat
  BY <1>1, SearchAt
<1>3. PICK E : /\ Sound(heap, Lefts, E, Handing, brk) /\ lastFencePost \in E
               /\ brk \in Int
  BY HeapNow DEF IInv
<1>4. /\ Sound(heap', Lefts, E, Handing \cup {cur}, brk)
      /\ heap'.size = heap.size /\ heap'.state = heap.state
  BY <1>1, <1>2, <1>3, FreeIsVacant, RemoveSound
<1>5. Kept(heap, heap', Headers \ FreeBlocks)
  BY <1>4 DEF Kept, Headers, Heads
<1>6. heap'.size[cur] >= Want(t)
  BY <1>1, <1>2, <1>4, HeaderWords, SMT
<1>7. mutex = t /\ pc[t] = "search"
  BY <1>1 DEF Searching
<1> QED
  BY <1>1, <1>2, <1>3, <1>4, <1>5, <1>6, <1>7, HandOutStep

-----------------------------------------------------------------------------
LEMMA MarkStep ==
  ASSUME IInv, NEW t \in Threads, Mark(t)
  PROVE  IInv'
<1> DEFINE at == call[t].at
           new == Region(t, at, call[t].raw)
<1>1. /\ pc[t] = "mark"
      /\ heap' = [heap EXCEPT !.state[at] = "allocated", !.next[at] = NULL, !.prev[at] = NULL]
      /\ live' = live \cup {new}
      /\ UNCHANGED <<brk, lastFencePost, osChunkList, mutex, freelist, cur, lastFreed, status>>
  BY DEF Mark
<1>2. TypeOK /\ HeapInv /\ CallInv /\ SearchInv /\ LiveInv /\ FitInv /\ FreedInv
  BY DEF IInv
<1>3. \/ pc' = [pc EXCEPT ![t] = "release"] /\ call' = call /\ call[t].kind = "realloc"
      \/ pc' = [pc EXCEPT ![t] = "idle"] /\ call' = [call EXCEPT ![t] = NoCall]
  BY DEF Mark
<1>4. CallOK(t) /\ mutex # t
  <2>1. CallOK(t)
    BY <1>2 DEF CallInv
  <2> QED
    BY <2>1, <1>1 DEF CallOK
<1>5. /\ pc'[t] \in {"idle", "release"}
      /\ pc'[t] = "release" => call'[t] = call[t] /\ call[t].kind = "realloc"
      /\ pc'[t] = "idle" => call'[t] = NoCall
      /\ \A u \in Threads \ {t} : pc'[u] = pc[u] /\ call'[u] = call[u]
      /\ pc' \in [Threads -> {"idle", "search", "mark", "release"}]
      /\ call' \in [Threads -> [kind : {"malloc", "calloc", "realloc"},
                                raw  : 0 .. SizeMod - 1,
                                at   : Addr \cup {NULL},
                                old  : Nat \cup {NULL}]]
  <2>1. CASE pc' = [pc EXCEPT ![t] = "release"] /\ call' = call /\ call[t].kind = "realloc"
    BY <1>2, <2>1 DEF TypeOK
  <2>2. CASE pc' = [pc EXCEPT ![t] = "idle"] /\ call' = [call EXCEPT ![t] = NoCall]
    BY <1>2, <2>2, NoCallType, SetCall
  <2> QED
    BY <1>3, <2>1, <2>2
<1>6. PICK E : /\ Sound(heap, Lefts, E, Handing, brk) /\ lastFencePost \in E
               /\ brk \in Int /\ Listing(heap, FreeBlocks) /\ FreeBlocks \subseteq Addr
  BY <1>2, HeapNow
<1>7. at \in Handing /\ at \in Addr
  BY <1>1, <1>6, HandingIs, SoundParts
<1>8. Handing' = Handing \ {at}
  <2>1. \A u \in Threads \ {t} : pc[u] = "mark" => call[u].at # at
    BY <1>1, <1>2 DEF CallInv, Apart
  <2>2. \A a : a \in Handing' <=> a \in Handing /\ a # at
    BY <1>1, <1>5, <2>1 DEF Handing
  <2> QED
    BY <2>2
<1>9. new.by = t /\ new.ptr = at + HDR /\ new.len = (call[t].raw + 7) \div 8
  BY DEF Region
<1>10. call[t].raw \in Requests
  BY <1>1, <1>4 DEF CallOK
<1>11. /\ heap' = [heap EXCEPT !.state[at] = "allocated", !.next[at] = NULL, !.prev[at] = NULL]
       /\ new = [by |-> new.by, ptr |-> new.ptr, len |-> new.len]
  BY <1>1 DEF Region
<1> HIDE DEF at, new
<1>12. /\ new.ptr \in Addr /\ new.ptr \in Nat /\ new.ptr - HDR = at
       /\ new \in [by : Threads, ptr : Nat, len : Nat]
  <2>1. at \in Heads(heap.size) \ (Lefts \cup E) /\ Tags(heap.size, heap.left, Lefts, E, brk)
    BY <1>6, <1>7, SoundParts
  <2>2. /\ at \in Nat /\ heap.size[at] \in Nat /\ heap.size[at] >= 4
        /\ at + heap.size[at] \in Addr
    BY <1>6, <2>1, BlockTags
  <2>3. new.ptr \in Addr /\ new.ptr \in Nat /\ new.ptr - HDR = at
    BY <1>9, <2>2, HeaderWords, AddrIsNat, SMT DEF Addr
  <2>4. new.len \in Nat
    BY <1>9, <1>10, RequestWords
  <2> QED
    BY <1>9, <1>11, <2>3, <2>4
<1>13. /\ Sound(heap', Lefts, E, Handing \ {at}, brk)
       /\ heap'.size = heap.size /\ heap'.state = [heap.state EXCEPT ![at] = "allocated"]
       /\ \A n \in Node \ {at} : heap'.next[n] = heap.next[n]
  <2>1. MarkDone(heap, Lefts, E, Handing, brk, at, heap')
    BY <1>11, <1>6, <1>7, MarkSound
  <2> QED
    BY <2>1 DEF MarkDone
<1>14. /\ heap' \in HeapRecord /\ heap'.state[at] = "allocated"
       /\ \A a \in Addr \ {at} : heap'.state[a] = heap.state[a]
  <2>1. heap' \in HeapRecord /\ heap \in HeapRecord
    BY <1>6, <1>13, SoundParts
  <2> QED
    BY <2>1, <1>7, <1>13, RecordTypes
<1>15. HeapInv'
  <2>1. Lefts' = Lefts
    BY <1>1 DEF Lefts
  <2> QED
    BY <1>1, <1>6, <1>8, <1>13, <2>1 DEF HeapInv
<1>16. Headers' = Headers /\ at \in Headers
  <2>1. Handing \subseteq Heads(heap.size)
    BY <1>6, SoundParts
  <2> QED
    BY <1>7, <1>13, <2>1 DEF Headers, Heads
<1>17. FreeBlocks' = FreeBlocks
  <2>1. \A a \in Headers : a \in Addr
    BY DEF Headers
  <2> QED
    BY <1>7, <1>8, <1>14, <1>16, <2>1 DEF FreeBlocks
<1>18. LiveInv'
  <2>1. \A r \in live : /\ r.ptr \in Addr /\ r.ptr - HDR \in Headers \ Handing
                        /\ heap.state[r.ptr - HDR] = "allocated"
    BY <1>2 DEF LiveInv
  <2>2. \A r \in live : r.ptr - HDR # at /\ r.ptr - HDR \in Addr
    BY <1>7, <2>1 DEF Headers
  <2>3. \A r \in live : r.ptr # new.ptr
    BY <1>12, <2>2
  <2>4. \A r \in live' : /\ r.ptr \in Addr /\ r.ptr - HDR \in Headers' \ Handing'
                         /\ heap'.state[r.ptr - HDR] = "allocated"
    BY <1>1, <1>8, <1>12, <1>14, <1>16, <2>1, <2>2
  <2>5. \A r, s \in live' : r.ptr = s.ptr => r = s
    BY <1>1, <1>2, <2>3 DEF LiveInv
  <2> QED
    BY <2>4, <2>5 DEF LiveInv
<1>19. FitInv'
  <2> SUFFICES ASSUME Unwrapped
               PROVE  /\ \A r \in live' : HDR + r.len <= heap'.size[r.ptr - HDR]
                      /\ \A u \in Threads : pc'[u] = "mark" =>
                           HDR + (call'[u].raw + 7) \div 8 <= heap'.size[call'[u].at]
    BY DEF FitInv
  <2>1. \A r \in live : HDR + r.len <= heap'.size[r.ptr - HDR]
    BY <1>2, <1>13 DEF FitInv
  <2>2. HDR + new.len <= heap'.size[new.ptr - HDR]
    BY <1>1, <1>2, <1>9, <1>12, <1>13 DEF FitInv, at
  <2>3. \A u \in Threads : pc'[u] = "mark" =>
          HDR + (call'[u].raw + 7) \div 8 <= heap'.size[call'[u].at]
    BY <1>2, <1>5, <1>13 DEF FitInv
  <2> QED
    BY <1>1, <2>1, <2>2, <2>3
<1>20. SearchInv'
  <2> SUFFICES ASSUME mutex' # NULL
               PROVE  /\ freelist' \in Sentinels /\ cur' \in FreeBlocks' \cup Sentinels
                      /\ SameList(heap', FreeBlocks', cur', freelist')
    BY DEF SearchInv
  <2>1. /\ freelist \in Sentinels /\ cur \in FreeBlocks \cup Sentinels
        /\ SameList(heap, FreeBlocks, cur, freelist)
    BY <1>1, <1>2 DEF SearchInv
  <2>2. \A n \in FreeBlocks \cup Sentinels : heap'.next[n] = heap.next[n]
    <3>1. at \notin FreeBlocks \cup Sentinels
      BY <1>7, SentinelFacts DEF FreeBlocks
    <3>2. FreeBlocks \cup Sentinels \subseteq Node
      BY <1>6, SentinelFacts
    <3> QED
      BY <3>1, <3>2, <1>13
  <2>3. SameList(heap', FreeBlocks, cur, freelist)
    BY <2>1, <2>2, SameListElsewhere
  <2> QED
    BY <1>1, <1>17, <2>1, <2>3
<1>21. CallInv'
  <2>1. Others(t)
    BY <1>1, <1>5 DEF Others
  <2>2. CallOK(t)'
    <3>1. CASE pc'[t] = "release"
      BY <1>1, <1>4, <1>5, <3>1 DEF CallOK
    <3>2. CASE pc'[t] = "idle"
      BY <1>1, <1>4, <1>5, <3>2 DEF CallOK, NoCall
    <3> QED
      BY <1>5, <3>1, <3>2
  <2>3. call'[t].old # NULL => \A u \in Threads \ {t} : call[u].old # call'[t].old
    <3>1. call'[t].old # NULL => call'[t] = call[t]
      BY <1>5 DEF NoCall
    <3> QED
      BY <1>2, <3>1 DEF CallInv, Apart
  <2>4. pc'[t] # "mark"
    BY <1>5
  <2> QED
    BY <1>1, <1>2, <2>1, <2>2, <2>3, <2>4, CallStep
<1>22. FreedInv'
  BY <1>1, <1>2 DEF FreedInv, InWindow
<1>23. TypeOK'
  BY <1>1, <1>2, <1>5, <1>12, <1>14 DEF TypeOK
<1> QED
  BY <1>15, <1>18, <1>19, <1>20, <1>21, <1>22, <1>23 DEF IInv

-----------------------------------------------------------------------------
(* A block is freed while none waits to be marked. *)
LEMMA DeallocateStep ==
  ASSUME IInv, ~InWindow, ~InWindow', NEW r \in live, Deallocate(r.ptr)
  PROVE  /\ HeapInv' /\ LiveInv' /\ FitInv' /\ SearchInv' /\ FreedInv'
         /\ heap' \in HeapRecord /\ lastFreed' \in Addr
         /\ status' = status /\ mutex = NULL /\ mutex' = NULL
         /\ live' = {s \in live : s.ptr # r.ptr}
<1> DEFINE block == r.ptr - HDR
           h == [heap EXCEPT !.state[block] = "unallocated"]
<1>1. TypeOK /\ HeapInv /\ CallInv /\ SearchInv /\ LiveInv /\ FitInv /\ FreedInv
  BY DEF IInv
<1>2. /\ block \in Headers /\ block \in Addr /\ heap.state[block] = "allocated"
  BY <1>1 DEF LiveInv, Headers
<1>3. /\ mutex = NULL /\ heap' = FreeListDeallocate(h, block)
      /\ lastFreed' = block /\ status' = status
      /\ live' = {s \in live : s.ptr # r.ptr}
      /\ UNCHANGED <<brk, lastFencePost, osChunkList, mutex, freelist, cur>>
  BY <1>2 DEF Deallocate
<1>4. Handing = {} /\ Handing' = {}
  BY DEF Handing, InWindow
<1>5. PICK E : /\ Sound(heap, Lefts, E, {}, brk) /\ lastFencePost \in E
               /\ brk \in Int /\ brk <= HeapLimit /\ heap \in HeapRecord
  BY <1>1, <1>4, HeapNow
<1>6. /\ block \in Heads(heap.size) \ (Lefts \cup E)
  <2>1. \A a \in Lefts \cup E : heap.state[a] = "fencepost"
    BY <1>5, SoundParts
  <2> QED
    BY <1>2, <2>1, FreeIsVacant
<1>7. h = [heap EXCEPT !.state[block] = "unallocated"]
  OBVIOUS
<1> HIDE DEF h, block
<1>8. /\ Sound(h, Lefts, E, {block}, brk) /\ h.size = heap.size
      /\ h.state = [heap.state EXCEPT ![block] = "unallocated"]
  <2>1. UnmarkDone(heap, Lefts, E, brk, block, h)
    BY <1>2, <1>5, <1>6, <1>7, UnmarkSound
  <2> QED
    BY <2>1 DEF UnmarkDone
<1>9. h.state[block] = "unallocated" /\ \A a \in Addr \ {block} : h.state[a] = heap.state[a]
  BY <1>2, <1>5, <1>8, RecordTypes
<1>10. Freed(h, Lefts, E, block, brk, heap')
  BY <1>3, <1>5, <1>8, <1>9, DeallocateSound
<1>11. /\ Sound(heap', Lefts, E, {}, brk) /\ heap'.state = h.state
       /\ Kept(h, heap', Heads(h.size) \ (Vacant(h, {block}) \cup {block}))
  BY <1>10 DEF Freed
<1>12. \A a \in Headers \ {block} : heap.state[a] = "allocated" =>
         a \in Headers' /\ heap'.size[a] = heap.size[a] /\ heap'.state[a] = "allocated"
  <2> TAKE a \in Headers \ {block}
  <2> HAVE heap.state[a] = "allocated"
  <2>1. a \in Addr /\ a \in Heads(h.size) /\ h.state[a] = "allocated"
    BY <1>8, <1>9 DEF Headers, Heads
  <2>2. a \notin Vacant(h, {block})
    BY <2>1 DEF Vacant
  <2>3. a \in Heads(heap'.size) /\ heap'.size[a] = h.size[a] /\ heap'.state[a] = h.state[a]
    BY <2>1, <2>2, <1>11 DEF Kept
  <2> QED
    BY <2>1, <2>3, <1>8 DEF Headers, Heads
<1>13. HeapInv'
  <2>1. Lefts' = Lefts
    BY <1>3 DEF Lefts
  <2> QED
    BY <1>3, <1>4, <1>5, <1>11, <2>1 DEF HeapInv
<1>14. \A s \in live' :
         /\ s \in live /\ s.ptr - HDR \in Headers \ {block}
         /\ heap.state[s.ptr - HDR] = "allocated"
  <2> TAKE s \in live'
  <2>1. s \in live /\ s.ptr # r.ptr /\ s.ptr \in Addr /\ r.ptr \in Addr
    BY <1>1, <1>3 DEF LiveInv
  <2>2. s.ptr - HDR # r.ptr - HDR
    BY <2>1, AddrIsNat, HeaderWords, SMT
  <2> QED
    BY <1>1, <2>1, <2>2 DEF LiveInv, block
<1>15. LiveInv'
  BY <1>1, <1>4, <1>12, <1>14 DEF LiveInv
<1>16. FitInv'
  BY <1>1, <1>12, <1>14 DEF FitInv, InWindow
<1>17. SearchInv'
  BY <1>3 DEF SearchInv
<1>18. FreedInv'
  BY <1>1, <1>3, <1>9, <1>11 DEF FreedInv
<1>19. heap' \in HeapRecord
  BY <1>5, <1>11, SoundParts
<1> QED
  BY <1>2, <1>3, <1>13, <1>15, <1>16, <1>17, <1>18, <1>19

LEMMA FreeStep ==
  ASSUME IInv, ~InWindow, NEW t \in Threads, Free(t)
  PROVE  IInv'
<1>1. PICK r \in live : Unclaimed(r.ptr) /\ Deallocate(r.ptr)
  BY DEF Free
<1>2. UNCHANGED <<pc, call>>
  BY DEF Free
<1>3. ~InWindow'
  BY <1>2 DEF InWindow
<1>4. /\ HeapInv' /\ LiveInv' /\ FitInv' /\ SearchInv' /\ FreedInv'
      /\ heap' \in HeapRecord /\ lastFreed' \in Addr
      /\ status' = status /\ mutex = NULL /\ mutex' = NULL
      /\ live' = {s \in live : s.ptr # r.ptr}
  BY <1>1, <1>3, DeallocateStep
<1>5. CallInv'
  <2>1. \A u \in Threads : CallOK(u)'
    <3> TAKE u \in Threads
    <3>1. CallOK(u) /\ call[u].old # r.ptr
      BY <1>1 DEF IInv, CallInv, Unclaimed
    <3> QED
      BY <1>2, <1>4, <3>1 DEF CallOK
  <2>2. \A u, v \in Threads : u # v => Apart(u, v)'
    BY <1>2 DEF IInv, CallInv, Apart
  <2> QED
    BY <2>1, <2>2 DEF CallInv
<1>6. TypeOK'
  <2>1. UNCHANGED <<brk, lastFencePost, osChunkList, freelist, cur>> /\ TypeOK
    BY <1>1 DEF Deallocate, IInv
  <2> QED
    BY <1>2, <1>4, <2>1 DEF TypeOK
<1> QED
  BY <1>4, <1>5, <1>6 DEF IInv

LEMMA ReleaseOldStep ==
  ASSUME IInv, ~InWindow, NEW t \in Threads, ReleaseOld(t)
  PROVE  IInv'
<1>1. /\ pc[t] = "release" /\ Deallocate(call[t].old)
      /\ pc' = [pc EXCEPT ![t] = "idle"] /\ call' = [call EXCEPT ![t] = NoCall]
  BY DEF ReleaseOld
<1>2. TypeOK /\ CallInv /\ CallOK(t)
  BY DEF IInv, CallInv
<1>3. PICK r \in live : r.ptr = call[t].old
  BY <1>1, <1>2 DEF CallOK
<1>4. /\ pc'[t] = "idle" /\ call'[t] = NoCall
      /\ \A u \in Threads \ {t} : pc'[u] = pc[u] /\ call'[u] = call[u]
      /\ pc' \in [Threads -> {"idle", "search", "mark", "release"}]
      /\ call' \in [Threads -> [kind : {"malloc", "calloc", "realloc"},
                                raw  : 0 .. SizeMod - 1,
                                at   : Addr \cup {NULL},
                                old  : Nat \cup {NULL}]]
  BY <1>1, <1>2, NoCallType, SetCall
<1>5. ~InWindow'
  BY <1>4 DEF InWindow
<1>6. /\ HeapInv' /\ LiveInv' /\ FitInv' /\ SearchInv' /\ FreedInv'
      /\ heap' \in HeapRecord /\ lastFreed' \in Addr
      /\ status' = status /\ mutex = NULL /\ mutex' = NULL
      /\ live' = {s \in live : s.ptr # r.ptr}
  BY <1>1, <1>3, <1>5, DeallocateStep
<1>7. CallInv'
  <2>1. \A s \in live : \A u \in Threads \ {t} :
          call[u].old = s.ptr => \E w \in live' : w.ptr = s.ptr
    <3> SUFFICES ASSUME NEW s \in live, NEW u \in Threads \ {t}, call[u].old = s.ptr
                 PROVE  s \in live'
      OBVIOUS
    <3>1. call[t].old # NULL => call[t].old # call[u].old
      BY <1>2 DEF CallInv, Apart
    <3>2. call[t].old # NULL
      BY <1>1, <1>2 DEF CallOK
    <3> QED
      BY <1>3, <1>6, <3>1, <3>2
  <2> QED
    BY <1>1, <1>2, <1>6, <2>1, CallOver
<1>8. TypeOK'
  <2>1. UNCHANGED <<brk, lastFencePost, osChunkList, freelist, cur>>
    BY <1>1 DEF Deallocate
  <2> QED
    BY <1>2, <1>4, <1>6, <2>1 DEF TypeOK
<1> QED
  BY <1>6, <1>7, <1>8 DEF IInv

-----------------------------------------------------------------------------
(* The heap grows by a chunk, whether a separate one or not. *)
LEMMA GrowStep ==
  ASSUME IInv, NEW t \in Threads, NEW g, GrowBy(t, g), osChunkList' \in Seq(Addr),
         NEW E, Sound(g, Lefts', E, Handing, brk + Arena), brk + Arena - HDR \in E,
         Kept(heap, g, {a \in Headers : heap.state[a] = "allocated"} \cup Handing)
  PROVE  IInv'
<1>1. /\ mutex = t /\ pc[t] = "search" /\ brk + Arena <= HeapLimit
      /\ heap' = g /\ StartSearch(g, call[t].raw)
      /\ brk' = brk + Arena /\ lastFencePost' = brk + Arena - HDR
      /\ UNCHANGED <<mutex, pc, call, live, lastFreed, status>>
  BY DEF GrowBy, Searching
<1>2. TypeOK /\ HeapInv /\ CallInv /\ SearchInv /\ LiveInv /\ FitInv /\ FreedInv
  BY DEF IInv
<1>3. mutex # NULL /\ lastFreed = NULL
  BY <1>1, <1>2, HeapAssumption DEF FreedInv
<1>4. brk' \in Arena .. HeapLimit /\ brk + Arena \in Int
  <2>1. brk \in Arena .. HeapLimit /\ Arena \in Nat /\ HeapLimit \in Nat
    BY <1>2, HeapAssumption DEF TypeOK
  <2> QED
    BY <1>1, <2>1, SMT
<1>5. Handing' = Handing /\ (InWindow' <=> InWindow)
  BY <1>1 DEF Handing, InWindow
<1>6. HeapInv'
  BY <1>1, <1>5 DEF HeapInv
<1>7. /\ g \in HeapRecord /\ Listing(g, Vacant(g, Handing)) /\ E \subseteq Heads(g.size)
      /\ Vacant(g, Handing) \subseteq Heads(g.size)
  BY <1>4, SoundParts
<1>8. FreeBlocks' = Vacant(g, Handing)
  BY <1>1, <1>5 DEF FreeBlocks, Headers, Vacant, Heads
<1>9. call[t].raw \in Requests
  BY <1>1, <1>2 DEF CallInv, CallOK
<1>10. /\ freelist' \in Sentinels /\ cur' \in FreeBlocks' \cup Sentinels
       /\ SameList(g, FreeBlocks', cur', freelist')
  <2>1. /\ freelist' = PopulatedSentinel(g, BlockWords(call[t].raw))
        /\ cur' = g.next[freelist']
    BY <1>1 DEF StartSearch
  <2> QED
    BY <2>1, <1>7, <1>8, <1>9, SearchStart
<1>11. SearchInv'
  BY <1>1, <1>10 DEF SearchInv
<1>12. \A a \in Headers : heap.state[a] = "allocated" =>
         a \in Headers' /\ heap'.size[a] = heap.size[a] /\ heap'.state[a] = "allocated"
  BY <1>1 DEF Kept, Headers, Heads
<1>13. LiveInv'
  BY <1>1, <1>2, <1>5, <1>12 DEF LiveInv
<1>14. FitInv'
  <2>1. \A u \in Threads : pc[u] = "mark" => heap'.size[call[u].at] = heap.size[call[u].at]
    BY <1>1, HandingIs DEF Kept
  <2>2. \A r \in live : heap'.size[r.ptr - HDR] = heap.size[r.ptr - HDR]
    BY <1>2, <1>12 DEF LiveInv
  <2> QED
    BY <1>1, <1>2, <2>1, <2>2 DEF FitInv
<1>15. CallInv'
  BY <1>1, <1>2 DEF CallInv, CallOK, Apart
<1>16. FreedInv'
  BY <1>1, <1>2, <1>3 DEF FreedInv
<1>17. TypeOK'
  <2>1. lastFencePost' \in Addr
    BY <1>1, <1>7 DEF Heads
  <2>2. freelist' \in Sentinels \cup {NULL} /\ cur' \in Node \cup {NULL}
    <3>1. FreeBlocks' \subseteq Node /\ Sentinels \subseteq Node
      BY <1>7, <1>8, SentinelFacts DEF Heads
    <3> QED
      BY <1>10, <3>1
  <2> QED
    BY <1>1, <1>2, <1>4, <1>7, <2>1, <2>2 DEF TypeOK
<1> QED
  BY <1>6, <1>11, <1>13, <1>14, <1>15, <1>16, <1>17 DEF IInv

LEMMA GrowSeparateStep ==
  ASSUME IInv, NEW t \in Threads, GrowSeparate(t)
  PROVE  IInv'
<1> DEFINE g == FreelistInsert(AllocateChunk(heap, brk), brk + HDR)
<1>1. /\ GrowBy(t, g) /\ osChunkList' = Append(osChunkList, brk)
      /\ brk + Arena <= HeapLimit
  BY DEF GrowSeparate, GrowBy
<1>2. g = FreelistInsert(AllocateChunk(heap, brk), brk + HDR)
  OBVIOUS
<1> HIDE DEF g
<1>3. TypeOK /\ HeapInv
  BY DEF IInv
<1>4. PICK E : /\ Sound(heap, Lefts, E, Handing, brk) /\ lastFencePost \in E
               /\ brk \in Int /\ brk \in Nat
  BY <1>3, HeapNow
<1>5. /\ Sound(g, Lefts \cup {brk}, E \cup {brk + Arena - HDR}, Handing, brk + Arena)
      /\ Kept(heap, g, Heads(heap.size))
  <2>1. SeparateDone(heap, Lefts, E, Handing, brk, g)
    BY <1>1, <1>2, <1>4, SeparateSound
  <2> QED
    BY <2>1 DEF SeparateDone
<1>6. Handing \subseteq Heads(heap.size)
  BY <1>4, SoundParts
<1>7. Kept(heap, g, {a \in Headers : heap.state[a] = "allocated"} \cup Handing)
  BY <1>5, <1>6, FreeIsVacant DEF Kept
<1>8. brk \in Addr /\ osChunkList \in Seq(Addr)
  <2>1. Arena >= 8 /\ Arena \in Nat /\ HeapLimit \in Nat
    BY HeapAssumption, HeaderWords, SMT
  <2> QED
    BY <1>1, <1>3, <1>4, <2>1, SMT DEF TypeOK, Addr
<1>9. osChunkList' \in Seq(Addr)
  BY <1>1, <1>8
<1>10. Lefts' = Lefts \cup {brk}
  <2>1. /\ Len(osChunkList') = Len(osChunkList) + 1 /\ Len(osChunkList) \in Nat
        /\ \A i \in 1 .. Len(osChunkList) : osChunkList'[i] = osChunkList[i]
        /\ osChunkList'[Len(osChunkList) + 1] = brk
    BY <1>1, <1>8
  <2>2. \A i : i \in 1 .. Len(osChunkList) + 1
               <=> i \in 1 .. Len(osChunkList) \/ i = Len(osChunkList) + 1
    BY <2>1, SMT
  <2>3. \A a : a \in Lefts' <=> a \in Lefts \cup {brk}
    BY <2>1, <2>2 DEF Lefts
  <2> QED
    BY <2>3
<1>11. Sound(g, Lefts', E \cup {brk + Arena - HDR}, Handing, brk + Arena)
  BY <1>5, <1>10
<1> QED
  BY <1>1, <1>7, <1>9, <1>11, GrowStep

(* The old right fencepost becomes part of a block: no block may wait to   *)
(* be marked meanwhile, or its stale state bits would count.               *)
LEMMA GrowJoinedStep ==
  ASSUME IInv, ~InWindow, NEW t \in Threads, GrowJoined(t)
  PROVE  IInv'
<1> DEFINE g == JoinChunk(heap, brk)
           p == brk - HDR
           rfp == brk + Arena - HDR
<1>1. /\ GrowBy(t, g) /\ osChunkList' = osChunkList /\ p = lastFencePost
      /\ brk + Arena <= HeapLimit
  BY DEF GrowJoined, GrowBy
<1>2. g = JoinChunk(heap, brk) /\ p = brk - HDR /\ rfp = brk + Arena - HDR
  OBVIOUS
<1> HIDE DEF g, p, rfp
<1>3. TypeOK /\ HeapInv
  BY DEF IInv
<1>4. Handing = {}
  BY DEF Handing, InWindow
<1>5. PICK E : /\ Sound(heap, Lefts, E, {}, brk) /\ lastFencePost \in E
               /\ brk \in Int /\ brk \in Nat
  BY <1>3, <1>4, HeapNow
<1>6. /\ Sound(g, Lefts, (E \ {p}) \cup {rfp}, {}, brk + Arena)
      /\ Kept(heap, g, Heads(heap.size) \ (Vacant(heap, {}) \cup {p}))
  <2>1. JoinDone(heap, Lefts, E, brk, g)
    BY <1>1, <1>2, <1>5, JoinSound
  <2> QED
    BY <1>2, <2>1 DEF JoinDone
<1>7. heap.state[p] = "fencepost"
  BY <1>1, <1>5, SoundParts
<1>8. Kept(heap, g, {a \in Headers : heap.state[a] = "allocated"} \cup Handing)
  BY <1>4, <1>6, <1>7, FreeIsVacant DEF Kept, Vacant
<1>9. osChunkList' \in Seq(Addr) /\ Lefts' = Lefts
  BY <1>1, <1>3 DEF TypeOK, Lefts
<1>10. /\ Sound(g, Lefts', (E \ {p}) \cup {rfp}, Handing, brk + Arena)
       /\ brk + Arena - HDR \in (E \ {p}) \cup {rfp}
  BY <1>2, <1>4, <1>6, <1>9
<1> QED
  BY <1>1, <1>8, <1>9, <1>10, GrowStep

-----------------------------------------------------------------------------
(* The invariant holds at first and is kept. *)

LEMMA InitStep ==
  ASSUME Init
  PROVE  IInv
<1>1. /\ heap = FreelistInsert(AllocateChunk(EmptyHeap, 0), HDR)
      /\ brk = Arena /\ lastFencePost = Arena - HDR
      /\ osChunkList = <<0>> /\ mutex = NULL
      /\ pc = [t \in Threads |-> "idle"] /\ call = [t \in Threads |-> NoCall]
      /\ freelist = NULL /\ cur = NULL /\ live = {} /\ lastFreed = NULL
      /\ status = "running"
  BY DEF Init
<1>2. Handing = {} /\ ~InWindow
  BY <1>1 DEF Handing, InWindow
<1>3. Lefts = {0} /\ osChunkList \in Seq(Addr) /\ 0 \in Addr
  <2>1. 0 \in Addr
    BY HeapAssumption, HeaderWords, SMT DEF Addr
  <2>2. \A a : a \in Lefts <=> a = 0
    BY <1>1 DEF Lefts
  <2> QED
    BY <1>1, <2>1, <2>2
<1>4. Sound(heap, {0}, {Arena - HDR}, {}, Arena)
  <2>1. Arena \in Nat /\ Arena <= HeapLimit /\ 0 + HDR = HDR /\ 0 + Arena = Arena
        /\ 0 + Arena - HDR = Arena - HDR
    BY HeapAssumption, HeaderWords, SMT
  <2>2. SeparateDone(EmptyHeap, {}, {}, {}, 0, heap)
    BY <1>1, <2>1, EmptySound, SeparateSound
  <2>3. PICK F, E, e : /\ Sound(heap, F, E, {}, e) /\ F = {} \cup {0} /\ e = 0 + Arena
                      /\ E = {} \cup {0 + Arena - HDR}
    BY <2>2 DEF SeparateDone
  <2>4. F = {0} /\ e = Arena
    BY <2>1, <2>3
  <2>5. E = {Arena - HDR}
    BY <2>1, <2>3
  <2> QED
    BY <2>3, <2>4, <2>5
<1>5. HeapInv
  BY <1>1, <1>2, <1>3, <1>4 DEF HeapInv
<1>6. CallInv
  BY <1>1, HeapAssumption DEF CallInv, CallOK, Apart, NoCall
<1>7. SearchInv /\ LiveInv /\ FitInv /\ FreedInv
  BY <1>1 DEF SearchInv, LiveInv, FitInv, FreedInv
<1>8. TypeOK
  <2>1. Arena \in Int /\ heap \in HeapRecord /\ Arena - HDR \in Addr
    BY <1>4, HeapAssumption, SoundParts DEF Heads
  <2>2. brk \in Arena .. HeapLimit
    BY <1>1, HeapAssumption, SMT
  <2> QED
    BY <1>1, <1>3, <2>1, <2>2, NoCallType DEF TypeOK
<1> QED
  BY <1>5, <1>6, <1>7, <1>8 DEF IInv

LEMMA StutterStep ==
  ASSUME IInv, UNCHANGED vars
  PROVE  IInv'
<1>1. UNCHANGED <<heap, brk, lastFencePost, osChunkList, mutex, pc, call, freelist,
                  cur, live, lastFreed, status>>
  BY DEF vars
<1>2. TypeOK /\ HeapInv /\ CallInv /\ SearchInv /\ LiveInv /\ FitInv /\ FreedInv
  BY DEF IInv
<1>3. SameWindow
  BY <1>1 DEF SameWindow
<1>4. /\ HeapInv' /\ LiveInv' /\ FitInv'
      /\ FreeBlocks' = FreeBlocks /\ (InWindow' <=> InWindow)
  BY <1>1, <1>2, <1>3, HeapKept
<1>5. SearchInv'
  BY <1>1, <1>2, <1>4, SearchKept
<1>6. CallInv'
  BY <1>1, <1>2 DEF CallInv, CallOK, Apart
<1>7. FreedInv'
  BY <1>1, <1>2, <1>4 DEF FreedInv
<1>8. TypeOK'
  BY <1>1, <1>2 DEF TypeOK
<1> QED
  BY <1>4, <1>5, <1>6, <1>7, <1>8 DEF IInv

LEMMA NextStep ==
  ASSUME IInv, Next, InWindow => ~Merges
  PROVE  IInv'
<1>1. CASE \E t \in Threads : Call(t)
  <2>1. PICK t \in Threads : Call(t)
    BY <1>1
  <2>2. NULL \in Nat \cup {NULL}
    OBVIOUS
  <2>3. CASE Malloc(t)
    BY <2>2, <2>3, RequestStep DEF Malloc
  <2>4. CASE Calloc(t)
    BY <2>2, <2>4, RequestStep DEF Calloc
  <2>5. CASE Realloc(t)
    <3>1. PICK raw \in Requests, r \in live :
            Unclaimed(r.ptr) /\ Request(t, "realloc", raw, r.ptr)
      BY <2>5 DEF Realloc
    <3>2. r.ptr \in Nat \cup {NULL} /\ r.ptr # NULL
      BY AddrIsNat, SentinelFacts DEF IInv, LiveInv
    <3> QED
      BY <3>1, <3>2, RequestStep
  <2>6. CASE ReallocZero(t)
    BY <2>6, ReallocZeroStep
  <2>7. CASE Free(t)
    BY <2>7, FreeStep DEF Merges
  <2>8. CASE DoubleFree(t)
    BY <2>8, DoubleFreeStep
  <2> QED
    BY <2>1, <2>3, <2>4, <2>5, <2>6, <2>7, <2>8 DEF Call
<1>2. CASE \E t \in Threads : Proceed(t)
  <2>1. PICK t \in Threads : Proceed(t)
    BY <1>2
  <2>2. CASE SkipSmall(t)
    BY <2>2, SkipSmallStep
  <2>3. CASE TakeSplit(t)
    BY <2>3, TakeSplitStep
  <2>4. CASE TakeWhole(t)
    BY <2>4, TakeWholeStep
  <2>5. CASE OutOfMemory(t)
    BY <2>5, OutOfMemoryStep
  <2>6. CASE GrowJoined(t)
    BY <2>6, GrowJoinedStep DEF Merges
  <2>7. CASE GrowSeparate(t)
    BY <2>7, GrowSeparateStep
  <2>8. CASE Mark(t)
    BY <2>8, MarkStep
  <2>9. CASE ReleaseOld(t)
    BY <2>9, ReleaseOldStep DEF Merges
  <2> QED
    BY <2>1, <2>2, <2>3, <2>4, <2>5, <2>6, <2>7, <2>8, <2>9 DEF Proceed
<1>3. CASE ForeignSbrk
  BY <1>3, ForeignSbrkStep
<1>4. CASE Stopped
  BY <1>4, StutterStep DEF Stopped
<1> QED
  BY <1>1, <1>2, <1>3, <1>4 DEF Next

(* In whatever order the threads call, as long as nothing is merged in the *)
(* window, the heap stays sound.                                           *)
THEOREM GuardedInv == Guarded => []IInv
<1>1. Init => IInv
  BY InitStep
<1>2. IInv /\ [Next /\ (InWindow => ~Merges)]_vars => IInv'
  BY NextStep, StutterStep
<1> QED
  BY <1>1, <1>2, PTL DEF Guarded

(***************************************************************************)
(* What OnlyTheWindowCorrupts says of a heap that is merely sound, for the *)
(* invariant: in any run of any threads, it breaks only by a step that     *)
(* merges blocks while some thread has released the mutex with its block   *)
(* and has not yet marked it.                                              *)
(***************************************************************************)
THEOREM BreaksInWindow ==
  Spec => [][IInv /\ ~IInv' => InWindow /\ Merges]_vars
<1>1. [Next]_vars => [IInv /\ ~IInv' => InWindow /\ Merges]_vars
  BY NextStep
<1> QED
  BY <1>1, PTL DEF Spec

(* One client cannot merge a block while it waits for one to be marked:    *)
(* everything proved of the guarded runs holds of its runs.                *)
THEOREM OneClientGuarded ==
  ASSUME OneClient
  PROVE  Spec => Guarded
<1>1. InWindow => ~Merges
  <2> SUFFICES ASSUME InWindow, Merges PROVE FALSE
    OBVIOUS
  <2>1. PICK t \in Threads : pc[t] = "mark"
    BY DEF InWindow
  <2>2. PICK u \in Threads : Free(u) \/ ReleaseOld(u) \/ GrowJoined(u)
    BY DEF Merges
  <2>3. pc[u] \in {"idle", "release", "search"}
    BY <2>2 DEF Free, ReleaseOld, GrowJoined, GrowBy, Searching
  <2>4. t = u
    BY DEF OneClient
  <2> QED
    BY <2>1, <2>3, <2>4
<1>2. [Next]_vars => [Next /\ (InWindow => ~Merges)]_vars
  BY <1>1
<1> QED
  BY <1>2, PTL DEF Spec, Guarded

-----------------------------------------------------------------------------
(* What the invariant says in the words of MallocHeap. *)

LEMMA InvOrder ==
  ASSUME IInv, NEW a \in Headers, NEW c \in Headers
  PROVE  /\ a \in Nat /\ c \in Nat /\ heap.size[a] \in Nat /\ heap.size[c] \in Nat
         /\ heap.size[a] >= HDR
         /\ a < c => a + heap.size[a] <= c
         /\ c < a => c + heap.size[c] <= a
<1>1. PICK E : Sound(heap, Lefts, E, Handing, brk) /\ brk \in Int
  BY HeapNow DEF IInv
<1>2. Tags(heap.size, heap.left, Lefts, E, brk)
  BY <1>1, SoundParts
<1>3. a \in Heads(heap.size) /\ c \in Heads(heap.size)
  BY FreeIsVacant
<1>4. /\ a \in Addr /\ c \in Addr /\ a \in Nat /\ c \in Nat
      /\ heap.size[a] \in Nat /\ heap.size[c] \in Nat
  BY <1>1, <1>2, <1>3, TagTypes
<1>5. heap.size[a] >= HDR
  <2>1. heap.size[a] = HDR \/ heap.size[a] >= MIN
    BY <1>2, <1>3 DEF Tags
  <2> QED
    BY <1>4, <2>1, HeaderWords, SMT
<1>6. \A x, y \in Heads(heap.size) : x < y => x + heap.size[x] <= y
  BY <1>2 DEF Tags
<1>7. /\ a < c => a + heap.size[a] <= c
      /\ c < a => c + heap.size[c] <= a
  BY <1>3, <1>6
<1> QED
  BY <1>4, <1>5, <1>7

LEMMA InvBoundaryTags ==
  ASSUME IInv
  PROVE  BoundaryTags
<1>1. PICK E : Sound(heap, Lefts, E, Handing, brk) /\ brk \in Int
  BY HeapNow DEF IInv
<1>2. Tags(heap.size, heap.left, Lefts, E, brk)
  BY <1>1, SoundParts
<1>3. ASSUME NEW a \in Headers, NEW c \in Headers PROVE c \notin a + 1 .. a + heap.size[a] - 1
  <2>1. /\ a \in Nat /\ c \in Nat /\ heap.size[a] \in Nat
        /\ a < c => a + heap.size[a] <= c
    BY InvOrder
  <2> QED
    BY <2>1, SMT
<1>4. ASSUME NEW a \in Headers, ~RightFence(a)
      PROVE  RightOf(heap, a) \in Headers /\ heap.left[RightOf(heap, a)] = heap.size[a]
  <2>1. a \notin E
    <3>1. a \in E => heap.state[a] = "fencepost" /\ a \notin Lefts
      BY <1>1, <1>2, SoundParts DEF Tags
    <3> QED
      BY <1>4, <3>1 DEF RightFence, LeftFence, Lefts
  <2> QED
    BY <1>2, <2>1, FreeIsVacant DEF Tags, RightOf
<1> QED
  BY <1>3, <1>4 DEF BoundaryTags

LEMMA InvListed ==
  ASSUME IInv
  PROVE  Listed = FreeBlocks
<1>1. PICK E : Sound(heap, Lefts, E, Handing, brk) /\ brk \in Int
  BY HeapNow DEF IInv
<1>2. PICK rank, home : OnLists(heap, FreeBlocks, rank, home)
  BY <1>1, FreeIsVacant, SoundParts, ListingElim
<1>3. \A b \in FreeBlocks : heap.next[b] # NULL
  BY <1>2, SentinelFacts DEF OnLists, Linked
<1>4. \A a \in Addr : heap.next[a] # NULL => a \in FreeBlocks \cup Handing
  BY <1>1, FreeIsVacant DEF Sound
<1>5. FreeBlocks \subseteq Addr \ Handing
  BY DEF FreeBlocks, Headers
<1> QED
  BY <1>3, <1>4, <1>5 DEF Listed

LEMMA InvLists ==
  ASSUME IInv
  PROVE  ListsHoldFreeBlocks /\ BitmapTracksLists /\ NoAdjacentFree
<1>1. PICK E : Sound(heap, Lefts, E, Handing, brk) /\ brk \in Int
  BY HeapNow DEF IInv
<1>2. PICK rank, home : OnLists(heap, FreeBlocks, rank, home)
  BY <1>1, FreeIsVacant, SoundParts, ListingElim
<1>3. ListsHoldFreeBlocks
  BY <1>2, InvListed DEF ListsHoldFreeBlocks, OnLists, Linked
<1>4. BitmapTracksLists
  BY <1>2 DEF BitmapTracksLists, OnLists, BitsTrack
<1>5. NoAdjacentFree
  BY <1>1, FreeIsVacant DEF NoAdjacentFree, Sound
<1> QED
  BY <1>3, <1>4, <1>5

LEMMA InvSearch ==
  ASSUME IInv
  PROVE  NeverAstray /\ SearchOnList
<1>1. ~heap.wild
  BY HeapNow DEF IInv
<1> QED
  BY <1>1, InvListed DEF NeverAstray, SearchOnList, IInv, FreedInv, SearchInv

(* An allocation, marked or not: its block and its data. *)
LEMMA InvHandedOut ==
  ASSUME IInv, Unwrapped, NEW r \in HandedOut
  PROVE  /\ r.ptr - HDR \in Headers \ FreeBlocks
         /\ r.ptr - HDR \in Handing \/ heap.state[r.ptr - HDR] = "allocated"
         /\ HDR + r.len <= heap.size[r.ptr - HDR]
         /\ r.ptr \in Nat /\ r.len \in Nat
         /\ r \in live => r.ptr - HDR \notin Handing
         /\ r \in live \/ \E t \in Threads :
              pc[t] = "mark" /\ r = Region(t, call[t].at, call[t].raw) /\ r.ptr - HDR = call[t].at
<1>1. PICK E : Sound(heap, Lefts, E, Handing, brk) /\ brk \in Int
  BY HeapNow DEF IInv
<1>2. Handing \subseteq Headers
  BY <1>1, SoundParts, FreeIsVacant
<1>3. CASE r \in live
  <2>1. /\ r.ptr \in Addr /\ r.ptr - HDR \in Headers \ Handing
        /\ heap.state[r.ptr - HDR] = "allocated"
    BY <1>3 DEF IInv, LiveInv
  <2>2. r.ptr \in Nat /\ r.len \in Nat
    BY <1>3 DEF IInv, TypeOK
  <2>3. HDR + r.len <= heap.size[r.ptr - HDR]
    BY <1>3 DEF IInv, FitInv
  <2> QED
    BY <1>3, <2>1, <2>2, <2>3 DEF FreeBlocks
<1>4. CASE r \notin live
  <2>1. PICK t \in Threads : pc[t] = "mark" /\ r = Region(t, call[t].at, call[t].raw)
    BY <1>4 DEF HandedOut
  <2> DEFINE at == call[t].at
  <2>2. at \in Handing /\ at \in Headers /\ at \in Addr /\ at \notin FreeBlocks
    BY <1>2, <2>1, HandingIs DEF Headers, FreeBlocks
  <2>3. HDR + (call[t].raw + 7) \div 8 <= heap.size[at]
    BY <2>1 DEF IInv, FitInv
  <2>4. (call[t].raw + 7) \div 8 \in Nat
    BY <2>1, RequestWords DEF IInv, CallInv, CallOK
  <2>5. r.ptr = at + HDR /\ r.len = (call[t].raw + 7) \div 8
    BY <2>1 DEF Region
  <2> HIDE DEF at
  <2>6. r.ptr \in Nat /\ r.ptr - HDR = at
    BY <2>2, <2>5, AddrIsNat, HeaderWords, SMT
  <2>7. r.ptr - HDR = call[t].at
    BY <2>6 DEF at
  <2> QED
    BY <1>4, <2>1, <2>2, <2>3, <2>4, <2>5, <2>6, <2>7
<1> QED
  BY <1>3, <1>4

LEMMA InvClients ==
  ASSUME IInv, Unwrapped
  PROVE  ClientsOwnBlocks
<1>1. \A r, s \in HandedOut : r.ptr = s.ptr => r = s
  <2> SUFFICES ASSUME NEW r \in HandedOut, NEW s \in HandedOut, r.ptr = s.ptr
               PROVE  r = s
    OBVIOUS
  <2>1. CASE r \in live /\ s \in live
    BY <2>1 DEF IInv, LiveInv
  <2>2. CASE r \notin live /\ s \notin live
    <3>1. PICK t \in Threads : /\ pc[t] = "mark" /\ r = Region(t, call[t].at, call[t].raw)
                               /\ r.ptr - HDR = call[t].at
      BY <2>2, InvHandedOut
    <3>2. PICK u \in Threads : /\ pc[u] = "mark" /\ s = Region(u, call[u].at, call[u].raw)
                               /\ s.ptr - HDR = call[u].at
      BY <2>2, InvHandedOut
    <3>3. t = u
      BY <3>1, <3>2 DEF IInv, CallInv, Apart
    <3> QED
      BY <3>1, <3>2, <3>3
  <2>3. CASE ~(r \in live <=> s \in live)
    <3>1. \A x \in HandedOut : x \in live => x.ptr - HDR \notin Handing
      BY InvHandedOut
    <3>2. \A x \in HandedOut : x \notin live => x.ptr - HDR \in Handing
      <4> TAKE x \in HandedOut
      <4> HAVE x \notin live
      <4>1. PICK t \in Threads : pc[t] = "mark" /\ x.ptr - HDR = call[t].at
        BY InvHandedOut
      <4> QED
        BY <4>1, HandingIs
    <3> QED
      BY <2>3, <3>1, <3>2
  <2> QED
    BY <2>1, <2>2, <2>3
<1>2. ASSUME NEW r \in HandedOut
      PROVE  /\ r.ptr - HDR \in Headers \ FreeBlocks
             /\ r.ptr - HDR \in Handing \/ heap.state[r.ptr - HDR] = "allocated"
             /\ HDR + r.len <= heap.size[r.ptr - HDR]
  BY InvHandedOut
<1> QED
  BY <1>1, <1>2 DEF ClientsOwnBlocks

(* Where the data of an allocation lie: within its block, behind the header. *)
LEMMA InvData ==
  ASSUME IInv, Unwrapped, NEW r \in HandedOut, NEW w \in Words(r)
  PROVE  /\ w \in Nat /\ r.ptr - HDR + HDR <= w
         /\ r.ptr - HDR \in Headers /\ w < r.ptr - HDR + heap.size[r.ptr - HDR]
<1> DEFINE b == r.ptr - HDR
<1>1. r.ptr \in Nat /\ r.len \in Nat /\ b \in Headers /\ HDR + r.len <= heap.size[b]
  BY InvHandedOut
<1>2. heap.size[b] \in Nat /\ b \in Nat
  <2>1. \A a \in Addr : heap.size[a] \in 0 .. HeapLimit
    BY HeapNow, RecordTypes DEF IInv
  <2> QED
    BY <1>1, <2>1, AddrIsNat DEF Headers
<1>3. w \in r.ptr .. r.ptr + r.len - 1
  BY DEF Words
<1> QED
  BY <1>1, <1>2, <1>3, HeaderWords, SMT

LEMMA InvDataAvoidHeaders ==
  ASSUME IInv, Unwrapped
  PROVE  DataAvoidHeaders
<1> SUFFICES ASSUME NEW r \in HandedOut, NEW a \in Headers,
                    NEW w \in Words(r), w \in a .. a + HDR - 1
             PROVE  FALSE
  BY DEF DataAvoidHeaders
<1> DEFINE b == r.ptr - HDR
<1>1. w \in Nat /\ b + HDR <= w /\ b \in Headers /\ w < b + heap.size[b]
  BY InvData
<1> HIDE DEF b
<1>2. /\ a \in Nat /\ b \in Nat /\ heap.size[a] \in Nat /\ heap.size[b] \in Nat
      /\ heap.size[a] >= HDR
      /\ a < b => a + heap.size[a] <= b
      /\ b < a => b + heap.size[b] <= a
  BY <1>1, InvOrder
<1>3. a <= w /\ w < a + HDR
  BY <1>1, <1>2, HeaderWords, SMT
<1> QED
  BY <1>1, <1>2, <1>3, HeaderWords, SMT

LEMMA InvDisjoint ==
  ASSUME IInv, Unwrapped
  PROVE  HandedOutDisjoint
<1> SUFFICES ASSUME NEW r \in HandedOut, NEW s \in HandedOut, r # s,
                    NEW w \in Words(r), w \in Words(s)
             PROVE  FALSE
  BY DEF HandedOutDisjoint
<1> DEFINE b == r.ptr - HDR
           c == s.ptr - HDR
<1>1. r.ptr \in Nat /\ s.ptr \in Nat
  BY InvHandedOut
<1>2. b # c
  <2>1. r.ptr # s.ptr
    BY InvClients DEF ClientsOwnBlocks
  <2> QED
    BY <1>1, <2>1, HeaderWords, SMT
<1>3. w \in Nat /\ b + HDR <= w /\ b \in Headers /\ w < b + heap.size[b]
  BY InvData
<1>4. c + HDR <= w /\ c \in Headers /\ w < c + heap.size[c]
  BY InvData
<1> HIDE DEF b, c
<1>5. /\ c \in Nat /\ b \in Nat /\ heap.size[c] \in Nat /\ heap.size[b] \in Nat
      /\ c < b => c + heap.size[c] <= b
      /\ b < c => b + heap.size[b] <= c
  BY <1>3, <1>4, InvOrder
<1> QED
  BY <1>2, <1>3, <1>4, <1>5, HeaderWords, SMT

-----------------------------------------------------------------------------
(* The theorems. *)

(* Every variable keeps its type: headers and links stay in the memory     *)
(* sbrk has granted, whatever is allocated, split, freed and merged.       *)
THEOREM TypesKept == Guarded => []TypeOK
BY GuardedInv, PTL DEF IInv

(* The blocks of a chunk follow one another, and the code finds both       *)
(* neighbours of each: split_block, coalesce_* and allocate_chunk keep the *)
(* sizes and the left_sizes in step.                                       *)
THEOREM TagsSound == Guarded => []BoundaryTags
<1>1. IInv => BoundaryTags
  BY InvBoundaryTags
<1> QED
  BY <1>1, GuardedInv, PTL

(* The lists hold the free blocks and no others, linked in both directions. *)
THEOREM ListsSound == Guarded => []ListsHoldFreeBlocks
<1>1. IInv => ListsHoldFreeBlocks
  BY InvLists
<1> QED
  BY <1>1, GuardedInv, PTL

(* free_list_deallocate leaves no two free blocks side by side. *)
THEOREM CoalescingComplete == Guarded => []NoAdjacentFree
<1>1. IInv => NoAdjacentFree
  BY InvLists
<1> QED
  BY <1>1, GuardedInv, PTL

(* get_populated_freelist_sentinel passes over no list with a block in it. *)
THEOREM BitmapSound == Guarded => []BitmapTracksLists
<1>1. IInv => BitmapTracksLists
  BY InvLists
<1> QED
  BY <1>1, GuardedInv, PTL

(* No link of a block that is on no list is followed, and deallocate_object *)
(* notices that the block freed last is freed again.                       *)
THEOREM StaysOnCourse == Guarded => []NeverAstray
<1>1. IInv => NeverAstray
  BY InvSearch
<1> QED
  BY <1>1, GuardedInv, PTL

(* The search of free_list_get_allocable stands on a list all the time. *)
THEOREM SearchStaysOnList == Guarded => []SearchOnList
<1>1. IInv => SearchOnList
  BY InvSearch
<1> QED
  BY <1>1, GuardedInv, PTL

(* As long as no request is so large that adding the header wraps, every   *)
(* allocation has a block of its own that is large enough.                 *)
THEOREM ClientsServed ==
  ASSUME Unwrapped
  PROVE  Guarded => []ClientsOwnBlocks
<1>1. IInv => ClientsOwnBlocks
  BY InvClients
<1> QED
  BY <1>1, GuardedInv, PTL

(* No client writing what it asked for reaches a header. *)
THEOREM HeadersUntouched ==
  ASSUME Unwrapped
  PROVE  Guarded => []DataAvoidHeaders
<1>1. IInv => DataAvoidHeaders
  BY InvDataAvoidHeaders
<1> QED
  BY <1>1, GuardedInv, PTL

(* No word belongs to two allocations.  Without the guard this fails for   *)
(* two threads, as the run heap_race shows.                                *)
THEOREM AllocationsDisjoint ==
  ASSUME Unwrapped
  PROVE  Guarded => []HandedOutDisjoint
<1>1. IInv => HandedOutDisjoint
  BY InvDisjoint
<1> QED
  BY <1>1, GuardedInv, PTL

-----------------------------------------------------------------------------
(***************************************************************************)
(* The heap implements Allocator.                                          *)
(***************************************************************************)
Owned == UNION {a .. a + heap.size[a] - 1 : a \in Headers}

DataOwned == \A r \in HandedOut : Words(r) \subseteq Owned

(* What the steps of the refinement use of a state. *)
Clean == IInv /\ ClientsOwnBlocks /\ HandedOutDisjoint /\ DataOwned

LEMMA OwnedIsCover == Owned = Cover(heap.size)
BY DEF Owned, Cover, Headers, Heads

LEMMA InvDataOwned ==
  ASSUME IInv, Unwrapped
  PROVE  DataOwned
<1> SUFFICES ASSUME NEW r \in HandedOut, NEW w \in Words(r)
             PROVE  w \in Owned
  BY DEF DataOwned
<1> DEFINE b == r.ptr - HDR
<1>1. w \in Nat /\ b + HDR <= w /\ b \in Headers /\ w < b + heap.size[b]
  BY InvData
<1> HIDE DEF b
<1>2. b \in Nat /\ heap.size[b] \in Nat
  BY <1>1, InvOrder
<1>3. w \in b .. b + heap.size[b] - 1
  BY <1>1, <1>2, HeaderWords, SMT
<1> QED
  BY <1>1, <1>3 DEF Owned

LEMMA OwnedAtFirst ==
  ASSUME Init
  PROVE  Owned # {} /\ HandedOut = {}
<1>1. IInv
  BY InitStep
<1>2. PICK E : Sound(heap, Lefts, E, Handing, brk) /\ lastFencePost \in E /\ brk \in Int
  BY <1>1, HeapNow DEF IInv
<1>3. lastFencePost \in Headers
  BY <1>2, SoundParts, FreeIsVacant
<1>4. /\ lastFencePost \in Nat /\ heap.size[lastFencePost] \in Nat
      /\ heap.size[lastFencePost] >= HDR
  BY <1>1, <1>3, InvOrder
<1>5. lastFencePost \in lastFencePost .. lastFencePost + heap.size[lastFencePost] - 1
  BY <1>4, HeaderWords, SMT
<1>6. Owned # {}
  BY <1>3, <1>5 DEF Owned
<1>7. HandedOut = {}
  BY DEF HandedOut, Init
<1> QED
  BY <1>6, <1>7

(* Nothing is allocated or freed. *)
LEMMA HandedOutKept ==
  ASSUME SameWindow, live' = live
  PROVE  HandedOut' = HandedOut
<1>1. \A r : (\E u \in Threads : pc'[u] = "mark" /\ r = Region(u, call'[u].at, call'[u].raw))
         <=> (\E u \in Threads : pc[u] = "mark" /\ r = Region(u, call[u].at, call[u].raw))
  BY DEF SameWindow
<1>2. \A r : r \in HandedOut' <=> r \in HandedOut
  BY <1>1 DEF HandedOut
<1> QED
  BY <1>2

LEMMA TakeStep ==
  ASSUME IInv, NEW t \in Threads, TakeSplit(t) \/ TakeWhole(t)
  PROVE  /\ Owned' = Owned
         /\ \E at \in Addr : /\ HandOut(t, at) /\ at \notin Handing
                             /\ \A r \in live : r.ptr - HDR # at
<1>1. Searching(t) /\ cur # freelist
  BY DEF TakeSplit, TakeWhole
<1>2. /\ cur \in FreeBlocks /\ cur \in Addr /\ cur \notin Handing
      /\ \A r \in live : r.ptr - HDR # cur
      /\ Want(t) \in Nat /\ Want(t) >= MIN
  BY <1>1, SearchAt
<1>3. PICK E : Sound(heap, Lefts, E, Handing, brk) /\ brk \in Int
  BY HeapNow DEF IInv
<1>4. CASE TakeSplit(t)
  <2> DEFINE s == Want(t)
             ret == cur + heap.size[cur] - s
  <2>1. HandOut(t, ret) /\ heap.size[cur] >= s + MIN
    BY <1>4 DEF TakeSplit
  <2>2. PICK stale \in BlockState : heap' = SplitBlock(heap, cur, s, stale)
    BY <1>4 DEF TakeSplit
  <2>3. s \in Nat /\ s >= MIN
    BY <1>2
  <2> HIDE DEF s
  <2>4. cur \in Vacant(heap, Handing) /\ ret = cur + heap.size[cur] - s
    BY <1>2, FreeIsVacant
  <2> HIDE DEF ret
  <2>5. SplitDone(heap, Lefts, E, Handing, brk, cur, s, ret, heap')
    BY <1>3, <2>1, <2>2, <2>3, <2>4, SplitSound
  <2>6. ret \in Addr \ Heads(heap.size) /\ Cover(heap'.size) = Cover(heap.size)
    BY <2>5 DEF SplitDone
  <2>7. ret \notin Handing
    BY <1>3, <2>6, SoundParts
  <2>8. \A r \in live : r.ptr - HDR # ret
    BY <2>6, FreeIsVacant DEF IInv, LiveInv
  <2>9. Owned' = Cover(heap'.size)
    BY DEF Owned, Cover, Headers, Heads
  <2> QED
    BY <2>1, <2>6, <2>7, <2>8, <2>9, OwnedIsCover
<1>5. CASE TakeWhole(t)
  <2>1. HandOut(t, cur) /\ heap' = FreelistRemove(heap, cur)
    BY <1>5 DEF TakeWhole
  <2>2. /\ Sound(heap', Lefts, E, Handing \cup {cur}, brk)
        /\ heap'.size = heap.size /\ heap'.state = heap.state
    BY <1>2, <1>3, <2>1, FreeIsVacant, RemoveSound
  <2>3. Owned' = Owned
    BY <2>2 DEF Owned, Headers
  <2> QED
    BY <1>2, <2>1, <2>3
<1> QED
  BY <1>4, <1>5

LEMMA AllocateStep ==
  ASSUME Clean, Clean', NEW t \in Threads, TakeSplit(t) \/ TakeWhole(t)
  PROVE  Abstract!Allocate
<1>1. Owned' = Owned
  BY TakeStep DEF Clean
<1>2. PICK at \in Addr : /\ HandOut(t, at) /\ at \notin Handing
                         /\ \A r \in live : r.ptr - HDR # at
  BY TakeStep DEF Clean
<1> DEFINE c == [call[t] EXCEPT !.at = at]
           new == Region(t, at, call[t].raw)
<1>3. /\ pc' = [pc EXCEPT ![t] = "mark"] /\ call' = [call EXCEPT ![t] = c]
      /\ live' = live
  BY <1>2 DEF HandOut
<1>4. c.raw = call[t].raw /\ c.at = at
  BY CallTypes DEF Clean, IInv
<1> HIDE DEF c
<1>5. /\ pc'[t] = "mark" /\ call'[t] = c
      /\ \A u \in Threads \ {t} : pc'[u] = pc[u] /\ call'[u] = call[u]
  BY <1>3, SetCall DEF Clean, IInv
<1>6. pc[t] # "mark"
  BY DEF TakeSplit, TakeWhole, Searching
<1>7. \A r : r \in HandedOut' <=> r \in HandedOut \/ r = new
  BY <1>3, <1>4, <1>5, <1>6 DEF HandedOut
<1>8. new \notin HandedOut
  <2>1. new.ptr - HDR = at
    <3>1. new.ptr = at + HDR
      BY DEF Region
    <3> HIDE DEF new
    <3> QED
      BY <3>1, AddrIsNat, HeaderWords, SMT
  <2>2. new \notin live
    BY <1>2, <2>1
  <2>3. ASSUME NEW u \in Threads, pc[u] = "mark", new = Region(u, call[u].at, call[u].raw)
        PROVE  FALSE
    <3>1. call[u].at \in Handing
      BY <2>3, HandingIs
    <3>2. call[u].at \in Addr
      BY <2>3, CallTypes DEF Clean, IInv, CallInv, CallOK
    <3>3. new.ptr = call[u].at + HDR
      BY <2>3 DEF Region
    <3> HIDE DEF new
    <3>4. at = call[u].at
      BY <2>1, <3>2, <3>3, AddrIsNat, HeaderWords, SMT
    <3> QED
      BY <1>2, <3>1, <3>4
  <2> QED
    BY <2>2, <2>3 DEF HandedOut
<1> HIDE DEF new
<1>9. HandedOut' = HandedOut \cup {new} /\ new \in HandedOut' \ HandedOut
  BY <1>7, <1>8
<1>10. Words(new) \subseteq Owned
  <2>1. Words(new) \subseteq Owned'
    BY <1>9 DEF Clean, DataOwned, Words
  <2> QED
    BY <1>1, <2>1
<1>11. \A s \in HandedOut : Words(new) \cap Words(s) = {}
  BY <1>9 DEF Clean, HandedOutDisjoint, Words
<1> QED
  BY <1>1, <1>9, <1>10, <1>11
     DEF Abstract!Allocate, Abstract!Words, Abstract!Disjoint, Words, Owned

LEMMA ReleaseStep ==
  ASSUME Clean, ~InWindow, ~InWindow', NEW r \in live, Deallocate(r.ptr)
  PROVE  Abstract!Release
<1>1. Owned' = Owned
  <2> DEFINE block == r.ptr - HDR
             h == [heap EXCEPT !.state[block] = "unallocated"]
  <2>1. /\ block \in Headers /\ block \in Addr /\ heap.state[block] = "allocated"
    BY DEF Clean, IInv, LiveInv, Headers
  <2>2. heap' = FreeListDeallocate(h, block)
    BY <2>1 DEF Deallocate
  <2>3. Handing = {}
    BY DEF Handing, InWindow
  <2>4. PICK E : /\ Sound(heap, Lefts, E, {}, brk) /\ brk \in Int /\ brk <= HeapLimit
                 /\ heap \in HeapRecord
    BY <2>3, HeapNow DEF Clean, IInv
  <2>5. block \in Heads(heap.size) \ (Lefts \cup E)
    <3>1. \A a \in Lefts \cup E : heap.state[a] = "fencepost"
      BY <2>4, SoundParts
    <3> QED
      BY <2>1, <3>1, FreeIsVacant
  <2>6. h = [heap EXCEPT !.state[block] = "unallocated"]
    OBVIOUS
  <2> HIDE DEF h, block
  <2>7. /\ Sound(h, Lefts, E, {block}, brk) /\ h.size = heap.size
        /\ h.state[block] = "unallocated"
    <3>1. UnmarkDone(heap, Lefts, E, brk, block, h)
      BY <2>1, <2>4, <2>5, <2>6, UnmarkSound
    <3> QED
      BY <2>1, <2>4, <3>1, RecordTypes DEF UnmarkDone
  <2>8. Freed(h, Lefts, E, block, brk, heap')
    BY <2>2, <2>4, <2>7, DeallocateSound
  <2>9. Cover(heap'.size) = Cover(heap.size)
    BY <2>7, <2>8 DEF Freed
  <2>10. Owned' = Cover(heap'.size)
    BY DEF Owned, Cover, Headers, Heads
  <2> QED
    BY <2>9, <2>10, OwnedIsCover
<1>2. live' = {s \in live : s.ptr # r.ptr}
  BY DEF Deallocate
<1>3. HandedOut = live /\ HandedOut' = live'
  BY DEF HandedOut, InWindow
<1>4. \A s \in live : s.ptr = r.ptr => s = r
  BY DEF Clean, IInv, LiveInv
<1>5. HandedOut' = HandedOut \ {r}
  BY <1>2, <1>3, <1>4
<1> QED
  BY <1>1, <1>3, <1>5 DEF Abstract!Release, Owned

LEMMA ExtendStep ==
  ASSUME Clean, NEW t \in Threads, GrowSeparate(t) \/ (~InWindow /\ GrowJoined(t))
  PROVE  Abstract!Extend
<1>1. /\ UNCHANGED <<pc, call, live>> /\ brk + Arena <= HeapLimit
  BY DEF GrowSeparate, GrowJoined, GrowBy
<1>2. HandedOut' = HandedOut
  <2>1. SameWindow
    BY <1>1 DEF SameWindow
  <2> QED
    BY <1>1, <2>1, HandedOutKept
<1>3. PICK E : /\ Sound(heap, Lefts, E, Handing, brk) /\ lastFencePost \in E
               /\ brk \in Int /\ brk \in Nat
  BY HeapNow DEF Clean, IInv
<1>4. Cover(heap.size) \subseteq Cover(heap'.size)
  <2>1. CASE GrowSeparate(t)
    <3>1. heap' = FreelistInsert(AllocateChunk(heap, brk), brk + HDR)
      BY <2>1 DEF GrowSeparate, GrowBy
    <3>2. SeparateDone(heap, Lefts, E, Handing, brk, heap')
      BY <1>1, <1>3, <3>1, SeparateSound
    <3> QED
      BY <3>2 DEF SeparateDone
  <2>2. CASE ~InWindow /\ GrowJoined(t)
    <3>1. heap' = JoinChunk(heap, brk) /\ brk - HDR = lastFencePost
      BY <2>2 DEF GrowJoined, GrowBy
    <3>2. Handing = {}
      BY <2>2 DEF Handing, InWindow
    <3>3. Sound(heap, Lefts, E, {}, brk) /\ lastFencePost \in E
      BY <1>3, <3>2
    <3> DEFINE p == brk - HDR
               rfp == brk + Arena - HDR
    <3>4. p = brk - HDR /\ p \in E /\ rfp = brk + Arena - HDR
      BY <3>1, <3>3
    <3> HIDE DEF p, rfp
    <3>5. JoinDone(heap, Lefts, E, brk, heap')
      BY <1>1, <1>3, <3>1, <3>3, <3>4, JoinSound
    <3> QED
      BY <3>5 DEF JoinDone
  <2> QED
    BY <2>1, <2>2
<1>5. Owned' = Cover(heap'.size)
  BY DEF Owned, Cover, Headers, Heads
<1>6. Owned \subseteq Owned'
  BY <1>4, <1>5, OwnedIsCover
<1> QED
  BY <1>2, <1>6 DEF Abstract!Extend, Owned

(* The other steps change nothing a client can see. *)
LEMMA HiddenStep ==
  ASSUME Clean, heap'.size = heap.size, SameWindow, live' = live
  PROVE  UNCHANGED <<Owned, HandedOut>>
<1>1. Owned' = Owned
  BY DEF Owned, Headers
<1> QED
  BY <1>1, HandedOutKept

LEMMA MarkHidden ==
  ASSUME Clean, NEW t \in Threads, Mark(t)
  PROVE  UNCHANGED <<Owned, HandedOut>>
<1> DEFINE new == Region(t, call[t].at, call[t].raw)
<1>1. /\ pc[t] = "mark" /\ live' = live \cup {new}
      /\ heap' = [heap EXCEPT !.state[call[t].at] = "allocated",
                              !.next[call[t].at] = NULL, !.prev[call[t].at] = NULL]
      /\ \/ pc' = [pc EXCEPT ![t] = "release"] /\ call' = call
         \/ pc' = [pc EXCEPT ![t] = "idle"] /\ call' = [call EXCEPT ![t] = NoCall]
  BY DEF Mark
<1>2. heap \in HeapRecord /\ TypeOK
  BY DEF Clean, IInv, TypeOK
<1>3. heap'.size = heap.size
  BY <1>1, <1>2 DEF HeapRecord
<1>4. pc'[t] # "mark" /\ \A u \in Threads \ {t} : pc'[u] = pc[u] /\ call'[u] = call[u]
  BY <1>1, <1>2 DEF TypeOK
<1> HIDE DEF new
<1>5. \A r : r \in HandedOut' <=> r \in HandedOut
  <2>1. \A r : r \in HandedOut' <=>
          \/ r \in live \/ r = new
          \/ \E u \in Threads \ {t} : pc[u] = "mark" /\ r = Region(u, call[u].at, call[u].raw)
    BY <1>1, <1>4 DEF HandedOut
  <2>2. new = Region(t, call[t].at, call[t].raw)
    BY DEF new
  <2> QED
    BY <1>1, <2>1, <2>2 DEF HandedOut
<1>6. Owned' = Owned
  BY <1>3 DEF Owned, Headers
<1> QED
  BY <1>5, <1>6

LEMMA RefineStep ==
  ASSUME Clean, Clean', Next, InWindow => ~Merges
  PROVE  Abstract!Next \/ UNCHANGED <<Owned, HandedOut>>
<1>1. /\ TypeOK /\ heap \in HeapRecord /\ \A t \in Threads : CallOK(t)
  BY DEF Clean, IInv, TypeOK, CallInv
<1>2. ASSUME NEW t \in Threads, NEW kind, NEW raw, NEW old, Request(t, kind, raw, old)
      PROVE  UNCHANGED <<Owned, HandedOut>>
  <2> DEFINE c == [kind |-> kind, raw |-> raw, at |-> NULL, old |-> old]
  <2>1. /\ pc[t] = "idle" /\ heap' = heap /\ live' = live
        /\ pc' = [pc EXCEPT ![t] = "search"] /\ call' = [call EXCEPT ![t] = c]
    BY <1>2 DEF Request
  <2> HIDE DEF c
  <2>2. SameWindow
    BY <1>1, <2>1, SetCall DEF SameWindow
  <2> QED
    BY <2>1, <2>2, HiddenStep
<1>3. ASSUME NEW t \in Threads, ReallocZero(t)
      PROVE  UNCHANGED <<Owned, HandedOut>>
  <2>1. /\ pc[t] = "idle" /\ heap' = heap /\ live' = live
        /\ pc' = [pc EXCEPT ![t] = "release"]
        /\ \E c : call' = [call EXCEPT ![t] = c]
    BY <1>3 DEF ReallocZero
  <2>2. SameWindow
    BY <1>1, <2>1, SetCall DEF SameWindow
  <2> QED
    BY <2>1, <2>2, HiddenStep
<1>4. ASSUME NEW t \in Threads, OutOfMemory(t)
      PROVE  UNCHANGED <<Owned, HandedOut>>
  <2>1. /\ pc[t] = "search" /\ heap' = heap /\ live' = live
        /\ pc' = [pc EXCEPT ![t] = "idle"] /\ call' = [call EXCEPT ![t] = NoCall]
    BY <1>4 DEF OutOfMemory, Searching
  <2>2. SameWindow
    BY <1>1, <2>1, SetCall DEF SameWindow
  <2> QED
    BY <2>1, <2>2, HiddenStep
<1>5. ASSUME NEW t \in Threads, SkipSmall(t)
      PROVE  UNCHANGED <<Owned, HandedOut>>
  <2>1. heap'.size = heap.size /\ live' = live /\ SameWindow
    BY <1>1, <1>5 DEF SkipSmall, HeapRecord, SameWindow
  <2> QED
    BY <2>1, HiddenStep
<1>6. ASSUME NEW t \in Threads, DoubleFree(t)
      PROVE  UNCHANGED <<Owned, HandedOut>>
  <2>1. heap' = heap /\ live' = live /\ SameWindow
    BY <1>6 DEF DoubleFree, SameWindow
  <2> QED
    BY <2>1, HiddenStep
<1>7. ASSUME ForeignSbrk \/ Stopped
      PROVE  UNCHANGED <<Owned, HandedOut>>
  <2>1. heap' = heap /\ live' = live /\ SameWindow
    BY <1>7 DEF ForeignSbrk, Stopped, vars, SameWindow
  <2> QED
    BY <2>1, HiddenStep
<1>8. ASSUME NEW t \in Threads, Free(t) PROVE Abstract!Release
  <2>1. ~InWindow /\ ~InWindow'
    BY <1>8 DEF Merges, Free, InWindow
  <2>2. PICK r \in live : Deallocate(r.ptr)
    BY <1>8 DEF Free
  <2> QED
    BY <2>1, <2>2, ReleaseStep
<1>9. ASSUME NEW t \in Threads, ReleaseOld(t) PROVE Abstract!Release
  <2>1. /\ pc[t] = "release" /\ Deallocate(call[t].old)
        /\ pc' = [pc EXCEPT ![t] = "idle"]
    BY <1>9 DEF ReleaseOld
  <2>2. ~InWindow /\ ~InWindow'
    <3>1. ~InWindow
      BY <1>9 DEF Merges
    <3> QED
      BY <1>1, <2>1, <3>1 DEF InWindow, TypeOK
  <2>3. PICK r \in live : r.ptr = call[t].old
    BY <1>1, <2>1 DEF CallOK
  <2> QED
    BY <2>1, <2>2, <2>3, ReleaseStep
<1>10. CASE \E t \in Threads : Call(t)
  BY <1>2, <1>3, <1>6, <1>8, <1>10 DEF Call, Malloc, Calloc, Realloc, Abstract!Next
<1>11. CASE \E t \in Threads : Proceed(t)
  <2>1. PICK t \in Threads : Proceed(t)
    BY <1>11
  <2>2. CASE TakeSplit(t) \/ TakeWhole(t)
    BY <2>2, AllocateStep DEF Abstract!Next
  <2>3. CASE GrowSeparate(t) \/ GrowJoined(t)
    BY <2>3, ExtendStep DEF Merges, Abstract!Next
  <2>4. CASE SkipSmall(t) \/ OutOfMemory(t) \/ Mark(t)
    BY <2>4, <1>4, <1>5, MarkHidden
  <2>5. CASE ReleaseOld(t)
    BY <2>5, <1>9 DEF Abstract!Next
  <2> QED
    BY <2>1, <2>2, <2>3, <2>4, <2>5 DEF Proceed
<1> QED
  BY <1>7, <1>10, <1>11 DEF Next

(* malloc, realloc and free are what Allocator promises: every step of the *)
(* heap allocates a region nobody holds, releases one, extends the memory, *)
(* or changes nothing a client can see.                                    *)
THEOREM HeapImplementsAllocator ==
  ASSUME Unwrapped
  PROVE  Guarded => ImplementsAllocator
<1>1. Init => Abstract!Init
  BY OwnedAtFirst DEF Abstract!Init, Owned
<1>2. IInv => Clean
  BY InvClients, InvDisjoint, InvDataOwned DEF Clean
<1>3. Clean /\ Clean' /\ [Next /\ (InWindow => ~Merges)]_vars
        => [Abstract!Next]_<<Owned, HandedOut>>
  <2> SUFFICES ASSUME Clean, Clean', [Next /\ (InWindow => ~Merges)]_vars
               PROVE  [Abstract!Next]_<<Owned, HandedOut>>
    OBVIOUS
  <2>1. CASE Next /\ (InWindow => ~Merges)
    BY <2>1, RefineStep
  <2>2. CASE UNCHANGED vars
    <3>1. heap' = heap /\ live' = live /\ SameWindow
      BY <2>2 DEF vars, SameWindow
    <3> QED
      BY <3>1, HiddenStep
  <2> QED
    BY <2>1, <2>2
<1>4. Clean /\ Clean' /\ [Next /\ (InWindow => ~Merges)]_vars
        => [Abstract!Next]_<<UNION {a .. a + heap.size[a] - 1 : a \in Headers}, HandedOut>>
  BY <1>3 DEF Owned
<1> QED
  BY <1>1, <1>2, <1>4, GuardedInv, PTL
     DEF Guarded, ImplementsAllocator, Abstract!Spec

-----------------------------------------------------------------------------
(***************************************************************************)
(* Which list a block is on, and which blocks a search misses.             *)
(***************************************************************************)

(* On a list with a block on it the sentinel's next is a block. *)
LEMMA ListEmpty ==
  ASSUME NEW h, NEW L, NEW rank, NEW home, OnLists(h, L, rank, home), NEW b \in L
  PROVE  h.next[Sentinel(home[b])] # Sentinel(home[b])
<1> DEFINE T == {n \in L : home[n] = home[b]}
           R == {rank[n] : n \in T}
<1>1. /\ L \subseteq Addr /\ rank \in [Addr -> Nat] /\ home \in [Node -> ListIndex]
      /\ \A n \in L \cup Sentinels :
           /\ h.prev[n] \in L \cup Sentinels /\ h.next[h.prev[n]] = n
           /\ home[h.next[n]] = home[n]
      /\ \A n \in L : h.next[n] \in L => rank[n] < rank[h.next[n]]
      /\ \A i \in ListIndex : home[Sentinel(i)] = i
  BY DEF OnLists, Linked
<1>2. R \subseteq Nat /\ R # {}
  BY <1>1
<1> HIDE DEF R
<1>3. PICK k \in R : \A m \in R : k <= m
  BY <1>2, LeastNatural
<1>4. PICK n \in T : rank[n] = k
  BY <1>3 DEF R
<1>5. /\ n \in L /\ home[n] = home[b] /\ rank[n] \in Nat
      /\ h.next[h.prev[n]] = n /\ home[h.prev[n]] = home[b]
  BY <1>1, <1>4
<1>6. h.prev[n] \notin L
  <2> SUFFICES ASSUME h.prev[n] \in L PROVE FALSE
    OBVIOUS
  <2>1. rank[h.prev[n]] < rank[n] /\ rank[h.prev[n]] \in Nat
    BY <1>1, <1>5
  <2>2. rank[h.prev[n]] \in R
    BY <1>5 DEF R
  <2>3. rank[n] <= rank[h.prev[n]]
    BY <1>3, <1>4, <2>2
  <2> QED
    BY <1>5, <2>1, <2>3, SMT
<1>7. h.prev[n] \in Sentinels
  BY <1>1, <1>5, <1>6
<1>8. h.prev[n] = Sentinel(home[b])
  BY <1>1, <1>5, <1>7, SentinelFacts
<1>9. n \notin Sentinels
  BY <1>1, <1>5, SentinelFacts
<1> QED
  BY <1>5, <1>7, <1>8, <1>9

(* The walk back from a block ends at the sentinel of its list. *)
LEMMA HomeListIs ==
  ASSUME NEW rank, NEW home, OnLists(heap, FreeBlocks, rank, home)
  PROVE  \A b \in FreeBlocks : HomeList[b] = home[b]
<1> DEFINE N == FreeBlocks \cup Sentinels
           Walk(g) == [n \in N |-> IF n \in Sentinels THEN IndexOf(n) ELSE g[heap.prev[n]]]
           f == [n \in N |-> home[n]]
<1>1. /\ FreeBlocks \subseteq Addr /\ rank \in [Addr -> Nat] /\ home \in [Node -> ListIndex]
      /\ \A n \in N : /\ heap.prev[n] \in N /\ heap.next[heap.prev[n]] = n
                      /\ home[heap.next[n]] = home[n]
      /\ \A n \in FreeBlocks : heap.next[n] \in FreeBlocks => rank[n] < rank[heap.next[n]]
      /\ \A i \in ListIndex : home[Sentinel(i)] = i
  BY DEF OnLists, Linked
<1>2. f = Walk(f)
  <2>1. \A n \in Sentinels : home[n] = IndexOf(n)
    BY <1>1, SentinelFacts
  <2>2. \A n \in N : heap.prev[n] \in N /\ home[heap.prev[n]] = home[n]
    BY <1>1
  <2> QED
    BY <2>1, <2>2
<1>3. HomeList = CHOOSE g : g = Walk(g)
  BY DEF HomeList
<1>4. HomeList = Walk(HomeList)
  BY <1>2, <1>3
<1>5. /\ \A n \in Sentinels : HomeList[n] = IndexOf(n)
      /\ \A n \in FreeBlocks : HomeList[n] = HomeList[heap.prev[n]]
  BY <1>4, <1>1, SentinelFacts
<1>6. ASSUME NEW b \in FreeBlocks, HomeList[b] # home[b]
      PROVE  FALSE
  <2> DEFINE T == {n \in FreeBlocks : HomeList[n] # home[n]}
             R == {rank[n] : n \in T}
  <2>1. R \subseteq Nat /\ R # {}
    BY <1>1, <1>6
  <2> HIDE DEF R
  <2>2. PICK k \in R : \A m \in R : k <= m
    BY <2>1, LeastNatural
  <2>3. PICK n \in T : rank[n] = k
    BY <2>2 DEF R
  <2>4. /\ n \in FreeBlocks /\ rank[n] \in Nat /\ heap.prev[n] \in N
        /\ heap.next[heap.prev[n]] = n /\ home[heap.prev[n]] = home[n]
        /\ HomeList[n] = HomeList[heap.prev[n]] /\ HomeList[n] # home[n]
    BY <1>1, <1>5, <2>3
  <2>5. CASE heap.prev[n] \in Sentinels
    <3>1. home[heap.prev[n]] = IndexOf(heap.prev[n])
      BY <1>1, <2>5, SentinelFacts
    <3> QED
      BY <1>5, <2>4, <2>5, <3>1
  <2>6. CASE heap.prev[n] \in FreeBlocks
    <3>1. rank[heap.prev[n]] < rank[n] /\ rank[heap.prev[n]] \in Nat
      BY <1>1, <2>4, <2>6
    <3>2. rank[heap.prev[n]] \in R
      BY <2>4, <2>6 DEF R
    <3>3. rank[n] <= rank[heap.prev[n]]
      BY <2>2, <2>3, <3>2
    <3> QED
      BY <2>4, <3>1, <3>3, SMT
  <2> QED
    BY <2>4, <2>5, <2>6
<1> QED
  BY <1>6

LEMMA InvMisfiled ==
  ASSUME IInv
  PROVE  MisfiledOnlyAtTop
<1>1. Listing(heap, FreeBlocks)
  BY HeapNow DEF IInv
<1>2. PICK rank, home : OnLists(heap, FreeBlocks, rank, home) /\ Filed(heap.size, FreeBlocks, home)
  BY <1>1, ListingElim
<1>3. \A b \in FreeBlocks : HomeList[b] = home[b]
  BY <1>2, HomeListIs
<1> QED
  BY <1>2, <1>3 DEF MisfiledOnlyAtTop, Misfiled, Filed, FiledAs

(* A block of at least w words is filed no lower than w, if not at the top. *)
LEMMA ServingLists ==
  ASSUME NEW w \in Nat, w >= MIN, NEW v \in Nat, v >= MIN, WordIndex(w) < NLists - 3,
         NEW i \in ListIndex, FiledAs(i, v)
  PROVE  v >= w <=> i >= WordIndex(w)
<1>1. WordIndex(w) \in Int /\ WordIndex(v) \in Int /\ i \in Int /\ NLists \in Int
  BY WordIndexes, NListsAssumption, HeaderWords, SMT DEF ListIndex
<1>2. v >= w <=> WordIndex(v) >= WordIndex(w)
  <2>1. \A u \in Nat : u >= 4 =>
          WordIndex(u) = IF u - 3 >= NLists THEN NLists - 1 ELSE u - 3
    BY NListsAssumption, SMT DEF WordIndex, SizeToIndex, LastUnlessBelow, AllocHeaderSize
  <2> QED
    BY <2>1, HeaderWords, NListsAssumption, SMT
<1> QED
  BY <1>1, <1>2, SMT DEF FiledAs

(* What a search for raw bytes that stands at c, on the list of s, knows. *)
Serves(h, L, c, s, raw) ==
  LET want == BlockWords(raw) IN
  /\ IndexOf(s) >= WordIndex(want)
  /\ WordIndex(want) < NLists - 3 /\ c = s => \A b \in L : h.size[b] < want

LEMMA ServesAtFirst ==
  ASSUME NEW h, NEW L, Listing(h, L), InitialBits = {},
         \A b \in L : h.size[b] \in Nat /\ h.size[b] >= MIN,
         NEW raw \in Requests, NEW s, s = PopulatedSentinel(h, BlockWords(raw)),
         NEW c, c = h.next[s]
  PROVE  Serves(h, L, c, s, raw)
<1> DEFINE want == BlockWords(raw)
           j == NextSetBit(h.bits, WordIndex(want))
<1>1. WordIndex(want) \in ListIndex /\ want \in Nat /\ want >= MIN
  BY RequestWords
<1>2. j \in ListIndex /\ j >= WordIndex(want) /\ s = Sentinel(j) /\ IndexOf(s) = j
  BY <1>1, NextSetBitInRange, SentinelFacts DEF PopulatedSentinel
<1>3. \A i \in ListIndex : WordIndex(want) <= i /\ i < j => i \notin h.bits
  BY <1>1, NextSetBitFirst
<1> HIDE DEF j, want
<1>4. ASSUME WordIndex(want) < NLists - 3, c = s, NEW b \in L
      PROVE  h.size[b] < want
  <2>1. PICK rank, home : OnLists(h, L, rank, home) /\ Filed(h.size, L, home)
    BY ListingElim
  <2>2. home[b] \in ListIndex /\ FiledAs(home[b], h.size[b])
    BY <2>1, SentinelFacts DEF OnLists, Linked, Filed
  <2>3. home[b] \in h.bits /\ home[b] # j /\ j \notin h.bits
    <3>1. OnLists(h, L, rank, home) /\ b \in L
      BY <2>1
    <3>2. h.next[Sentinel(home[b])] # Sentinel(home[b])
      BY <3>1, ListEmpty
    <3>3. h.next[Sentinel(j)] = Sentinel(j)
      BY <1>2, <1>4
    <3>4. \A i \in ListIndex :
            /\ h.next[Sentinel(i)] # Sentinel(i) => i \in h.bits
            /\ h.next[Sentinel(i)] = Sentinel(i) => i \notin h.bits
      BY <3>1 DEF OnLists, BitsTrack
    <3> QED
      BY <1>2, <2>2, <3>2, <3>3, <3>4
  <2>4. ~(home[b] >= WordIndex(want))
    <3>1. ~(home[b] < j /\ WordIndex(want) <= home[b])
      BY <1>3, <2>2, <2>3
    <3>2. j < NLists - 1 => j \in h.bits
      BY <1>1, NextSetBitInRange DEF j
    <3>3. j = NLists - 1
      BY <1>2, <2>3, <3>2, NListsAssumption, SMT DEF ListIndex
    <3> QED
      BY <1>1, <1>2, <2>2, <2>3, <3>1, <3>3, NListsAssumption, SMT DEF ListIndex
  <2>5. h.size[b] \in Nat /\ h.size[b] >= MIN
    OBVIOUS
  <2>6. ~(h.size[b] >= want)
    BY <1>1, <1>4, <2>2, <2>4, <2>5, ServingLists
  <2> QED
    BY <1>1, <2>5, <2>6, SMT
<1> QED
  BY <1>2, <1>4 DEF Serves, want

(* What the mutex holder's search knows, if the bitmap began empty. *)
ServeInv ==
  InitialBits = {} /\ mutex # NULL =>
    Serves(heap, FreeBlocks, cur, freelist, call[mutex].raw)

ListNow ==
  /\ Listing(heap, FreeBlocks)
  /\ \A b \in FreeBlocks : heap.size[b] \in Nat /\ heap.size[b] >= MIN

Known == IInv /\ ListNow

LEMMA InvListNow ==
  ASSUME IInv
  PROVE  ListNow
<1>1. PICK E : /\ Sound(heap, Lefts, E, Handing, brk) /\ brk \in Int
               /\ Listing(heap, FreeBlocks)
  BY HeapNow DEF IInv
<1>2. FreeBlocks \subseteq Heads(heap.size) \ (Lefts \cup E)
  BY <1>1, SoundParts, FreeIsVacant
<1>3. Tags(heap.size, heap.left, Lefts, E, brk)
  BY <1>1, SoundParts
<1>4. \A b \in FreeBlocks : heap.size[b] \in Nat /\ heap.size[b] >= 4
  BY <1>1, <1>2, <1>3, BlockTags
<1> QED
  BY <1>1, <1>4, HeaderWords DEF ListNow

LEMMA ServeStart ==
  ASSUME ListNow', NEW raw \in Requests, mutex' # NULL, call'[mutex'].raw = raw,
         StartSearch(heap', raw)
  PROVE  ServeInv'
<1> SUFFICES ASSUME InitialBits = {}
             PROVE  Serves(heap', FreeBlocks', cur', freelist', raw)
  BY DEF ServeInv
<1>1. /\ Listing(heap', FreeBlocks')
      /\ \A b \in FreeBlocks' : heap'.size[b] \in Nat /\ heap'.size[b] >= MIN
  BY DEF ListNow
<1>2. /\ freelist' = PopulatedSentinel(heap', BlockWords(raw))
      /\ cur' = heap'.next[freelist']
  BY DEF StartSearch
<1> QED
  BY <1>1, <1>2, ServesAtFirst

(* A search for a size below the top takes the first block it comes to. *)
LEMMA ServeSkip ==
  ASSUME Known, ServeInv, NEW t \in Threads, SkipSmall(t)
  PROVE  ServeInv'
<1> SUFFICES ASSUME InitialBits = {}
             PROVE  Serves(heap', FreeBlocks', cur', freelist', call'[mutex'].raw)
  BY DEF ServeInv
<1>1. /\ mutex = t /\ Searching(t) /\ cur # freelist /\ heap.size[cur] < Want(t)
      /\ heap' = [heap EXCEPT !.wild = cur' = NULL]
      /\ UNCHANGED <<mutex, pc, call, freelist>>
  BY DEF SkipSmall, Searching
<1>2. t # NULL
  BY HeapAssumption
<1>3. IndexOf(freelist) >= WordIndex(Want(t))
  BY <1>1, <1>2 DEF ServeInv, Serves, Want
<1>4. ~(WordIndex(Want(t)) < NLists - 3)
  <2> SUFFICES ASSUME WordIndex(Want(t)) < NLists - 3 PROVE FALSE
    OBVIOUS
  <2>1. cur \in FreeBlocks /\ Want(t) \in Nat /\ Want(t) >= MIN
    BY <1>1, SearchAt DEF Known
  <2>2. /\ freelist \in Sentinels /\ SameList(heap, FreeBlocks, cur, freelist)
    BY <1>1, <1>2 DEF Known, IInv, SearchInv
  <2>3. PICK rank, home : /\ OnLists(heap, FreeBlocks, rank, home)
                          /\ Filed(heap.size, FreeBlocks, home)
    BY ListingElim DEF Known, ListNow
  <2>4. /\ home \in [Node -> ListIndex]
        /\ \A n \in FreeBlocks \cup Sentinels : home[heap.next[n]] = home[n]
        /\ \A i \in ListIndex : home[Sentinel(i)] = i
    BY <2>3 DEF OnLists, Linked
  <2>5. home[cur] = home[freelist]
    BY <2>2, <2>4 DEF SameList
  <2>6. home[cur] = IndexOf(freelist) /\ IndexOf(freelist) \in ListIndex
    BY <2>2, <2>4, <2>5, SentinelFacts
  <2>7. FiledAs(IndexOf(freelist), heap.size[cur])
    BY <2>1, <2>3, <2>6 DEF Filed
  <2>8. heap.size[cur] \in Nat /\ heap.size[cur] >= MIN
    BY <2>1 DEF Known, ListNow
  <2>9. heap.size[cur] >= Want(t)
    BY <1>3, <2>1, <2>6, <2>7, <2>8, ServingLists
  <2> QED
    BY <1>1, <2>1, <2>8, <2>9, SMT
<1> QED
  BY <1>1, <1>3, <1>4 DEF Serves, Want

(* Another thread marks its block, or does nothing to the heap. *)
LEMMA ServeMark ==
  ASSUME Known, ServeInv, NEW t \in Threads, Mark(t)
  PROVE  ServeInv'
<1> SUFFICES ASSUME InitialBits = {}, mutex' # NULL
             PROVE  Serves(heap', FreeBlocks', cur', freelist', call'[mutex'].raw)
  BY DEF ServeInv
<1> DEFINE at == call[t].at
<1>1. /\ pc[t] = "mark"
      /\ heap' = [heap EXCEPT !.state[at] = "allocated", !.next[at] = NULL, !.prev[at] = NULL]
      /\ \/ pc' = [pc EXCEPT ![t] = "release"] /\ call' = call
         \/ pc' = [pc EXCEPT ![t] = "idle"] /\ call' = [call EXCEPT ![t] = NoCall]
      /\ UNCHANGED <<mutex, freelist, cur>>
  BY DEF Mark
<1>2. heap \in HeapRecord /\ TypeOK /\ CallOK(t) /\ mutex \in Threads
  BY <1>1 DEF Known, IInv, CallInv, TypeOK
<1>3. mutex # t
  BY <1>1, <1>2 DEF CallOK
<1>4. \A u \in Threads \ {t} : pc'[u] = pc[u] /\ call'[u] = call[u]
  BY <1>1, <1>2 DEF TypeOK
<1>5. at \in Addr
  BY <1>1, <1>2, CallTypes DEF CallOK
<1>6. \A a : a \in Handing => a \in Handing' \/ a = at
  BY <1>4 DEF Handing
<1> HIDE DEF at
<1>7. heap'.size = heap.size /\ heap'.state = [heap.state EXCEPT ![at] = "allocated"]
  BY <1>1, <1>2 DEF HeapRecord
<1>8. heap'.state[at] = "allocated" /\ \A a \in Addr \ {at} : heap'.state[a] = heap.state[a]
  BY <1>2, <1>5, <1>7, RecordTypes
<1>9. FreeBlocks' \subseteq FreeBlocks
  BY <1>6, <1>7, <1>8 DEF FreeBlocks, Headers
<1>10. Serves(heap, FreeBlocks, cur, freelist, call[mutex].raw)
  BY <1>1 DEF ServeInv
<1> QED
  BY <1>1, <1>2, <1>3, <1>4, <1>7, <1>9, <1>10 DEF Serves

LEMMA ServeSame ==
  ASSUME ServeInv, UNCHANGED <<heap, mutex, pc, call, freelist, cur>>
  PROVE  ServeInv'
<1>1. FreeBlocks' = FreeBlocks
  BY DEF FreeBlocks, Headers, Handing
<1> QED
  BY <1>1 DEF ServeInv

LEMMA ServeStep ==
  ASSUME Known, Known', ServeInv, Next
  PROVE  ServeInv'
<1>1. CASE mutex' = NULL
  BY <1>1 DEF ServeInv
<1>2. ASSUME NEW t \in Threads, NEW kind, NEW raw \in Requests, NEW old,
             Request(t, kind, raw, old)
      PROVE  ServeInv'
  <2> DEFINE c == [kind |-> kind, raw |-> raw, at |-> NULL, old |-> old]
  <2>1. /\ mutex' = t /\ heap' = heap /\ StartSearch(heap, raw)
        /\ pc' = [pc EXCEPT ![t] = "search"] /\ call' = [call EXCEPT ![t] = c]
    BY <1>2 DEF Request
  <2>2. c.raw = raw
    OBVIOUS
  <2> HIDE DEF c
  <2>3. call'[t] = c
    BY <2>1, SetCall DEF Known, IInv
  <2> QED
    BY <2>1, <2>2, <2>3, HeapAssumption, ServeStart DEF Known
<1>3. ASSUME NEW t \in Threads, GrowJoined(t) \/ GrowSeparate(t)
      PROVE  ServeInv'
  <2>1. /\ mutex = t /\ mutex' = t /\ call' = call /\ pc[t] = "search"
        /\ StartSearch(heap', call[t].raw)
    BY <1>3 DEF GrowJoined, GrowSeparate, GrowBy, Searching
  <2>2. call[t].raw \in Requests
    BY <2>1 DEF Known, IInv, CallInv, CallOK
  <2> QED
    BY <2>1, <2>2, HeapAssumption, ServeStart DEF Known
<1>4. CASE mutex' # NULL /\ \E t \in Threads : Call(t)
  <2>1. PICK t \in Threads : Call(t)
    BY <1>4
  <2>2. ~ReallocZero(t) /\ ~Free(t) /\ ~DoubleFree(t)
    BY <1>4 DEF ReallocZero, Free, Deallocate, DoubleFree
  <2> QED
    BY <1>2, <2>1, <2>2 DEF Call, Malloc, Calloc, Realloc
<1>5. CASE mutex' # NULL /\ \E t \in Threads : Proceed(t)
  <2>1. PICK t \in Threads : Proceed(t)
    BY <1>5
  <2>2. ~TakeSplit(t) /\ ~TakeWhole(t) /\ ~OutOfMemory(t) /\ ~ReleaseOld(t)
    BY <1>5 DEF TakeSplit, TakeWhole, HandOut, OutOfMemory, ReleaseOld, Deallocate
  <2> QED
    BY <1>3, <2>1, <2>2, ServeSkip, ServeMark DEF Proceed
<1>6. CASE ForeignSbrk \/ Stopped
  <2>1. UNCHANGED <<heap, mutex, pc, call, freelist, cur>>
    BY <1>6 DEF ForeignSbrk, Stopped, vars
  <2> QED
    BY <2>1, ServeSame
<1> QED
  BY <1>1, <1>4, <1>5, <1>6 DEF Next

LEMMA InvMisses ==
  ASSUME Known, ServeInv, InitialBits = {}
  PROVE  MissesOnlyAtTop
<1> SUFFICES ASSUME NEW t \in Threads, NEW b \in FreeBlocks, Exhausted(t),
                    heap.size[b] >= Want(t)
             PROVE  WordIndex(Want(t)) >= NLists - 3
  BY DEF MissesOnlyAtTop
<1>1. mutex = t /\ pc[t] = "search" /\ cur = freelist /\ t # NULL
  BY HeapAssumption DEF Exhausted, Searching
<1>2. Serves(heap, FreeBlocks, cur, freelist, call[t].raw)
  BY <1>1 DEF ServeInv
<1>3. call[t].raw \in Requests
  BY <1>1 DEF Known, IInv, CallInv, CallOK
<1>4. Want(t) \in Nat /\ WordIndex(Want(t)) \in ListIndex
  BY <1>3, RequestWords DEF Want
<1>5. heap.size[b] \in Nat
  BY DEF Known, ListNow
<1>6. ~(heap.size[b] < Want(t))
  BY <1>4, <1>5, SMT
<1>7. ~(WordIndex(Want(t)) < NLists - 3)
  BY <1>1, <1>2, <1>6 DEF Serves, Want
<1> QED
  BY <1>4, <1>7, NListsAssumption, SMT DEF ListIndex

(* move_coalesced leaves a block in the wrong list only among the last     *)
(* three, whatever has been split off it and merged into it.               *)
THEOREM FiledBelowTheTop == Guarded => []MisfiledOnlyAtTop
<1>1. IInv => MisfiledOnlyAtTop
  BY InvMisfiled
<1> QED
  BY <1>1, GuardedInv, PTL

(* If freelist_bitmap begins empty, a request below the last three lists   *)
(* grows the heap only when no free block is large enough.                 *)
THEOREM SearchComplete ==
  ASSUME InitialBits = {}
  PROVE  Guarded => []MissesOnlyAtTop
<1>1. Init => ServeInv
  BY DEF Init, ServeInv
<1>2. Known /\ Known' /\ ServeInv /\ [Next /\ (InWindow => ~Merges)]_vars => ServeInv'
  <2>1. CASE UNCHANGED vars
    BY <2>1, ServeSame DEF vars
  <2> QED
    BY <2>1, ServeStep
<1>3. IInv => Known
  BY InvListNow DEF Known
<1>4. Known /\ ServeInv => MissesOnlyAtTop
  BY InvMisses
<1> QED
  BY <1>1, <1>2, <1>3, <1>4, GuardedInv, PTL DEF Guarded

-----------------------------------------------------------------------------
(* All of it holds of a program with one client thread.                 *)
THEOREM OneClientSafe ==
  ASSUME OneClient
  PROVE  Spec => [](/\ TypeOK /\ BoundaryTags /\ ListsHoldFreeBlocks /\ NoAdjacentFree
                    /\ BitmapTracksLists /\ MisfiledOnlyAtTop
                    /\ NeverAstray /\ SearchOnList)
BY OneClientGuarded, TypesKept, TagsSound, ListsSound, CoalescingComplete, BitmapSound,
   FiledBelowTheTop, StaysOnCourse, SearchStaysOnList, PTL

(* The same of one client. *)
THEOREM OneClientServed ==
  ASSUME OneClient, Unwrapped
  PROVE  Spec => ImplementsAllocator /\ [](ClientsOwnBlocks /\ DataAvoidHeaders
                                          /\ HandedOutDisjoint)
BY OneClientGuarded, HeapImplementsAllocator, ClientsServed, HeadersUntouched,
   AllocationsDisjoint, PTL

=============================================================================
