----------------------------- MODULE MallocHeap -----------------------------
(***************************************************************************)
(* snap_malloc's heap: boundary-tagged blocks, segregated doubly linked    *)
(* free lists with a bitmap, chunks taken from sbrk, one mutex, and the    *)
(* client calls my_malloc, my_calloc, my_realloc and my_free made by       *)
(* several threads.                                                        *)
(*                                                                         *)
(* Memory is counted in words of 8 bytes, the granularity to which         *)
(* allocate_object rounds: an allocated block's header is 2 words, a       *)
(* fencepost is a bare header, and no block is smaller than a full Header, *)
(* 4 words.  Address 0 is the first word sbrk returns.                     *)
(***************************************************************************)
EXTENDS SizeClasses, Sequences

CONSTANTS
  Threads,      \* the client threads
  NULL,         \* no pointer
  Arena,        \* words a call of sbrk asks for (arena_size)
  HeapLimit,    \* words the operating system grants in all
  Requests,     \* request sizes, in bytes
  ForeignSizes, \* words other users of sbrk ask for
  InitialBits   \* what the never-initialised freelist_bitmap holds at first

HDR == AllocHeaderSize \div 8
MIN == HeaderSize \div 8

Addr        == 0 .. HeapLimit - 1
Sentinel(i) == -1 - i
IndexOf(n)  == -1 - n
Sentinels   == {Sentinel(i) : i \in ListIndex}
Node        == Addr \cup Sentinels
BlockState  == {"unallocated", "allocated", "fencepost"}

ASSUME HeapAssumption ==
  /\ Arena \in Nat /\ Arena >= 2 * HDR + MIN
  /\ HeapLimit \in Nat /\ HeapLimit >= Arena
  /\ Requests \subseteq 0 .. SizeMod - 1
  /\ ForeignSizes \subseteq Nat \ {0}
  /\ InitialBits \subseteq ListIndex
  /\ NULL \notin Node /\ NULL \notin Threads

BlockWords(raw) == BlockSize(raw) \div 8
WordIndex(size) == SizeToIndex(8 * size)

-----------------------------------------------------------------------------
(***************************************************************************)
(* The heap is one record: the header fields of every word address (size 0 *)
(* where no header lies), the links of blocks and list sentinels, and the  *)
(* bitmap as the set of its set bits.  `wild' records that the code        *)
(* followed a link that is not one: after it, anything may happen.         *)
(***************************************************************************)

HeapRecord ==
  [size  : [Addr -> 0 .. HeapLimit],
   left  : [Addr -> 0 .. HeapLimit],
   state : [Addr -> BlockState],
   next  : [Node -> Node \cup {NULL}],
   prev  : [Node -> Node \cup {NULL}],
   bits  : SUBSET ListIndex,
   wild  : BOOLEAN]

(* The header of a block merged into its neighbour is plain memory again.  *)
(* Its state bits stay as they are: my_free may read them once more.       *)
Forget(h, a) ==
  [h EXCEPT !.size[a] = 0, !.left[a] = 0, !.next[a] = NULL, !.prev[a] = NULL]

LeftOf(h, b)  == b - h.left[b]
RightOf(h, b) == b + h.size[b]

InitializeFencepost(h, a, leftSize) ==
  [h EXCEPT !.size[a] = HDR, !.left[a] = leftSize, !.state[a] = "fencepost"]

InsertFenceposts(h, mem) ==
  InitializeFencepost(InitializeFencepost(h, mem, HDR),
                      mem + Arena - HDR, Arena - 2 * HDR)

(* allocate_chunk, for memory sbrk has just returned. *)
AllocateChunk(h, mem) ==
  [InsertFenceposts(h, mem) EXCEPT
     !.size[mem + HDR]  = Arena - 2 * HDR,
     !.left[mem + HDR]  = HDR,
     !.state[mem + HDR] = "unallocated"]

(* A stale link is followed as it stands; a block that never had links     *)
(* (or whose client has overwritten them) sends the code astray.           *)

(* Mutated form: the bit of a list that becomes empty stays set. *)
FreelistRemoveKeepsBit(h, b) ==
  LET n == h.next[b]
      p == h.prev[b]
  IN IF n = NULL \/ p = NULL THEN [h EXCEPT !.wild = TRUE]
     ELSE [h EXCEPT !.next[p] = n, !.prev[n] = p]

FreelistRemove(h, b) ==
  LET n == h.next[b]
      p == h.prev[b]
  IN IF n = NULL \/ p = NULL THEN [h EXCEPT !.wild = TRUE]
     ELSE [h EXCEPT !.bits    = IF h.next[n] = b THEN @ \ {IndexOf(n)} ELSE @,
                    !.next[p] = n,
                    !.prev[n] = p]

(* Mutated form: p's link is set before b's is read from it. *)
FreelistInsertBetweenLate(h, b, p, n) ==
  [h EXCEPT !.next = [@ EXCEPT ![p] = b, ![b] = b],
            !.prev = [@ EXCEPT ![b] = p, ![n] = b]]

FreelistInsertBetween(h, b, p, n) ==
  [h EXCEPT !.next = [@ EXCEPT ![b] = n, ![p] = b],
            !.prev = [@ EXCEPT ![b] = p, ![n] = b]]

FreelistInsert(h, b) ==
  LET s == Sentinel(SentinelIndex(8 * h.size[b]))
  IN FreelistInsertBetween(
       [h EXCEPT !.bits = @ \cup {WordIndex(h.size[b])}], b, s, h.next[s])

MoveCoalesced(h, b, oldSize) ==
  IF Relists(8 * h.size[b], 8 * oldSize)
  THEN FreelistInsert(FreelistRemove(h, b), b)
  ELSE h

(* The right part goes to the client; the two state bits already at its    *)
(* header are kept, whatever the memory held.                              *)

(* Mutated form: the block after the pair keeps its old left_size. *)
SplitBlockNoRightTag(h, b, size, stale) ==
  LET old == h.size[b]
      ret == b + old - size
  IN MoveCoalesced(
       [h EXCEPT !.size  = [@ EXCEPT ![b] = old - size, ![ret] = size],
                 !.left[ret]  = old - size,
                 !.state[ret] = stale],
       b, old)

SplitBlock(h, b, size, stale) ==
  LET old == h.size[b]
      ret == b + old - size
  IN MoveCoalesced(
       [h EXCEPT !.size  = [@ EXCEPT ![b] = old - size, ![ret] = size],
                 !.left  = [@ EXCEPT ![ret] = old - size, ![b + old] = size],
                 !.state[ret] = stale],
       b, old)

CoalesceLeft(h, l, b, r) ==
  LET merged == h.size[l] + h.size[b]
  IN MoveCoalesced(
       [Forget(h, b) EXCEPT !.size[l] = merged, !.left[r] = merged],
       l, h.size[l])

CoalesceRight(h, b, r) ==
  LET merged == h.size[b] + h.size[r]
      n == h.next[r]
      p == h.prev[r]
      sized == [Forget(h, r) EXCEPT !.size[b] = merged,
                                    !.left[RightOf(h, r)] = merged]
  IN IF n = NULL \/ p = NULL THEN [sized EXCEPT !.wild = TRUE]
     ELSE MoveCoalesced(FreelistInsertBetween(sized, b, p, n), b, h.size[r])

(* Mutated form: the right neighbour stays in its list. *)
CoalesceBothKeepsRight(h, l, b, r) ==
  LET merged == h.size[l] + h.size[b] + h.size[r]
      sized  == [h EXCEPT !.size[l] = merged, !.left[RightOf(h, r)] = merged]
  IN MoveCoalesced([sized EXCEPT !.size[b] = 0, !.size[r] = 0], l, h.size[l])

(* Mutated form: the right neighbour's size is left out of the sum. *)
CoalesceBothLosesRight(h, l, b, r) ==
  LET merged == h.size[l] + h.size[b]
      sized  == [h EXCEPT !.size[l] = merged, !.left[RightOf(h, r)] = merged]
  IN MoveCoalesced(Forget(Forget(FreelistRemove(sized, r), r), b), l, h.size[l])

CoalesceBoth(h, l, b, r) ==
  LET merged == h.size[l] + h.size[b] + h.size[r]
      sized  == [h EXCEPT !.size[l] = merged, !.left[RightOf(h, r)] = merged]
  IN MoveCoalesced(Forget(Forget(FreelistRemove(sized, r), r), b), l, h.size[l])

(* Mutated form: a free right neighbour is overlooked when the left is free. *)
FreeListDeallocateLeftFirst(h, b) ==
  LET l == LeftOf(h, b)
      r == RightOf(h, b)
  IN IF h.state[l] = "unallocated" THEN CoalesceLeft(h, l, b, r)
     ELSE IF h.state[r] = "unallocated" THEN CoalesceRight(h, b, r)
     ELSE FreelistInsert(h, b)

FreeListDeallocate(h, b) ==
  LET l == LeftOf(h, b)
      r == RightOf(h, b)
      leftFree  == h.state[l] = "unallocated"
      rightFree == h.state[r] = "unallocated"
  IN CASE ~leftFree /\ ~rightFree -> FreelistInsert(h, b)
       [] leftFree  /\ rightFree  -> CoalesceBoth(h, l, b, r)
       [] leftFree  /\ ~rightFree -> CoalesceLeft(h, l, b, r)
       [] ~leftFree /\ rightFree  -> CoalesceRight(h, b, r)

(* The chunk at mem follows the last one: its left fencepost and the old   *)
(* right fencepost become part of a free block.                            *)
JoinChunk(h, mem) ==
  LET chunk == AllocateChunk(h, mem)
      prev  == mem - HDR
      rfp   == mem + Arena - HDR
  IN FreeListDeallocate(
       [Forget(Forget(chunk, mem), mem + HDR) EXCEPT
          !.size[prev] = Arena, !.left[rfp] = Arena,
          !.state[prev] = "unallocated"],
       prev)

(* get_populated_freelist_sentinel *)
PopulatedSentinel(h, size) == Sentinel(NextSetBit(h.bits, WordIndex(size)))

-----------------------------------------------------------------------------
VARIABLES
  heap,           \* the record above
  brk,            \* the program break
  lastFencePost,  \* right fencepost of the chunk taken last
  osChunkList,    \* left fenceposts of the separate chunks
  mutex,          \* the thread that holds the mutex, or NULL
  pc,             \* where each thread is
  call,           \* each thread's call in progress
  freelist, cur,  \* locals of the mutex holder's search
  live,           \* the client's allocations, not yet freed
  lastFreed,      \* the block freed last, if no allocation has begun since
  status          \* "running", "exited", "crashed" or "undetected"

vars == <<heap, brk, lastFencePost, osChunkList, mutex, pc, call, freelist,
          cur, live, lastFreed, status>>

NoCall == [kind |-> "malloc", raw |-> 0, at |-> NULL, old |-> NULL]

(* What a thread owns of the heap: the data of a block, in words. *)
Region(t, at, raw) == [by |-> t, ptr |-> at + HDR, len |-> (raw + 7) \div 8]

Running == status = "running" /\ ~heap.wild

(* malloc's caller is unharmed by NULL; my_calloc hands it to memset and   *)
(* my_realloc to memcpy.                                                   *)
AfterNull(kind) == IF kind = "malloc" THEN status ELSE "crashed"

(* The constructor: one chunk, every list empty but the one that gets it.  *)
EmptyHeap ==
  [size  |-> [a \in Addr |-> 0],
   left  |-> [a \in Addr |-> 0],
   state |-> [a \in Addr |-> "unallocated"],
   next  |-> [n \in Node |-> IF n \in Sentinels THEN n ELSE NULL],
   prev  |-> [n \in Node |-> IF n \in Sentinels THEN n ELSE NULL],
   bits  |-> InitialBits,
   wild  |-> FALSE]

Init ==
  /\ heap = FreelistInsert(AllocateChunk(EmptyHeap, 0), HDR)
  /\ brk = Arena
  /\ lastFencePost = Arena - HDR
  /\ osChunkList = <<0>>
  /\ mutex = NULL
  /\ pc = [t \in Threads |-> "idle"]
  /\ call = [t \in Threads |-> NoCall]
  /\ freelist = NULL /\ cur = NULL
  /\ live = {} /\ lastFreed = NULL
  /\ status = "running"

(* free_list_get_allocable chooses its list and starts at its front.       *)
StartSearch(h, raw) ==
  /\ freelist' = PopulatedSentinel(h, BlockWords(raw))
  /\ cur' = h.next[freelist']

EndSearch == freelist' = NULL /\ cur' = NULL

-----------------------------------------------------------------------------
(* No call is in progress that will free ptr. *)
Unclaimed(ptr) == \A t \in Threads : call[t].old # ptr

(* my_malloc, my_calloc (old = NULL) and the first half of my_realloc: take *)
(* the mutex and begin the search.                                         *)
Request(t, kind, raw, old) ==
  /\ Running
  /\ pc[t] = "idle" /\ mutex = NULL /\ raw # 0
  /\ mutex' = t
  /\ pc' = [pc EXCEPT ![t] = "search"]
  /\ call' = [call EXCEPT ![t] = [kind |-> kind, raw |-> raw, at |-> NULL, old |-> old]]
  /\ StartSearch(heap, raw)
  /\ lastFreed' = NULL
  /\ UNCHANGED <<heap, brk, lastFencePost, osChunkList, live, status>>

Malloc(t)  == \E raw \in Requests : Request(t, "malloc", raw, NULL)
Calloc(t)  == \E raw \in Requests : Request(t, "calloc", raw, NULL)
Realloc(t) ==
  \E raw \in Requests, r \in live :
    Unclaimed(r.ptr) /\ Request(t, "realloc", raw, r.ptr)

(* allocate_object returns NULL for a request of 0 bytes; my_realloc still  *)
(* frees the old block.                                                    *)
ReallocZero(t) ==
  /\ Running
  /\ pc[t] = "idle" /\ mutex = NULL /\ 0 \in Requests
  /\ \E r \in live :
       /\ Unclaimed(r.ptr)
       /\ call' = [call EXCEPT ![t] = [NoCall EXCEPT !.kind = "realloc", !.old = r.ptr]]
  /\ pc' = [pc EXCEPT ![t] = "release"]
  /\ UNCHANGED <<heap, brk, lastFencePost, osChunkList, mutex, freelist, cur,
                 live, lastFreed, status>>

Searching(t) == Running /\ mutex = t /\ pc[t] = "search"
Want(t)      == BlockWords(call[t].raw)

SkipSmall(t) ==
  /\ Searching(t) /\ cur # freelist
  /\ heap.size[cur] < Want(t)
  /\ cur' = heap.next[cur]
  /\ heap' = [heap EXCEPT !.wild = cur' = NULL]
  /\ UNCHANGED <<brk, lastFencePost, osChunkList, mutex, pc, call,
                 freelist, live, lastFreed, status>>

(* The mutex is released with the block chosen; its state is set later.    *)
HandOut(t, at) ==
  /\ mutex' = NULL
  /\ pc' = [pc EXCEPT ![t] = "mark"]
  /\ call' = [call EXCEPT ![t].at = at]
  /\ EndSearch
  /\ UNCHANGED <<brk, lastFencePost, osChunkList, live, lastFreed, status>>

TakeSplit(t) ==
  /\ Searching(t) /\ cur # freelist
  /\ heap.size[cur] >= Want(t) + MIN
  /\ \E stale \in BlockState : heap' = SplitBlock(heap, cur, Want(t), stale)
  /\ HandOut(t, cur + heap.size[cur] - Want(t))

TakeWhole(t) ==
  /\ Searching(t) /\ cur # freelist
  /\ heap.size[cur] \in Want(t) .. Want(t) + MIN - 1
  /\ heap' = FreelistRemove(heap, cur)
  /\ HandOut(t, cur)

(* The list is exhausted and sbrk fails: NULL. *)
OutOfMemory(t) ==
  /\ Searching(t) /\ cur = freelist
  /\ brk + Arena > HeapLimit
  /\ mutex' = NULL
  /\ pc' = [pc EXCEPT ![t] = "idle"]
  /\ call' = [call EXCEPT ![t] = NoCall]
  /\ status' = AfterNull(call[t].kind)
  /\ EndSearch
  /\ UNCHANGED <<heap, brk, lastFencePost, osChunkList, live, lastFreed>>

GrowBy(t, grown) ==
  /\ Searching(t) /\ cur = freelist
  /\ brk + Arena <= HeapLimit
  /\ heap' = grown
  /\ StartSearch(grown, call[t].raw)
  /\ brk' = brk + Arena
  /\ lastFencePost' = brk + Arena - HDR
  /\ UNCHANGED <<mutex, pc, call, live, lastFreed, status>>

GrowJoined(t) ==
  /\ brk - HDR = lastFencePost
  /\ GrowBy(t, JoinChunk(heap, brk))
  /\ UNCHANGED osChunkList

GrowSeparate(t) ==
  /\ brk - HDR # lastFencePost
  /\ GrowBy(t, FreelistInsert(AllocateChunk(heap, brk), brk + HDR))
  /\ osChunkList' = Append(osChunkList, brk)

(* my_malloc after it has released the mutex: the block is marked, and from *)
(* here on the client's data lie where the links were.                     *)
Mark(t) ==
  /\ Running
  /\ pc[t] = "mark"
  /\ LET at == call[t].at IN
     /\ heap' = [heap EXCEPT !.state[at] = "allocated",
                             !.next[at] = NULL, !.prev[at] = NULL]
     /\ live' = live \cup {Region(t, at, call[t].raw)}
  /\ IF call[t].kind = "realloc"
     THEN pc' = [pc EXCEPT ![t] = "release"] /\ UNCHANGED call
     ELSE pc' = [pc EXCEPT ![t] = "idle"] /\ call' = [call EXCEPT ![t] = NoCall]
  /\ UNCHANGED <<brk, lastFencePost, osChunkList, mutex, freelist, cur,
                 lastFreed, status>>

(* Mutated form: the block is not marked before it is merged. *)
DeallocateUnmarked(ptr) ==
  LET block == ptr - HDR IN
  /\ mutex = NULL
  /\ heap' = FreeListDeallocate(heap, block)
  /\ lastFreed' = block
  /\ live' = {r \in live : r.ptr # ptr}
  /\ UNCHANGED <<status, brk, lastFencePost, osChunkList, mutex, freelist, cur>>

(* Mutated form: the mutex is not taken. *)
DeallocateUnlocked(ptr) ==
  LET block == ptr - HDR IN
  /\ heap' = FreeListDeallocate([heap EXCEPT !.state[block] = "unallocated"], block)
  /\ lastFreed' = block
  /\ live' = {r \in live : r.ptr # ptr}
  /\ UNCHANGED <<status, brk, lastFencePost, osChunkList, mutex, freelist, cur>>

(* deallocate_object, with the mutex held throughout. *)
Deallocate(ptr) ==
  LET block == ptr - HDR IN
  /\ mutex = NULL
  /\ IF heap.state[block] = "unallocated"
     THEN status' = "exited" /\ UNCHANGED <<heap, lastFreed>>
     ELSE /\ heap' = FreeListDeallocate(
                       [heap EXCEPT !.state[block] = "unallocated"], block)
          /\ lastFreed' = block
          /\ UNCHANGED status
  /\ live' = {r \in live : r.ptr # ptr}
  /\ UNCHANGED <<brk, lastFencePost, osChunkList, mutex, freelist, cur>>

Free(t) ==
  /\ Running
  /\ pc[t] = "idle"
  /\ \E r \in live : Unclaimed(r.ptr) /\ Deallocate(r.ptr)
  /\ UNCHANGED <<pc, call>>

(* Mutated form: my_realloc returns without freeing the old block. *)
ReleaseOldForgotten(t) ==
  /\ Running
  /\ pc[t] = "release"
  /\ live' = {r \in live : r.ptr # call[t].old}
  /\ pc' = [pc EXCEPT ![t] = "idle"]
  /\ call' = [call EXCEPT ![t] = NoCall]
  /\ UNCHANGED <<heap, brk, lastFencePost, osChunkList, mutex, freelist, cur,
                 lastFreed, status>>

(* The end of my_realloc. *)
ReleaseOld(t) ==
  /\ Running
  /\ pc[t] = "release"
  /\ Deallocate(call[t].old)
  /\ pc' = [pc EXCEPT ![t] = "idle"]
  /\ call' = [call EXCEPT ![t] = NoCall]

(* A client frees again what it freed last: the stale state bits decide.   *)
DoubleFree(t) ==
  /\ Running
  /\ pc[t] = "idle" /\ mutex = NULL /\ lastFreed # NULL
  /\ status' = IF heap.state[lastFreed] = "unallocated" THEN "exited" ELSE "undetected"
  /\ UNCHANGED <<heap, brk, lastFencePost, osChunkList, mutex, pc, call,
                 freelist, cur, live, lastFreed>>

(* Another user of sbrk moves the break. *)
ForeignSbrk ==
  /\ Running
  /\ \E n \in ForeignSizes : brk + n <= HeapLimit /\ brk' = brk + n
  /\ UNCHANGED <<heap, lastFencePost, osChunkList, mutex, pc, call, freelist,
                 cur, live, lastFreed, status>>

(* One step of a call thread t is making. *)
Proceed(t) ==
  \/ SkipSmall(t) \/ TakeSplit(t) \/ TakeWhole(t) \/ OutOfMemory(t)
  \/ GrowJoined(t) \/ GrowSeparate(t) \/ Mark(t) \/ ReleaseOld(t)

Call(t) ==
  Malloc(t) \/ Calloc(t) \/ Realloc(t) \/ ReallocZero(t) \/ Free(t) \/ DoubleFree(t)

(* exit(1), a wild access: the process has stopped. *)
Stopped == ~Running /\ UNCHANGED vars

Next ==
  \/ \E t \in Threads : Call(t) \/ Proceed(t)
  \/ ForeignSbrk
  \/ Stopped

Spec == Init /\ [][Next]_vars

Fairness == \A t \in Threads : WF_vars(Proceed(t))

FairSpec == Spec /\ Fairness

-----------------------------------------------------------------------------
(***************************************************************************)
(* What the heap looks like between two calls.                             *)
(***************************************************************************)
Headers == {a \in Addr : heap.size[a] # 0}

(* Blocks chosen for a client whose state my_malloc has yet to set. *)
Handing == {call[t].at : t \in {u \in Threads : pc[u] = "mark"}}

FreeBlocks == {a \in Headers : heap.state[a] = "unallocated"} \ Handing

Listed == {a \in Addr : heap.next[a] # NULL} \ Handing

LeftFence(a) == \E i \in 1 .. Len(osChunkList) : osChunkList[i] = a

(* Where a chunk ends: no block of this chunk follows. *)
RightFence(a) == heap.state[a] = "fencepost" /\ ~LeftFence(a)

(* Everything a client has been given, marked or not. *)
HandedOut ==
  live \cup {Region(t, call[t].at, call[t].raw) : t \in {u \in Threads : pc[u] = "mark"}}

Words(r) == r.ptr .. r.ptr + r.len - 1

TypeOK ==
  /\ heap \in HeapRecord
  /\ brk \in Arena .. HeapLimit
  /\ lastFencePost \in Addr
  /\ osChunkList \in Seq(Addr)
  /\ mutex \in Threads \cup {NULL}
  /\ pc \in [Threads -> {"idle", "search", "mark", "release"}]
  /\ call \in [Threads -> [kind : {"malloc", "calloc", "realloc"},
                           raw  : 0 .. SizeMod - 1,
                           at   : Addr \cup {NULL},
                           old  : Nat \cup {NULL}]]
  /\ freelist \in Sentinels \cup {NULL}
  /\ cur \in Node \cup {NULL}
  /\ live \subseteq [by : Threads, ptr : Nat, len : Nat]
  /\ lastFreed \in Addr \cup {NULL}
  /\ status \in {"running", "exited", "crashed", "undetected"}

(***************************************************************************)
(* Boundary tags: the blocks of a chunk follow one another without a gap   *)
(* or an overlap, and each header's left_size is the size of the block     *)
(* before it, so that the code finds both neighbours of any block.         *)
(***************************************************************************)
BoundaryTags ==
  \A a \in Headers :
    /\ \A c \in Headers : c \notin a + 1 .. a + heap.size[a] - 1
    /\ RightFence(a) \/ /\ RightOf(heap, a) \in Headers
                        /\ heap.left[RightOf(heap, a)] = heap.size[a]

(***************************************************************************)
(* The free lists hold exactly the free blocks, and their links agree in   *)
(* both directions.                                                        *)
(***************************************************************************)
ListsHoldFreeBlocks ==
  /\ Listed = FreeBlocks
  /\ \A n \in Listed \cup Sentinels :
       /\ heap.next[n] \in Listed \cup Sentinels
       /\ heap.prev[n] \in Listed \cup Sentinels
       /\ heap.prev[heap.next[n]] = n
       /\ heap.next[heap.prev[n]] = n

(***************************************************************************)
(* Coalescing is complete: no two free blocks are neighbours, whatever the *)
(* order of frees, splits and chunks joined.                               *)
(***************************************************************************)
NoAdjacentFree ==
  \A a \in FreeBlocks : RightOf(heap, a) \notin FreeBlocks

(***************************************************************************)
(* The bitmap never hides a list: a list with a block has its bit set, and *)
(* a set bit of an empty list can only be one the constructor left set.    *)
(***************************************************************************)
BitmapTracksLists ==
  \A i \in ListIndex :
    IF heap.next[Sentinel(i)] # Sentinel(i) THEN i \in heap.bits
    ELSE i \in heap.bits => i \in InitialBits

(***************************************************************************)
(* No word belongs to two allocations: the promise of malloc, and what the *)
(* mutex is there for.                                                     *)
(***************************************************************************)
HandedOutDisjoint ==
  \A r, s \in HandedOut : r # s => Words(r) \cap Words(s) = {}

(***************************************************************************)
(* Every allocation has a block of its own, not free, not a fencepost and  *)
(* large enough, from before the mutex is released until it is freed.      *)
(***************************************************************************)
ClientsOwnBlocks ==
  /\ \A r \in HandedOut :
       LET b == r.ptr - HDR IN
       /\ b \in Headers \ FreeBlocks
       /\ b \in Handing \/ heap.state[b] = "allocated"
       /\ HDR + r.len <= heap.size[b]
  /\ \A r, s \in HandedOut : r.ptr = s.ptr => r = s

(***************************************************************************)
(* A client writing all it asked for, and no more, never touches a header: *)
(* neither its own nor a neighbour's, a fencepost's or a free block's.     *)
(***************************************************************************)
DataAvoidHeaders ==
  \A r \in HandedOut, a \in Headers : Words(r) \cap (a .. a + HDR - 1) = {}

(***************************************************************************)
(* Nothing leaks: every block is free, or handed out to a client that can  *)
(* free it, or a fencepost, and no fencepost is left inside a chunk: those *)
(* between two joined chunks become free memory.                           *)
(***************************************************************************)
NothingLost ==
  \A b \in Headers \ FreeBlocks :
    \/ \E r \in HandedOut : r.ptr = b + HDR
    \/ /\ heap.state[b] = "fencepost"
       /\ LeftFence(b) \/ RightOf(heap, b) \notin Headers

(* The list whose sentinel ends the walk back from a free block. *)
HomeList[n \in FreeBlocks \cup Sentinels] ==
  IF n \in Sentinels THEN IndexOf(n) ELSE HomeList[heap.prev[n]]

Misfiled(b) == HomeList[b] # WordIndex(heap.size[b])

(***************************************************************************)
(* A free block may sit in a list that is not the one of its size, because *)
(* move_coalesced tests the size where the list index changes two words    *)
(* later; but then both lists are among the last three, so that no search  *)
(* for a smaller size is affected.                                         *)
(***************************************************************************)
MisfiledOnlyAtTop ==
  \A b \in FreeBlocks :
    Misfiled(b) => HomeList[b] >= NLists - 3 /\ WordIndex(heap.size[b]) >= NLists - 3

Exhausted(t) == Searching(t) /\ cur = freelist

(***************************************************************************)
(* A search that ends without a block, and so grows the heap or returns    *)
(* NULL, has missed no free block that would have served, unless it is for *)
(* a size of the last three lists: there a misfiled block may keep the bit *)
(* of a list set that holds nothing large enough.                          *)
(***************************************************************************)
MissesOnlyAtTop ==
  \A t \in Threads, b \in FreeBlocks :
    Exhausted(t) /\ heap.size[b] >= Want(t) => WordIndex(Want(t)) >= NLists - 3

(***************************************************************************)
(* The code never goes astray: it follows no link of a block that is on no *)
(* list, and it notices a second free of the block freed last, even when   *)
(* that block's header has been merged away.                               *)
(***************************************************************************)
NeverAstray == ~heap.wild /\ status # "undetected"

(***************************************************************************)
(* The heap implements Allocator: its words are those of its blocks, its   *)
(* regions what has been handed out.                                       *)
(***************************************************************************)
Abstract == INSTANCE Allocator WITH
  owned   <- UNION {a .. a + heap.size[a] - 1 : a \in Headers},
  regions <- HandedOut

ImplementsAllocator == Abstract!Spec

(***************************************************************************)
(* Two clients.  HeapSound is what the mutex is to protect.                *)
(***************************************************************************)
HeapSound ==
  ~heap.wild /\ BoundaryTags /\ ListsHoldFreeBlocks /\ ClientsOwnBlocks

(***************************************************************************)
(* Whatever the threads do, a sound heap becomes unsound only by a step    *)
(* taken while some thread has released the mutex with its block and has   *)
(* not yet marked the block allocated.                                     *)
(***************************************************************************)
OnlyTheWindowCorrupts ==
  [][HeapSound /\ ~HeapSound' => \E t \in Threads : pc[t] = "mark"]_vars

(***************************************************************************)
(* While the heap is sound the search of the mutex holder stands on a list *)
(* node, although other threads mark their blocks without the mutex.       *)
(***************************************************************************)
SearchOnList ==
  HeapSound /\ mutex # NULL => cur \in Listed \cup Sentinels

=============================================================================
