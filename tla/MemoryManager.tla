---------------------------- MODULE MemoryManager ----------------------------
(***************************************************************************)
(* BBP::MemoryManager: memory is carved out of pools; a list threads the   *)
(* free blocks, the best fitting one is split, and a freed one is merged   *)
(* with its free neighbours.                                               *)
(*                                                                         *)
(* Every operation holds mutex_ from beginning to end, so it is one step.  *)
(* A block is known by the address of its header; the application gives    *)
(* back only what it was given.  What it may have done to the headers that *)
(* an overrun area covers is not modelled.                                 *)
(***************************************************************************)
EXTENDS Integers, Sequences, FiniteSets, FiniteSetsExt, SequencesExt

CONSTANTS
  Header,        \* sizeof(BlockHeader)
  Slack,         \* what a block must exceed a request by to be split
  Sizes,         \* the sizes asked for
  Alignments,    \* the alignments asked for
  MemoryConfigs, \* the configurations in use
  Limits,        \* the memory limits in use
  Stride,        \* bound: distance of two pools
  MaxUsed        \* bound: bytes counted as used between two resets

Config == [initial_pool_size : Nat, max_pool_size : Nat, growth_factor : Nat,
           enable_defragmentation : BOOLEAN]

\* What is assumed of the constants: new char[] aligns a pool for every
\* alignment, and leaves a gap to the next.
ASSUME MemoryManagerAssumption ==
  /\ Header \in Nat \ {0} /\ Slack \in Nat
  /\ Sizes \subseteq Nat \ {0} /\ Alignments \subseteq Nat \ {0}
  /\ MemoryConfigs \subseteq Config /\ Limits \subseteq Nat
  /\ Stride \in Nat /\ \A a \in Alignments : Stride % a = 0
  /\ MaxUsed \in Nat

VARIABLES
  settings,     \* config_
  initialized,  \* initialized_
  pools,        \* the sizes of pools_
  heap,         \* the headers, by address, and the free list
  tracked,      \* allocated_blocks_: pointers and the headers they belong to
  tracking,     \* detailed_tracking_
  limit,        \* memory_limit_
  used,         \* stats_.current_used_bytes
  stuck,        \* a thread waits for the mutex_ it holds
  users,        \* observer: the areas the application holds
  overrun       \* observer: a block was split without room for the padding

memoryVars == <<settings, initialized, pools, heap, tracked, tracking, limit, used, stuck,
                users, overrun>>

EmptyHeap == [block |-> <<>>, free |-> <<>>]

-----------------------------------------------------------------------------
(* Addresses and blocks.                                                   *)

Blocks(h) == DOMAIN h.block
FreeBlocks(h) == {b \in Blocks(h) : h.block[b].is_free}
End(h, b) == b + Header + h.block[b].size

Sized(h, b, size) == [h EXCEPT !.block[b].size = size]

\* A new header, of a free block, at the head of the list.
Listed(h, b, size) ==
  [block |-> [a \in Blocks(h) \cup {b} |->
                IF a = b THEN [size |-> size, is_free |-> TRUE] ELSE h.block[a]],
   free |-> <<b>> \o h.free]

\* What the user pointer of a block is moved by.
Padding(b, alignment) ==
  LET misalignment == (b + Header) % alignment IN
  IF misalignment = 0 THEN 0 ELSE alignment - misalignment

-----------------------------------------------------------------------------
(* expand_pool, find_best_fit_block, split_block, merge_free_blocks.       *)

Geometric(n) == settings.initial_pool_size * settings.growth_factor ^ n

\* The maximum is compared with the sizes the pools would have had.
CanExpand == MapThenSumSet(Geometric, 0 .. Len(pools)) <= settings.max_pool_size

NewPool(required) ==
  LET next == Geometric(Len(pools)) IN IF next > required THEN next ELSE required

\* Bound: a pool has room for its first header, and ends before the next begins.
AddsPool(pool) ==
  /\ pool \in Header .. Stride - 1
  /\ pools' = Append(pools, pool)

Expanded(h, size) == Listed(h, Len(pools) * Stride, size - Header)

\* Fault: the padding is forgotten.
FitsUnpadded(h, size, alignment) ==
  {i \in DOMAIN h.free : h.block[h.free[i]].size >= size}

Fits(h, size, alignment) ==
  {i \in DOMAIN h.free :
     h.block[h.free[i]].size >= size + Padding(h.free[i], alignment)}

\* The smallest block that fits, the first in the list of several.
BestFit(h, size, alignment) ==
  CHOOSE i \in Fits(h, size, alignment) :
    \A j \in Fits(h, size, alignment) :
      LET mine == h.block[h.free[i]].size
          its == h.block[h.free[j]].size
      IN  mine < its \/ (mine = its /\ i <= j)

Splits(h, b, size) == h.block[b].size > size + Header + Slack

\* Fault: the header of the rest is forgotten.
SplitShort(h, b, size) ==
  IF Splits(h, b, size)
  THEN Sized(Listed(h, b + Header + size, h.block[b].size - size), b, size)
  ELSE h

Split(h, b, size) ==
  IF Splits(h, b, size)
  THEN Sized(Listed(h, b + Header + size, h.block[b].size - size - Header), b, size)
  ELSE h

\* The free blocks no free block ends at, and where the run of free blocks that
\* begins with one of them ends.
Kept(h) == {b \in FreeBlocks(h) : ~ \E c \in FreeBlocks(h) : End(h, c) = b}

RunEnd(h, b) ==
  Min({End(h, c) : c \in {d \in FreeBlocks(h) : d >= b /\ End(h, d) \notin FreeBlocks(h)}})

Grown(h, b) ==
  IF b \in Kept(h) THEN [h.block[b] EXCEPT !.size = RunEnd(h, b) - b - Header] ELSE h.block[b]

\* Fault: the list is not rebuilt, and keeps the blocks that were absorbed.
MergedListed(h) ==
  IF Cardinality(FreeBlocks(h)) < 2 THEN h
  ELSE [h EXCEPT !.block = [b \in Blocks(h) |-> Grown(h, b)]]

\* The blocks of S in decreasing order of address.
Descending(S) ==
  [i \in 1 .. Cardinality(S) |-> CHOOSE b \in S : Cardinality({c \in S : c >= b}) = i]

\* Runs of adjacent free blocks become one block each, the list is rebuilt.
Merged(h) ==
  IF Cardinality(FreeBlocks(h)) < 2 THEN h
  ELSE [block |-> [b \in (Blocks(h) \ FreeBlocks(h)) \cup Kept(h) |-> Grown(h, b)],
        free |-> Descending(Kept(h))]

-----------------------------------------------------------------------------
(* The operations.                                                         *)

Configure(f) ==
  /\ ~stuck /\ ~initialized
  /\ settings' = f
  /\ UNCHANGED <<initialized, pools, heap, tracked, tracking, limit, used, stuck, users,
                 overrun>>

\* If the first pool cannot be made, the flag is taken back.
Initialize ==
  /\ ~stuck /\ ~initialized /\ CanExpand
  /\ initialized' = TRUE
  /\ heap' = Expanded(heap, NewPool(settings.initial_pool_size))
  /\ AddsPool(NewPool(settings.initial_pool_size))
  /\ UNCHANGED <<settings, tracked, tracking, limit, used, stuck, users, overrun>>

\* allocate calls initialize, which locks the mutex_ that allocate holds.
AllocateFirst ==
  /\ ~stuck /\ ~initialized
  /\ stuck' = TRUE
  /\ UNCHANGED <<settings, initialized, pools, heap, tracked, tracking, limit, used, users,
                 overrun>>

\* A block of h, which has one that fits, is unlinked, split and handed out.
Places(h, size, alignment) ==
  LET i == BestFit(h, size, alignment)
      b == h.free[i]
      pad == Padding(b, alignment)
      ptr == b + Header + pad
      split == Split([h EXCEPT !.free = RemoveAt(@, i)], b, size)
  IN  /\ heap' = [split EXCEPT !.block[b].is_free = FALSE]
      /\ tracked' = IF tracking
                    THEN {t \in tracked : t.ptr # ptr} \cup {[ptr |-> ptr, block |-> b]}
                    ELSE tracked
      /\ users' = users \cup {[ptr |-> ptr, block |-> b, size |-> size]}
      /\ overrun' = (overrun \/ (pad > 0 /\ Splits(h, b, size)))

\* A request that fails is counted as used, too.
Counts(size) ==
  /\ ~stuck /\ initialized /\ used + size <= MaxUsed
  /\ used' = used + size
  /\ UNCHANGED <<settings, initialized, tracking, limit, stuck>>

WithinLimit(size) == used + size + Header <= limit

AllocateFits(size, alignment) ==
  /\ Counts(size)
  /\ WithinLimit(size) /\ Fits(heap, size, alignment) # {}
  /\ Places(heap, size, alignment)
  /\ pools' = pools

AllocateExpands(size, alignment) ==
  LET pool == NewPool(size + Header + alignment)
      h == Expanded(heap, pool)
  IN  /\ Counts(size)
      /\ WithinLimit(size) /\ Fits(heap, size, alignment) = {} /\ CanExpand
      /\ AddsPool(pool)
      /\ Places(h, size, alignment)

AllocateFails(size, alignment) ==
  /\ Counts(size)
  /\ WithinLimit(size) => Fits(heap, size, alignment) = {} /\ ~CanExpand
  /\ UNCHANGED <<pools, heap, tracked, users, overrun>>

\* The header is looked up, or taken to be right before the pointer; what is
\* there otherwise is the user's data, or padding, and not a valid header.
HeaderOf(ptr) ==
  IF tracking THEN {t.block : t \in {t \in tracked : t.ptr = ptr}}
  ELSE {ptr - Header} \cap {u.block : u \in {u \in users : u.ptr = ptr}}

Released(h, b) ==
  LET freed == [block |-> [h.block EXCEPT ![b].is_free = TRUE], free |-> <<b>> \o h.free]
  IN  IF settings.enable_defragmentation THEN Merged(freed) ELSE freed

Deallocate(u) ==
  /\ ~stuck
  /\ users' = users \ {u}
  /\ IF \E b \in HeaderOf(u.ptr) : b \in Blocks(heap) \ FreeBlocks(heap)
     THEN /\ heap' = Released(heap, CHOOSE b \in HeaderOf(u.ptr) : TRUE)
          /\ tracked' = IF tracking THEN {t \in tracked : t.ptr # u.ptr} ELSE tracked
     ELSE UNCHANGED <<heap, tracked>>
  /\ UNCHANGED <<settings, initialized, pools, tracking, limit, used, stuck, overrun>>

\* defragment, and optimize when it finds too many free blocks.
Defragment ==
  /\ ~stuck
  /\ heap' = Merged(heap)
  /\ UNCHANGED <<settings, initialized, pools, tracked, tracking, limit, used, stuck, users,
                 overrun>>

SetMemoryLimit(n) ==
  /\ ~stuck
  /\ limit' = n
  /\ UNCHANGED <<settings, initialized, pools, heap, tracked, tracking, used, stuck, users,
                 overrun>>

SetDetailedTracking(on) ==
  /\ ~stuck
  /\ tracking' = on
  /\ UNCHANGED <<settings, initialized, pools, heap, tracked, limit, used, stuck, users, overrun>>

\* checkIntegrity: the headers tracked are still headers, and the list is one
\* of free blocks.
CheckIntegrity ==
  {t.block : t \in tracked} \subseteq Blocks(heap) /\ ToSet(heap.free) \subseteq FreeBlocks(heap)

\* What the application still holds is gone with the pools.
ResetManager ==
  /\ ~stuck
  /\ initialized' = FALSE
  /\ pools' = <<>> /\ heap' = EmptyHeap /\ tracked' = {} /\ used' = 0
  /\ users' = {} /\ overrun' = FALSE
  /\ UNCHANGED <<settings, tracking, limit, stuck>>

-----------------------------------------------------------------------------
MemoryInit ==
  /\ settings \in MemoryConfigs
  /\ initialized = FALSE
  /\ pools = <<>> /\ heap = EmptyHeap /\ tracked = {} /\ tracking = TRUE
  /\ limit \in Limits
  /\ used = 0 /\ stuck = FALSE
  /\ users = {} /\ overrun = FALSE

MemoryNext ==
  \/ \E f \in MemoryConfigs : Configure(f)
  \/ Initialize \/ AllocateFirst
  \/ \E size \in Sizes, alignment \in Alignments :
       \/ AllocateFits(size, alignment) \/ AllocateExpands(size, alignment)
       \/ AllocateFails(size, alignment)
  \/ \E u \in users : Deallocate(u)
  \/ Defragment \/ ResetManager
  \/ \E n \in Limits : SetMemoryLimit(n)
  \/ \E on \in BOOLEAN : SetDetailedTracking(on)

MemorySpec == MemoryInit /\ [][MemoryNext]_memoryVars
-----------------------------------------------------------------------------
(* Properties.                                                             *)

Base(i) == (i - 1) * Stride
PoolEnd(i) == Base(i) + pools[i]

\* Every variable has its type.
MemoryTypeOK ==
  /\ settings \in MemoryConfigs /\ limit \in Limits /\ used \in 0 .. MaxUsed
  /\ initialized \in BOOLEAN /\ tracking \in BOOLEAN /\ stuck \in BOOLEAN /\ overrun \in BOOLEAN
  /\ pools \in Seq(1 .. Stride - 1)
  /\ \A b \in Blocks(heap) : b \in Nat /\ heap.block[b].size \in Nat
  /\ heap.free \in Seq(Blocks(heap))
  /\ \A u \in users : u.ptr \in Nat /\ u.size \in Sizes

\* After any sequence of splits, merges and expansions, the blocks fill every
\* pool from end to end: no two overlap, and none but the last of a pool ends
\* where no other begins.
BlocksTile ==
  /\ \A b, c \in Blocks(heap) : b < c => End(heap, b) <= c
  /\ {End(heap, b) : b \in Blocks(heap)} \cup {Base(i) : i \in DOMAIN pools}
       = Blocks(heap) \cup {PoolEnd(i) : i \in DOMAIN pools}

\* As long as no block was split without room for the padding, what the
\* application holds lies inside allocated blocks, a block for each area: no
\* two areas overlap and none covers a header, however they were aligned and
\* whether or not the blocks were tracked when allocated and freed.
AreasInBlocks ==
  ~overrun =>
    \A u \in users :
      /\ u.block \in Blocks(heap) \ FreeBlocks(heap)
      /\ u.block + Header <= u.ptr /\ u.ptr + u.size <= End(heap, u.block)
      /\ \A v \in users : v.block = u.block => v = u

\* The pools are full of blocks and the areas are in the blocks: nothing that
\* is handed out, split or merged overlaps anything else.
NothingOverlaps == BlocksTile /\ AreasInBlocks

\* The types are kept, the free list has every free block once and no other,
\* and, unless defragmentation is switched off, no two free blocks are next to
\* one another.
FreeListExact ==
  /\ MemoryTypeOK
  /\ IsInjective(heap.free) /\ ToSet(heap.free) = FreeBlocks(heap)
  /\ settings.enable_defragmentation =>
       \A b \in FreeBlocks(heap) : End(heap, b) \notin FreeBlocks(heap)

(***************************************************************************)
(* Promises of the comments and the tests that the code does not keep.     *)
(***************************************************************************)

\* "Calculate properly aligned user pointer": an aligned area is as long as
\* asked for.
PaddingHasRoom == ~overrun

\* allocate initializes the manager if need be.
FirstAllocateReturns == ~stuck

\* "Maximum pool size".
PoolsWithinMaximum == FoldSeq(LAMBDA a, b : a + b, 0, pools) <= settings.max_pool_size

\* "Currently used bytes".
UsedIsHeld == used = MapThenSumSet(LAMBDA u : u.size, users)

\* What the application gives back is free again.
FreedIsFree ==
  \A b \in Blocks(heap) \ FreeBlocks(heap) : \E u \in users : u.block = b

\* checkIntegrity has nothing to report.
IntegrityHolds == CheckIntegrity
=============================================================================
