--------------------------- MODULE EmbeddedAlloc ---------------------------
(***************************************************************************)
(* The allocators of kizzasi-core for embedded targets                     *)
(* (crates/kizzasi-core/src/embedded_alloc.rs): EmbeddedAllocator, which   *)
(* tries a FixedPool first and a BumpAllocator next, and StackAllocator.   *)
(* Each is a buffer and one atomic: threads load it, compute, and try to   *)
(* swap it.                                                                *)
(*                                                                         *)
(* A block is the bytes from..to-1 of its buffer, and the number of the    *)
(* allocation that returned it.  reset is called when its contract allows: *)
(* nothing is allocated and nobody is at work.                             *)
(***************************************************************************)
EXTENDS Integers, FiniteSets

CONSTANTS
  Threads,
  Layouts,      \* records of a size and an align
  SizeOf,       \* the sizes of the buffers "bump" and "stack"
  PoolSize, BlockSize,   \* of FixedPool, before BlockSize is aligned
  Width,        \* usize holds 0..Width-1
  MaxAllocs     \* bound: allocations between two resets

AllocAssumption ==
  /\ \A l \in Layouts : l.size \in Nat /\ l.align \in Nat \ {0}
  /\ SizeOf \in [{"bump", "stack"} -> Nat]
  /\ {PoolSize, BlockSize, Width, MaxAllocs} \subseteq Nat \ {0}
  /\ Width > PoolSize

\* aligned_block_size (EmbeddedAllocator has ALIGN = 8) and num_blocks
BlockBytes == ((BlockSize + 7) \div 8) * 8
NumBlocks == PoolSize \div BlockBytes

VARIABLES
  freeList,   \* FixedPool::free_list
  offset,     \* BumpAllocator::offset and StackAllocator::offset
  pc, layout, seen,   \* of a thread: where it is, what it allocates, what it loaded
  live,       \* the blocks allocated and not freed
  allocs,     \* allocations since the last reset (history)
  foreign     \* did dealloc get a block of the bump allocator? (history)

atThread == <<pc, layout, seen>>
vars == <<freeList, offset, atThread, live, allocs, foreign>>

NoLayout == [size |-> 0, align |-> 1]

Init ==
  /\ freeList = 0 /\ offset = [b \in {"bump", "stack"} |-> 0]
  /\ pc = [t \in Threads |-> "idle"]
  /\ layout = [t \in Threads |-> NoLayout] /\ seen = [t \in Threads |-> 0]
  /\ live = {} /\ allocs = 0 /\ foreign = FALSE

\* The call of a thread is over.
Return(t) ==
  /\ pc' = [pc EXCEPT ![t] = "idle"]
  /\ layout' = [layout EXCEPT ![t] = NoLayout] /\ seen' = [seen EXCEPT ![t] = 0]

Goto(t, l, value) ==
  /\ pc' = [pc EXCEPT ![t] = l] /\ seen' = [seen EXCEPT ![t] = value]
  /\ UNCHANGED layout

\* The block that a thread has claimed.
Allocated(kind, from, size, saved) ==
  /\ live' = live \cup {[kind |-> kind, from |-> from, to |-> from + size, saved |-> saved,
                         n |-> allocs]}
  /\ allocs' = allocs + 1

Begin(t, l) ==
  /\ pc[t] = "idle" /\ allocs < MaxAllocs
  /\ layout' = [layout EXCEPT ![t] = l]
  /\ UNCHANGED <<freeList, offset, seen, live, allocs, foreign>>

-----------------------------------------------------------------------------
\* EmbeddedAllocator::alloc: small layouts try the pool first.
Alloc(t, l) ==
  /\ Begin(t, l)
  /\ pc' = [pc EXCEPT ![t] = IF l.size <= BlockBytes THEN "pool" ELSE "bump"]

LoadFreeList(t) ==
  /\ pc[t] = "pool"
  /\ IF freeList >= NumBlocks THEN Goto(t, "bump", 0) ELSE Goto(t, "claim", freeList)
  /\ UNCHANGED <<freeList, offset, live, allocs, foreign>>

ClaimBlock(t) ==
  /\ pc[t] = "claim" /\ allocs < MaxAllocs
  /\ IF freeList = seen[t]
     THEN /\ freeList' = freeList + 1
          /\ Allocated("pool", seen[t] * BlockBytes, BlockBytes, 0)
          /\ Return(t)
     ELSE Goto(t, "pool", 0) /\ UNCHANGED <<freeList, live, allocs>>
  /\ UNCHANGED <<offset, foreign>>

\* BumpAllocator::alloc and StackAllocator::push
AlignUp(value, align) == ((value + align - 1) \div align) * align
NewOffset(t, value) == AlignUp(value, layout[t].align) + layout[t].size

Swap(b) == IF b = "bump" THEN "bumpSwap" ELSE "stackSwap"

LoadOffset(t, b) ==
  /\ pc[t] = b
  /\ IF NewOffset(t, offset[b]) > SizeOf[b] THEN Return(t) ELSE Goto(t, Swap(b), offset[b])
  /\ UNCHANGED <<freeList, offset, live, allocs, foreign>>

\* Mutant of SwapOffset: stored whatever the offset is by now.
SwapOffsetBlind(t, b) ==
  /\ pc[t] = Swap(b) /\ allocs < MaxAllocs
  /\ offset' = [offset EXCEPT ![b] = NewOffset(t, seen[t])]
  /\ Allocated(b, AlignUp(seen[t], layout[t].align), layout[t].size, seen[t])
  /\ Return(t)
  /\ UNCHANGED <<freeList, foreign>>

SwapOffset(t, b) ==
  /\ pc[t] = Swap(b) /\ allocs < MaxAllocs
  /\ IF offset[b] = seen[t]
     THEN /\ offset' = [offset EXCEPT ![b] = NewOffset(t, seen[t])]
          /\ Allocated(b, AlignUp(seen[t], layout[t].align), layout[t].size, seen[t])
          /\ Return(t)
     ELSE Goto(t, b, 0) /\ UNCHANGED <<offset, live, allocs>>
  /\ UNCHANGED <<freeList, foreign>>

Push(t, l) == Begin(t, l) /\ pc' = [pc EXCEPT ![t] = "stack"]

\* StackAllocator::pop, of the newest block: its contract asks for LIFO order.
Pop(t) ==
  /\ pc[t] = "idle"
  /\ \E b \in live :
       /\ b.kind = "stack" /\ \A a \in live : a.kind = "stack" => a.n <= b.n
       /\ offset' = [offset EXCEPT !["stack"] = b.saved]
       /\ live' = live \ {b}
  /\ UNCHANGED <<freeList, atThread, allocs, foreign>>

-----------------------------------------------------------------------------
\* EmbeddedAllocator::dealloc gives any block to FixedPool::dealloc, whose contract is
\* that it was allocated and not freed; which block it is does not matter there.
Dealloc(t, b) ==
  /\ pc[t] = "idle" /\ b.kind \in {"pool", "bump"}
  /\ live' = live \ {b}
  /\ foreign' = (foreign \/ b.kind = "bump")
  /\ pc' = [pc EXCEPT ![t] = "free"]
  /\ UNCHANGED <<freeList, offset, layout, seen, allocs>>

LoadUsed(t) ==
  /\ pc[t] = "free"
  /\ pc' = [pc EXCEPT ![t] = IF freeList > 0 THEN "sub" ELSE "idle"]
  /\ UNCHANGED <<freeList, offset, layout, seen, live, allocs, foreign>>

\* fetch_sub wraps.
SubUsed(t) ==
  /\ pc[t] = "sub"
  /\ freeList' = (freeList - 1) % Width
  /\ pc' = [pc EXCEPT ![t] = "idle"]
  /\ UNCHANGED <<offset, layout, seen, live, allocs, foreign>>

Reset ==
  /\ live = {} /\ \A t \in Threads : pc[t] = "idle"
  /\ freeList' = 0 /\ offset' = [offset EXCEPT !["bump"] = 0]
  /\ allocs' = 0 /\ foreign' = FALSE
  /\ UNCHANGED <<atThread, live>>

Next ==
  \/ \E t \in Threads :
       \/ \E l \in Layouts : Alloc(t, l) \/ Push(t, l)
       \/ LoadFreeList(t) \/ ClaimBlock(t)
       \/ \E b \in {"bump", "stack"} : LoadOffset(t, b) \/ SwapOffset(t, b)
       \/ Pop(t) \/ LoadUsed(t) \/ SubUsed(t)
       \/ \E b \in live : Dealloc(t, b)
  \/ Reset

Spec == Init /\ [][Next]_vars

-----------------------------------------------------------------------------
(* Properties *)

Pcs == {"idle", "pool", "claim", "bump", "bumpSwap", "stack", "stackSwap", "free", "sub"}

\* Every variable keeps its type.
TypeOK ==
  /\ freeList \in 0..Width - 1
  /\ \A b \in {"bump", "stack"} : offset[b] \in 0..SizeOf[b]
  /\ pc \in [Threads -> Pcs] /\ layout \in [Threads -> Layouts \cup {NoLayout}]
  /\ allocs \in 0..MaxAllocs /\ foreign \in BOOLEAN

Overlap(a, b) == a # b /\ a.kind = b.kind /\ a.from < b.to /\ b.from < a.to

\* Blocks of the bump allocator and of the stack are inside the buffer and disjoint,
\* whoever allocates and pops between the load of an offset and its swap.
OffsetsDisjoint ==
  \A a \in live :
    a.kind # "pool" =>
      /\ a.to <= offset[a.kind] /\ offset[a.kind] <= SizeOf[a.kind]
      /\ \A b \in live : ~Overlap(a, b)

\* available() is exact: the counter of the pool is the number of blocks that are out or
\* on their way back, until dealloc is given a block of the bump allocator.
PoolCounted ==
  foreign \/ freeList = Cardinality({b \in live : b.kind = "pool"})
                          + Cardinality({t \in Threads : pc[t] \in {"free", "sub"}})

\* Types, buffers and counter together.
AllocInv == TypeOK /\ OffsetsDisjoint /\ PoolCounted

\* "Provides O(1) allocation and deallocation from a pre-allocated buffer": blocks of the
\* pool that are allocated at the same time are different ones.
PoolDisjoint == \A a, b \in live : a.kind = "pool" => ~Overlap(a, b)
=============================================================================
