------------------------------- MODULE Memory -------------------------------
(***************************************************************************)
(* The handle-based heap of the kernel (src/src/memory.c).                 *)
(*                                                                         *)
(* The heap is a bump allocator: blocks lie one after the other from the   *)
(* bottom of `heap' to free_space_ptr.  A client owns a handle, an index   *)
(* into `handles', and the table says where the block of that handle is    *)
(* now.  Releasing a block only marks it dirty; a garbage collector thread *)
(* slides the clean blocks down over the dirty ones and rewrites the       *)
(* table.                                                                  *)
(*                                                                         *)
(* A pointer into the heap is the position of a block in the sequence      *)
(* heap, and 0 is the null pointer; the byte sizes of the blocks appear    *)
(* only in the counters of mem_rt_data.  The value a client keeps in its   *)
(* block is one member of Contents.                                        *)
(***************************************************************************)
EXTENDS Integers, Sequences, FiniteSets

CONSTANTS
    MaxHandles,       \* MAX_MEM_HANDLES
    HeapSize,         \* MEM_HEAP_SIZE
    Overhead,         \* sizeof(mem_block_header_t) + 1 byte of canary
    DefragThreshold,  \* MEM_DEFRAG_THRESHOLD
    Sizes,            \* the block sizes that clients ask for
    Contents          \* what clients write into their blocks

ASSUME MemoryAssumption ==
    /\ MaxHandles \in Nat \ {0}
    /\ HeapSize \in Nat
    /\ Overhead \in Nat \ {0}
    /\ DefragThreshold \in Nat \ {0}
    /\ Sizes \subseteq Nat
    /\ Contents # {}

VARIABLES
    heap,         \* the blocks between heap[] and free_space_ptr, in address order
    handles,      \* handles[]: null, or the position of the handle's block
    freeSpace,    \* mem_rt_data.free_space
    usedSpace,    \* mem_rt_data.used_space
    dirtySpace,   \* mem_rt_data.dirty_space
    dataSpace,    \* mem_rt_data.data_space
    handlesUsed,  \* mem_rt_data.handles_used
    peakUsage,    \* mem_rt_data.peak_usage
    memFull,      \* SYS_WARN_MEM_FULL has been raised
    gc,           \* the collector: where it is and its dirty and clean pointers
    written       \* history: what the owner of each handle last wrote

counters == <<freeSpace, usedSpace, dirtySpace, dataSpace, handlesUsed, peakUsage>>
memVars == <<heap, handles, counters, memFull, gc, written>>

Handles == 0 .. MaxHandles - 1
Null == 0
Block == [size : Sizes, handle : Handles, dirty : BOOLEAN, data : Contents]
GcState == {"waiting", "searching", "moving"}

\* MEM_BLOCK_SIZE: the bytes a block occupies.
BlockSize(b) == b.size + Overhead

Allocated == {h \in Handles : handles[h] # Null}

MemTypeOK ==
    /\ heap \in Seq(Block)
    /\ handles \in [Handles -> Nat]
    /\ freeSpace \in Nat /\ dirtySpace \in Nat
    /\ usedSpace \in Int /\ dataSpace \in Int /\ handlesUsed \in Int /\ peakUsage \in Int
    /\ memFull \in BOOLEAN
    /\ gc \in [at : GcState, dirty : Nat, clean : Nat]
    /\ written \in [Handles -> Contents]

MemInit ==
    /\ heap = <<>>
    /\ handles = [h \in Handles |-> Null]
    /\ freeSpace = HeapSize
    /\ usedSpace = 0 /\ dirtySpace = 0 /\ dataSpace = 0
    /\ handlesUsed = 0 /\ peakUsage = 0
    /\ memFull = FALSE
    /\ gc = [at |-> "waiting", dirty |-> 1, clean |-> 1]
    /\ written \in [Handles -> Contents]

-----------------------------------------------------------------------------
(* mem2_h_alloc *)

\* Mutant: the header and the canary are not counted.
HasRoom_NoOverhead(size) == size <= HeapSize /\ freeSpace >= size
HasRoom(size) == size <= HeapSize /\ freeSpace >= size + Overhead

\* The block a client is given holds whatever the memory held before: data is
\* any value, and the client has not written anything else to compare it with.
Alloc(size, h, junk) ==
    /\ gc.at = "waiting"
    /\ HasRoom(size)
    /\ handles[h] = Null
    /\ \A g \in Handles : g < h => handles[g] # Null
    /\ heap' = Append(heap, [size |-> size, handle |-> h, dirty |-> FALSE, data |-> junk])
    /\ handles' = [handles EXCEPT ![h] = Len(heap) + 1]
    /\ handlesUsed' = handlesUsed + 1
    /\ dataSpace' = dataSpace + size
    /\ freeSpace' = freeSpace - (size + Overhead)
    /\ usedSpace' = usedSpace + (size + Overhead)
    /\ peakUsage' = IF peakUsage < usedSpace' THEN usedSpace' ELSE peakUsage
    /\ written' = [written EXCEPT ![h] = junk]
    /\ UNCHANGED <<dirtySpace, memFull, gc>>

AllocFails(size) ==
    /\ gc.at = "waiting"
    /\ ~HasRoom(size) \/ Allocated = Handles
    /\ memFull' = TRUE
    /\ UNCHANGED <<heap, handles, counters, gc, written>>

-----------------------------------------------------------------------------
(* Clients.  They only run while the collector waits: threads are          *)
(* cooperative and the collector does not yield inside a collection.       *)

\* A client writes through the pointer that mem2_vp_get_ptr returns for its
\* handle now; verify_handle has checked that the block is there and clean.
Write(h, d) ==
    /\ gc.at = "waiting"
    /\ handles[h] # Null
    /\ heap' = [heap EXCEPT ![handles[h]].data = d]
    /\ written' = [written EXCEPT ![h] = d]
    /\ UNCHANGED <<handles, counters, memFull, gc>>

\* Mutant: the handle of a released block stays in the table.
ClearedHandle_Kept(h) == handles
\* release_block: clear the handle.
ClearedHandle(h) == [handles EXCEPT ![h] = Null]

\* Mutant: the block is not marked, so that the collector never reclaims it.
MarkedDirty_Forgotten(b) == b
\* set_dirty
MarkedDirty(b) == [b EXCEPT !.dirty = TRUE]

\* mem2_v_free and release_block
Free(h) ==
    /\ gc.at = "waiting"
    /\ handles[h] # Null
    /\ LET b == heap[handles[h]] IN
       /\ heap' = [heap EXCEPT ![handles[h]] = MarkedDirty(b)]
       /\ handles' = ClearedHandle(h)
       /\ handlesUsed' = handlesUsed - 1
       /\ dataSpace' = dataSpace - b.size
       /\ dirtySpace' = dirtySpace + BlockSize(b)
       /\ usedSpace' = usedSpace - BlockSize(b)
    /\ UNCHANGED <<freeSpace, peakUsage, memFull, gc, written>>

-----------------------------------------------------------------------------
(* mem2_garbage_collector_thread, one action per turn of its loops *)

\* Mutant: the collector waits until the threshold is exceeded.
GcDue_Above == dirtySpace > DefragThreshold
GcDue == dirtySpace >= DefragThreshold

GcStart ==
    /\ gc.at = "waiting"
    /\ GcDue
    /\ gc' = [at |-> "searching", dirty |-> 1, clean |-> 1]
    /\ UNCHANGED <<heap, handles, counters, memFull, written>>

\* Search for a dirty block; then the clean pointer leads the dirty pointer.
GcSearch ==
    /\ gc.at = "searching"
    /\ IF gc.dirty <= Len(heap) /\ ~heap[gc.dirty].dirty
       THEN gc' = [gc EXCEPT !.dirty = @ + 1]
       ELSE gc' = [gc EXCEPT !.at = "moving", !.clean = gc.dirty]
    /\ UNCHANGED <<heap, handles, counters, memFull, written>>

GcSkipDirty ==
    /\ gc.at = "moving"
    /\ gc.clean <= Len(heap)
    /\ heap[gc.clean].dirty
    /\ gc' = [gc EXCEPT !.clean = @ + 1]
    /\ UNCHANGED <<heap, handles, counters, memFull, written>>

\* Mutant: the table keeps pointing at the place the block was moved from.
Retargeted_Stale(h, to) == handles
\* Switch the handle from the old block to the new block.
Retargeted(h, to) == [handles EXCEPT ![h] = to]

GcMove ==
    /\ gc.at = "moving"
    /\ gc.clean <= Len(heap)
    /\ ~heap[gc.clean].dirty
    /\ handles' = Retargeted(heap[gc.clean].handle, gc.dirty)
    /\ heap' = [heap EXCEPT ![gc.dirty] = heap[gc.clean]]
    /\ gc' = [gc EXCEPT !.clean = @ + 1, !.dirty = @ + 1]
    /\ UNCHANGED <<counters, memFull, written>>

\* Mutant: the collector forgets to reset the dirty space counter.
DirtyAfterGc_Kept == dirtySpace
DirtyAfterGc == 0

GcDone ==
    /\ gc.at = "moving"
    /\ gc.clean > Len(heap)
    /\ heap' = SubSeq(heap, 1, gc.dirty - 1)
    /\ freeSpace' = freeSpace + dirtySpace
    /\ dirtySpace' = DirtyAfterGc
    /\ gc' = [gc EXCEPT !.at = "waiting"]
    /\ UNCHANGED <<handles, usedSpace, dataSpace, handlesUsed, peakUsage, memFull, written>>

Gc == GcStart \/ GcSearch \/ GcSkipDirty \/ GcMove \/ GcDone

MemNext ==
    \/ \E size \in Sizes, h \in Handles, junk \in Contents : Alloc(size, h, junk)
    \/ \E size \in Sizes : AllocFails(size)
    \/ \E h \in Handles, d \in Contents : Write(h, d)
    \/ \E h \in Handles : Free(h)
    \/ Gc

MemSpec == MemInit /\ [][MemNext]_memVars

\* The scheduler runs the collector thread on every pass of its loop.
GcFair == WF_memVars(Gc)

-----------------------------------------------------------------------------
(* Properties *)

\* At every moment, the middle of a collection included, the pointer the table
\* holds for a handle leads to a live block of that handle, with the contents
\* its owner last wrote (the contract of mem2_vp_get_ptr, memory.c 449-480).
HandleTableSound ==
    \A h \in Handles : handles[h] # Null =>
        /\ handles[h] \in 1 .. Len(heap)
        /\ heap[handles[h]].handle = h
        /\ ~heap[handles[h]].dirty
        /\ heap[handles[h]].data = written[h]

\* Between collections every clean block is the block of some handle: releasing
\* and collecting leave no block that nobody owns and nobody reclaims.
NoLeakedBlock ==
    gc.at = "waiting" =>
        \A i \in 1 .. Len(heap) : ~heap[i].dirty => handles[heap[i].handle] = i

\* The three counters partition the heap (mem_rt_data), however allocations,
\* releases and collections follow each other; mem2_h_alloc relies on it to
\* never write past the end of the heap.
SpacePartitioned == freeSpace + usedSpace + dirtySpace = HeapSize

\* The heap as its users see it, at every step of a collection.
HeapSound == MemTypeOK /\ HandleTableSound /\ NoLeakedBlock /\ SpacePartitioned

\* The sum of the first n members of w, for every n.
Sums(w) == LET sum[n \in Nat] == IF n = 0 THEN 0 ELSE sum[n - 1] + w[n] IN sum

\* The bytes of the blocks at the positions S.
Weights(blocks, S) == [i \in Nat |-> IF i \in S THEN BlockSize(blocks[i]) ELSE 0]
BytesOf(blocks, S) == Sums(Weights(blocks, S))[Len(blocks)]

Dirty == {i \in 1 .. Len(heap) : heap[i].dirty}
Clean == {i \in 1 .. Len(heap) : ~heap[i].dirty}

\* The counters agree with the blocks that are really in the heap.
CountersAgree ==
    gc.at = "waiting" =>
        /\ usedSpace = BytesOf(heap, Clean)
        /\ dirtySpace = BytesOf(heap, Dirty)
        /\ handlesUsed = Cardinality(Allocated)

\* Dirty space above the threshold is always given back (memory.c 544-624).
DirtySpaceReclaimed == dirtySpace >= DefragThreshold ~> dirtySpace < DefragThreshold

\* The conjunct that makes the invariants above inductive.  While a collection
\* moves blocks, the positions between its two pointers belong to nobody, and
\* every other clean block is the one its handle leads to.
GcInv ==
    /\ gc.at # "waiting" => gc.dirty \in 1 .. Len(heap) + 1 /\ gc.clean \in 1 .. Len(heap) + 1
    /\ gc.at = "moving" => gc.dirty <= gc.clean
    /\ \A i \in 1 .. Len(heap) :
          ~heap[i].dirty /\ (gc.at = "moving" => i < gc.dirty \/ i >= gc.clean)
              => handles[heap[i].handle] = i
    /\ gc.at = "moving" =>
          \A h \in Handles : handles[h] # Null =>
              handles[h] < gc.dirty \/ handles[h] >= gc.clean

MemInv == MemTypeOK /\ HandleTableSound /\ GcInv

\* What the counters say while a collection goes on: a block that has been moved is counted
\* at its new place only, and no dirty block is left below the dirty pointer.
Owned == {i \in Clean : gc.at = "moving" => i < gc.dirty \/ i >= gc.clean}
CountInv ==
    /\ usedSpace = BytesOf(heap, Owned)
    /\ gc.at # "moving" => dirtySpace = BytesOf(heap, Dirty)
    /\ gc.at # "waiting" => \A i \in 1 .. gc.dirty - 1 : ~heap[i].dirty
    /\ handlesUsed = Cardinality(Allocated)
=============================================================================
