---------------------------- MODULE MemoryProofs ----------------------------
(***************************************************************************)
(* The handle table of the kernel heap is sound in every state, whatever   *)
(* the number of handles, the size of the heap, the requested sizes and    *)
(* the collection threshold.                                               *)
(*                                                                         *)
(* HandleTableSound is not inductive: a collection overwrites positions of *)
(* the heap, and it must be known that nobody's block is there.  MemInv    *)
(* adds GcInv, which says where the collector's two pointers are and that  *)
(* the positions between them belong to nobody.                            *)
(***************************************************************************)
EXTENDS Memory, SequenceTheorems, FiniteSetTheorems, WellFoundedInduction, TLAPS

USE DEF Null

\* The initial state satisfies the invariant: there are no blocks.
LEMMA InitInv == ASSUME MemInit PROVE MemInv
<1> USE MemoryAssumption DEF MemInit
<1>1. MemTypeOK
  <2>1. heap \in Seq(Block)
    BY EmptySeq
  <2>2. handles \in [Handles -> Nat] /\ written \in [Handles -> Contents]
    OBVIOUS
  <2>3. gc \in [at : GcState, dirty : Nat, clean : Nat]
    BY DEF GcState
  <2>4. memFull \in BOOLEAN
    OBVIOUS
  <2>5. freeSpace \in Nat /\ dirtySpace \in Nat
    OBVIOUS
  <2>6. usedSpace \in Int /\ dataSpace \in Int /\ handlesUsed \in Int /\ peakUsage \in Int
    OBVIOUS
  <2> QED
    BY <2>1, <2>2, <2>3, <2>4, <2>5, <2>6 DEF MemTypeOK
<1>2. HandleTableSound
  BY DEF HandleTableSound
<1>3. GcInv
  BY DEF GcInv
<1> QED
  BY <1>1, <1>2, <1>3 DEF MemInv

\* mem2_h_alloc: the new block is the last one and its handle was free.
LEMMA AllocInv ==
  ASSUME MemInv, NEW size \in Sizes, NEW h \in Handles, NEW junk \in Contents,
         Alloc(size, h, junk)
  PROVE  MemInv'
<1> DEFINE b == [size |-> size, handle |-> h, dirty |-> FALSE, data |-> junk]
           n == Len(heap)
<1> USE MemoryAssumption
<1>0. /\ b \in Block /\ n \in Nat /\ heap \in Seq(Block)
      /\ heap' = Append(heap, b) /\ Len(heap') = n + 1
      /\ \A i \in 1 .. n : heap'[i] = heap[i]
      /\ heap'[n + 1] = b
  BY DEF MemInv, MemTypeOK, Alloc, Block
<1>1. MemTypeOK'
  <2>1. heap' \in Seq(Block)
    BY <1>0
  <2>2. handles' \in [Handles -> Nat] /\ written' \in [Handles -> Contents]
    <3>1. n + 1 \in Nat /\ handles \in [Handles -> Nat] /\ written \in [Handles -> Contents]
      BY <1>0 DEF MemInv, MemTypeOK
    <3>2. handles' = [handles EXCEPT ![h] = n + 1] /\ written' = [written EXCEPT ![h] = junk]
      BY DEF Alloc
    <3> QED
      BY <3>1, <3>2
  <2>3. size \in Nat /\ Overhead \in Nat
    OBVIOUS
  <2>4. freeSpace' \in Nat /\ usedSpace' \in Int /\ dataSpace' \in Int
        /\ handlesUsed' \in Int /\ dirtySpace' \in Nat
    BY <2>3 DEF MemInv, MemTypeOK, Alloc, HasRoom
  <2>5. peakUsage' \in Int
    BY <2>4 DEF MemInv, MemTypeOK, Alloc
  <2>6. memFull' \in BOOLEAN /\ gc' \in [at : GcState, dirty : Nat, clean : Nat]
    BY DEF MemInv, MemTypeOK, Alloc
  <2> QED
    BY <2>1, <2>2, <2>4, <2>5, <2>6 DEF MemTypeOK
<1>2. HandleTableSound'
  <2> SUFFICES ASSUME NEW g \in Handles, handles'[g] # Null
               PROVE  /\ handles'[g] \in 1 .. Len(heap')
                      /\ heap'[handles'[g]].handle = g
                      /\ ~heap'[handles'[g]].dirty
                      /\ heap'[handles'[g]].data = written'[g]
    BY DEF HandleTableSound
  <2>1. CASE g = h
    <3>1. handles'[g] = n + 1 /\ written'[g] = junk
      BY <2>1 DEF Alloc, MemInv, MemTypeOK
    <3> QED
      BY <1>0, <2>1, <3>1
  <2>2. CASE g # h
    <3>1. handles'[g] = handles[g] /\ written'[g] = written[g]
      BY <2>2 DEF Alloc, MemInv, MemTypeOK
    <3>2. handles[g] \in 1 .. n
      BY <3>1 DEF MemInv, HandleTableSound
    <3> QED
      BY <1>0, <3>1, <3>2 DEF MemInv, HandleTableSound
  <2> QED
    BY <2>1, <2>2
<1>3. GcInv'
  <2>1. gc'.at = "waiting" /\ gc' = gc
    BY DEF Alloc
  <2>2. ASSUME NEW i \in 1 .. Len(heap'), ~heap'[i].dirty
        PROVE  handles'[heap'[i].handle] = i
    <3>1. CASE i = n + 1
      BY <1>0, <3>1 DEF Alloc, MemInv, MemTypeOK
    <3>2. CASE i \in 1 .. n
      <4>0. heap'[i] = heap[i] /\ heap[i] \in Block
        BY <1>0, <3>2
      <4>1. handles[heap[i].handle] = i /\ heap[i].handle \in Handles
        <5>1. handles[heap[i].handle] = i
          BY <4>0, <2>1, <2>2, <3>2 DEF MemInv, GcInv
        <5> QED
          BY <4>0, <5>1 DEF Block
      <4>2. heap[i].handle # h
        BY <4>1, <3>2, <1>0 DEF Alloc
      <4> QED
        BY <4>1, <4>2, <1>0, <3>2 DEF Alloc, MemInv, MemTypeOK
    <3> QED
      BY <1>0, <3>1, <3>2
  <2> QED
    BY <2>1, <2>2 DEF GcInv
<1> QED
  BY <1>1, <1>2, <1>3 DEF MemInv

\* mem2_vp_get_ptr and a store: only the contents of the writer's own block change.
LEMMA WriteInv ==
  ASSUME MemInv, NEW h \in Handles, NEW d \in Contents, Write(h, d)
  PROVE  MemInv'
<1> DEFINE p == handles[h]
<1>0. /\ p \in 1 .. Len(heap) /\ heap[p].handle = h /\ heap \in Seq(Block)
      /\ heap' = [heap EXCEPT ![p].data = d] /\ handles' = handles /\ gc' = gc
  BY DEF Write, MemInv, HandleTableSound, MemTypeOK
<1>1. /\ Len(heap') = Len(heap) /\ heap' \in Seq(Block)
      /\ \A i \in 1 .. Len(heap) : i # p => heap'[i] = heap[i]
      /\ heap'[p] = [heap[p] EXCEPT !.data = d]
  <2>0. heap[p] \in Block
    BY <1>0
  <2>1. [heap[p] EXCEPT !.data = d] \in Block
    BY <2>0 DEF Block
  <2> QED
    BY <1>0, <2>0, <2>1
<1>2. \A i \in 1 .. Len(heap) :
        heap'[i].handle = heap[i].handle /\ heap'[i].dirty = heap[i].dirty
  BY <1>0, <1>1 DEF Block
<1>3. MemTypeOK'
  BY <1>0, <1>1 DEF Write, MemInv, MemTypeOK, counters
<1>4. HandleTableSound'
  <2> SUFFICES ASSUME NEW g \in Handles, handles[g] # Null
               PROVE  /\ handles[g] \in 1 .. Len(heap)
                      /\ heap[handles[g]].handle = g
                      /\ ~heap[handles[g]].dirty
                      /\ heap'[handles[g]].data = written'[g]
    BY <1>0, <1>1, <1>2 DEF HandleTableSound
  <2>1. /\ handles[g] \in 1 .. Len(heap) /\ heap[handles[g]].handle = g
        /\ ~heap[handles[g]].dirty /\ heap[handles[g]].data = written[g]
    BY DEF MemInv, HandleTableSound
  <2>2. CASE g = h
    BY <1>0, <1>1, <2>1, <2>2 DEF Write, MemInv, MemTypeOK, Block
  <2>3. CASE g # h
    BY <1>0, <1>1, <2>1, <2>3 DEF Write, MemInv, MemTypeOK
  <2> QED
    BY <2>1, <2>2, <2>3
<1>5. GcInv'
  BY <1>0, <1>1, <1>2 DEF MemInv, GcInv, Write
<1> QED
  BY <1>3, <1>4, <1>5 DEF MemInv

\* mem2_v_free: the block becomes dirty and nothing else pointed at it.
LEMMA FreeInv ==
  ASSUME MemInv, NEW h \in Handles, Free(h)
  PROVE  MemInv'
<1> USE MemoryAssumption
<1> DEFINE p == handles[h]
           b == heap[p]
<1>0. /\ p \in 1 .. Len(heap) /\ b.handle = h /\ heap \in Seq(Block) /\ b \in Block
      /\ heap' = [heap EXCEPT ![p] = [b EXCEPT !.dirty = TRUE]]
      /\ handles' = [handles EXCEPT ![h] = Null] /\ gc' = gc /\ written' = written
  BY DEF Free, MarkedDirty, ClearedHandle, MemInv, HandleTableSound, MemTypeOK
<1>1. /\ Len(heap') = Len(heap) /\ heap' \in Seq(Block)
      /\ \A i \in 1 .. Len(heap) : i # p => heap'[i] = heap[i]
      /\ heap'[p].dirty /\ heap'[p].handle = h
  <2>1. [b EXCEPT !.dirty = TRUE] \in Block
    BY <1>0 DEF Block
  <2> QED
    BY <1>0, <2>1 DEF Block
<1>2. /\ handles' \in [Handles -> Nat] /\ handles'[h] = Null
      /\ \A g \in Handles : g # h => handles'[g] = handles[g]
  BY <1>0 DEF MemInv, MemTypeOK
<1>3. MemTypeOK'
  <2>1. b.size \in Nat /\ BlockSize(b) \in Nat
    BY <1>0 DEF Block, BlockSize
  <2>2. freeSpace' \in Nat /\ dirtySpace' \in Nat /\ usedSpace' \in Int
        /\ dataSpace' \in Int /\ handlesUsed' \in Int /\ peakUsage' \in Int
    BY <2>1 DEF Free, MemInv, MemTypeOK
  <2> QED
    BY <1>0, <1>1, <1>2, <2>2 DEF Free, MemInv, MemTypeOK
<1>4. HandleTableSound'
  <2> SUFFICES ASSUME NEW g \in Handles, handles'[g] # Null
               PROVE  /\ handles'[g] \in 1 .. Len(heap')
                      /\ heap'[handles'[g]].handle = g
                      /\ ~heap'[handles'[g]].dirty
                      /\ heap'[handles'[g]].data = written'[g]
    BY DEF HandleTableSound
  <2>1. g # h /\ handles'[g] = handles[g]
    BY <1>2
  <2>2. /\ handles[g] \in 1 .. Len(heap) /\ heap[handles[g]].handle = g
        /\ ~heap[handles[g]].dirty /\ heap[handles[g]].data = written[g]
    BY <2>1 DEF MemInv, HandleTableSound
  <2>3. handles[g] # p
    BY <1>0, <2>1, <2>2
  <2> QED
    BY <1>0, <1>1, <2>1, <2>2, <2>3
<1>5. GcInv'
  <2>1. gc'.at = "waiting"
    BY <1>0 DEF Free
  <2>2. ASSUME NEW i \in 1 .. Len(heap'), ~heap'[i].dirty
        PROVE  handles'[heap'[i].handle] = i
    <3>1. i # p /\ heap'[i] = heap[i] /\ i \in 1 .. Len(heap)
      BY <1>1, <2>2
    <3>2. handles[heap[i].handle] = i /\ heap[i].handle \in Handles
      <4>1. heap[i] \in Block
        BY <1>0, <3>1
      <4>2. handles[heap[i].handle] = i
        BY <1>0, <2>1, <2>2, <3>1 DEF MemInv, GcInv
      <4> QED
        BY <4>1, <4>2 DEF Block
    <3>3. heap[i].handle # h
      BY <3>1, <3>2
    <3> QED
      BY <1>2, <3>1, <3>2, <3>3
  <2> QED
    BY <2>1, <2>2 DEF GcInv
<1> QED
  BY <1>3, <1>4, <1>5 DEF MemInv

\* The collector's pointers move; no block and no table entry changes.
LEMMA GcPointersInv ==
  ASSUME MemInv, GcStart \/ GcSearch \/ GcSkipDirty
  PROVE  MemInv'
<1>0. heap' = heap /\ handles' = handles /\ written' = written /\ UNCHANGED counters
      /\ memFull' = memFull
  BY DEF GcStart, GcSearch, GcSkipDirty
<1>1. HandleTableSound'
  BY <1>0 DEF MemInv, HandleTableSound
<1>2. gc \in [at : GcState, dirty : Nat, clean : Nat] /\ Len(heap) \in Nat
  BY DEF MemInv, MemTypeOK
<1>3. CASE GcStart
  <2>1. gc' = [at |-> "searching", dirty |-> 1, clean |-> 1]
    BY <1>3 DEF GcStart
  <2>2. gc' \in [at : GcState, dirty : Nat, clean : Nat]
    BY <2>1 DEF GcState
  <2>3. GcInv'
    BY <1>0, <1>2, <1>3, <2>1 DEF MemInv, GcInv, GcStart
  <2> QED
    BY <1>0, <1>1, <2>2, <2>3 DEF MemInv, MemTypeOK, counters
<1>4. CASE GcSearch
  <2>1. CASE gc.dirty <= Len(heap) /\ ~heap[gc.dirty].dirty
    <3>1. gc' = [gc EXCEPT !.dirty = @ + 1]
      BY <1>4, <2>1 DEF GcSearch
    <3>2. gc' \in [at : GcState, dirty : Nat, clean : Nat] /\ gc'.at = "searching"
      BY <1>2, <1>4, <3>1 DEF GcSearch
    <3>3. GcInv'
      BY <1>0, <1>2, <1>4, <2>1, <3>1, <3>2 DEF MemInv, GcInv, GcSearch
    <3> QED
      BY <1>0, <1>1, <3>2, <3>3 DEF MemInv, MemTypeOK, counters
  <2>2. CASE ~(gc.dirty <= Len(heap) /\ ~heap[gc.dirty].dirty)
    <3>1. gc' = [gc EXCEPT !.at = "moving", !.clean = gc.dirty]
      BY <1>4, <2>2 DEF GcSearch
    <3>2. gc' \in [at : GcState, dirty : Nat, clean : Nat] /\ gc'.at = "moving"
          /\ gc'.dirty = gc.dirty /\ gc'.clean = gc.dirty
      BY <1>2, <3>1 DEF GcState
    <3>3. \A i \in Nat : i < gc'.dirty \/ i >= gc'.clean
      BY <1>2, <3>2
    <3>4. gc.at = "searching" /\ gc.dirty \in 1 .. Len(heap) + 1
      BY <1>4 DEF GcSearch, MemInv, GcInv
    <3>5. \A h \in Handles : handles[h] \in Nat
      BY DEF MemInv, MemTypeOK
    <3>6. \A i \in 1 .. Len(heap) : ~heap[i].dirty => handles[heap[i].handle] = i
      BY <3>4 DEF MemInv, GcInv
    <3>7. GcInv'
      BY <1>0, <3>2, <3>3, <3>4, <3>5, <3>6 DEF GcInv
    <3> QED
      BY <1>0, <1>1, <3>2, <3>7 DEF MemInv, MemTypeOK, counters
  <2> QED
    BY <2>1, <2>2
<1>5. CASE GcSkipDirty
  <2>1. gc' = [gc EXCEPT !.clean = @ + 1] /\ gc.at = "moving"
        /\ gc.clean <= Len(heap) /\ heap[gc.clean].dirty
    BY <1>5 DEF GcSkipDirty
  <2>2. gc' \in [at : GcState, dirty : Nat, clean : Nat] /\ gc'.at = "moving"
        /\ gc'.dirty = gc.dirty /\ gc'.clean = gc.clean + 1
    BY <1>2, <2>1
  <2>3. \A h \in Handles : handles[h] # Null =>
           handles[h] \in Nat /\ (handles[h] < gc.dirty \/ handles[h] >= gc.clean)
           /\ handles[h] # gc.clean
    BY <2>1 DEF MemInv, MemTypeOK, GcInv, HandleTableSound
  <2>4. GcInv'
    BY <1>0, <1>2, <2>1, <2>2, <2>3 DEF MemInv, GcInv
  <2> QED
    BY <1>0, <1>1, <2>2, <2>4 DEF MemInv, MemTypeOK, counters
<1> QED
  BY <1>3, <1>4, <1>5

\* The next clean block moves to the dirty pointer and its handle follows it.
LEMMA GcMoveInv ==
  ASSUME MemInv, GcMove
  PROVE  MemInv'
<1> DEFINE c == gc.clean
           t == gc.dirty
           h == heap[c].handle
<1>0. /\ gc \in [at : GcState, dirty : Nat, clean : Nat] /\ gc.at = "moving"
      /\ heap \in Seq(Block) /\ c \in 1 .. Len(heap) /\ t \in 1 .. c /\ t \in 1 .. Len(heap)
      /\ ~heap[c].dirty /\ handles \in [Handles -> Nat] /\ Len(heap) \in Nat
  BY DEF GcMove, MemInv, GcInv, MemTypeOK
<1>1. h \in Handles /\ handles[h] = c /\ heap[c] \in Block
  <2>1. heap[c] \in Block
    BY <1>0
  <2>2. handles[h] = c
    BY <1>0 DEF MemInv, GcInv
  <2> QED
    BY <2>1, <2>2 DEF Block
<1>2. /\ heap' = [heap EXCEPT ![t] = heap[c]] /\ heap' \in Seq(Block)
      /\ Len(heap') = Len(heap) /\ heap'[t] = heap[c]
      /\ \A i \in 1 .. Len(heap) : i # t => heap'[i] = heap[i]
  BY <1>0, <1>1 DEF GcMove
<1>3. /\ handles' \in [Handles -> Nat] /\ handles'[h] = t
      /\ \A g \in Handles : g # h => handles'[g] = handles[g]
  BY <1>0, <1>1 DEF GcMove, Retargeted
<1>4. /\ gc' \in [at : GcState, dirty : Nat, clean : Nat] /\ gc'.at = "moving"
      /\ gc'.dirty = t + 1 /\ gc'.clean = c + 1
  <2>1. gc' = [gc EXCEPT !.clean = c + 1, !.dirty = t + 1]
    BY DEF GcMove
  <2>2. c + 1 \in Nat /\ t + 1 \in Nat
    BY <1>0
  <2> QED
    BY <1>0, <2>1, <2>2
<1>5. MemTypeOK'
  BY <1>2, <1>3, <1>4 DEF GcMove, MemInv, MemTypeOK, counters
<1>6. \A g \in Handles : g # h /\ handles[g] # Null =>
         handles[g] # c /\ (handles[g] < t \/ handles[g] > c)
  BY <1>0, <1>1 DEF MemInv, HandleTableSound, GcInv
<1>7. HandleTableSound'
  <2> SUFFICES ASSUME NEW g \in Handles, handles'[g] # Null
               PROVE  /\ handles'[g] \in 1 .. Len(heap')
                      /\ heap'[handles'[g]].handle = g
                      /\ ~heap'[handles'[g]].dirty
                      /\ heap'[handles'[g]].data = written'[g]
    BY DEF HandleTableSound
  <2>0. written' = written
    BY DEF GcMove
  <2>1. CASE g = h
    BY <1>0, <1>1, <1>2, <1>3, <2>0, <2>1 DEF MemInv, HandleTableSound
  <2>2. CASE g # h
    <3>1. handles'[g] = handles[g] /\ handles[g] \in 1 .. Len(heap) /\ handles[g] # t
      BY <1>0, <1>3, <1>6, <2>2 DEF MemInv, HandleTableSound
    <3> QED
      BY <1>2, <2>0, <3>1 DEF MemInv, HandleTableSound
  <2> QED
    BY <2>1, <2>2
<1>8. GcInv'
  <2>1. ASSUME NEW i \in 1 .. Len(heap'), ~heap'[i].dirty, i < t + 1 \/ i >= c + 1
        PROVE  handles'[heap'[i].handle] = i
    <3>1. CASE i = t
      BY <1>2, <1>3, <3>1
    <3>2. CASE i # t
      <4>1. heap'[i] = heap[i] /\ i \in 1 .. Len(heap) /\ (i < t \/ i >= c) /\ i # c
        BY <1>0, <1>2, <2>1, <3>2
      <4>2. handles[heap[i].handle] = i /\ heap[i].handle \in Handles
        <5>1. heap[i] \in Block
          BY <1>0, <4>1
        <5>2. handles[heap[i].handle] = i
          BY <1>0, <2>1, <4>1 DEF MemInv, GcInv
        <5> QED
          BY <5>1, <5>2 DEF Block
      <4>3. heap[i].handle # h
        BY <1>1, <4>1, <4>2
      <4> QED
        BY <1>3, <4>1, <4>2, <4>3
    <3> QED
      BY <3>1, <3>2
  <2>2. ASSUME NEW g \in Handles, handles'[g] # Null
        PROVE  handles'[g] < t + 1 \/ handles'[g] >= c + 1
    <3>1. CASE g = h
      BY <1>0, <1>3, <3>1
    <3>2. CASE g # h
      <4>1. handles'[g] = handles[g] /\ handles[g] \in Nat
        BY <1>0, <1>3, <3>2
      <4>2. handles[g] < t \/ handles[g] > c
        BY <1>6, <2>2, <3>2, <4>1
      <4> QED
        BY <1>0, <4>1, <4>2
    <3> QED
      BY <3>1, <3>2
  <2> QED
    BY <1>0, <1>2, <1>4, <2>1, <2>2 DEF GcInv
<1> QED
  BY <1>5, <1>7, <1>8 DEF MemInv

\* The free space pointer drops to the dirty pointer: only ownerless positions go.
LEMMA GcDoneInv ==
  ASSUME MemInv, GcDone
  PROVE  MemInv'
<1> DEFINE t == gc.dirty
<1>0. /\ gc \in [at : GcState, dirty : Nat, clean : Nat] /\ gc.at = "moving"
      /\ heap \in Seq(Block) /\ Len(heap) \in Nat /\ t \in 1 .. Len(heap) + 1
      /\ gc.clean = Len(heap) + 1 /\ handles' = handles /\ written' = written
      /\ handles \in [Handles -> Nat]
  BY DEF GcDone, MemInv, GcInv, MemTypeOK
<1>1. heap' = SubSeq(heap, 1, t - 1)
  BY DEF GcDone
<1>2. /\ heap' \in Seq(Block) /\ Len(heap') = t - 1
      /\ \A i \in 1 .. t - 1 : heap'[i] = heap[i]
  BY <1>0, <1>1
<1>3. gc' \in [at : GcState, dirty : Nat, clean : Nat] /\ gc'.at = "waiting"
  BY <1>0 DEF GcDone, GcState
<1>4. MemTypeOK'
  <2>1. freeSpace' \in Nat /\ dirtySpace' \in Nat
    BY DEF GcDone, DirtyAfterGc, MemInv, MemTypeOK
  <2> QED
    BY <1>0, <1>2, <1>3, <2>1 DEF GcDone, MemInv, MemTypeOK
<1>5. \A h \in Handles : handles[h] # Null => handles[h] \in 1 .. t - 1
  BY <1>0 DEF MemInv, GcInv, HandleTableSound
<1>6. HandleTableSound'
  BY <1>0, <1>2, <1>5 DEF MemInv, HandleTableSound
<1>7. GcInv'
  <2>1. ASSUME NEW i \in 1 .. Len(heap'), ~heap'[i].dirty
        PROVE  handles'[heap'[i].handle] = i
    BY <1>0, <1>2, <2>1 DEF MemInv, GcInv
  <2> QED
    BY <1>3, <2>1 DEF GcInv
<1> QED
  BY <1>4, <1>6, <1>7 DEF MemInv

\* Every step preserves the invariant.
LEMMA NextInv == ASSUME MemInv, [MemNext]_memVars PROVE MemInv'
<1>1. ASSUME NEW size \in Sizes, AllocFails(size) PROVE MemInv'
  BY <1>1 DEF AllocFails, MemInv, MemTypeOK, HandleTableSound, GcInv, counters
<1>2. CASE UNCHANGED memVars
  BY <1>2 DEF MemInv, MemTypeOK, HandleTableSound, GcInv, memVars, counters
<1> QED
  BY <1>1, <1>2, AllocInv, WriteInv, FreeInv, GcPointersInv, GcMoveInv, GcDoneInv
  DEF MemNext, Gc

\* The types of the kernel heap's state hold in every reachable state.
THEOREM TypeCorrect == MemSpec => []MemTypeOK
<1>1. MemInv => MemTypeOK
  BY DEF MemInv
<1> QED
  BY <1>1, InitInv, NextInv, PTL DEF MemSpec

\* Every handle leads, in every state, to its owner's live block with what the
\* owner last wrote: no order of allocations, releases and collections
\* (memory.c 290-370, 385-421, 538-624) can hand out or move over a live block.
THEOREM HandlesAreSound == MemSpec => []HandleTableSound
<1>1. MemInv => HandleTableSound
  BY DEF MemInv
<1> QED
  BY <1>1, InitInv, NextInv, PTL DEF MemSpec

\* Between collections every clean block has an owner (memory.c 400-421).
THEOREM NothingLeaks == MemSpec => []NoLeakedBlock
<1>1. MemInv => NoLeakedBlock
  BY DEF MemInv, GcInv, NoLeakedBlock
<1> QED
  BY <1>1, InitInv, NextInv, PTL DEF MemSpec

\* free_space + used_space + dirty_space is the size of the heap for ever.
THEOREM SpaceIsPartitioned == MemSpec => []SpacePartitioned
<1> DEFINE Inv == MemInv /\ SpacePartitioned
<1>1. MemInit => Inv
  <2> SUFFICES ASSUME MemInit
               PROVE  MemInv /\ SpacePartitioned
    OBVIOUS
  <2>1. MemInv
    BY InitInv
  <2>2. SpacePartitioned
    BY MemoryAssumption DEF MemInit, SpacePartitioned
  <2> QED
    BY <2>1, <2>2
<1>2. Inv /\ [MemNext]_memVars => Inv'
  <2> SUFFICES ASSUME MemInv, SpacePartitioned, [MemNext]_memVars
               PROVE  SpacePartitioned'
    BY NextInv
  <2> USE MemoryAssumption
  <2>1. ASSUME NEW size \in Sizes, NEW h \in Handles, NEW junk \in Contents,
               Alloc(size, h, junk)
        PROVE  SpacePartitioned'
    BY <2>1 DEF Alloc, SpacePartitioned, MemInv, MemTypeOK
  <2>2. ASSUME NEW h \in Handles, Free(h)
        PROVE  SpacePartitioned'
    <3>1. heap[handles[h]] \in Block
      BY <2>2 DEF Free, MemInv, HandleTableSound, MemTypeOK
    <3>2. BlockSize(heap[handles[h]]) \in Nat
      <4>1. heap[handles[h]].size \in Nat /\ Overhead \in Nat
        BY <3>1 DEF Block
      <4> QED
        BY <4>1 DEF BlockSize
    <3>3. /\ freeSpace' = freeSpace
          /\ dirtySpace' = dirtySpace + BlockSize(heap[handles[h]])
          /\ usedSpace' = usedSpace - BlockSize(heap[handles[h]])
      BY <2>2 DEF Free
    <3>4. freeSpace \in Int /\ usedSpace \in Int /\ dirtySpace \in Int
      BY DEF MemInv, MemTypeOK
    <3>5. \A f, u, d, n \in Int : f + (u - n) + (d + n) = f + u + d
      OBVIOUS
    <3>6. freeSpace' + usedSpace' + dirtySpace' = freeSpace + usedSpace + dirtySpace
      BY <3>2, <3>3, <3>4, <3>5
    <3> QED
      BY <3>6 DEF SpacePartitioned
  <2>3. CASE GcDone
    BY <2>3 DEF GcDone, DirtyAfterGc, SpacePartitioned, MemInv, MemTypeOK
  <2>4. ASSUME \/ \E size \in Sizes : AllocFails(size)
               \/ \E h \in Handles, d \in Contents : Write(h, d)
               \/ GcStart \/ GcSearch \/ GcSkipDirty \/ GcMove
               \/ UNCHANGED memVars
        PROVE  SpacePartitioned'
    BY <2>4 DEF AllocFails, Write, GcStart, GcSearch, GcSkipDirty, GcMove,
                memVars, counters, SpacePartitioned
  <2> QED
    BY <2>1, <2>2, <2>3, <2>4 DEF MemNext, Gc
<1> QED
  BY <1>1, <1>2, PTL DEF MemSpec

\* For every number of handles, heap size and block sizes: handles, blocks and counters
\* agree at every step of a collection (memory.c 449-624).
THEOREM HeapIsSound == MemSpec => []HeapSound
<1> QED
  BY TypeCorrect, HandlesAreSound, NothingLeaks, SpaceIsPartitioned, PTL DEF HeapSound
-----------------------------------------------------------------------------
(* Sums *)

\* Induction on the natural numbers, on a set instead of a predicate.
LEMMA SetInduction ==
    ASSUME NEW S, 0 \in S, \A n \in Nat : n \in S => n + 1 \in S
    PROVE  Nat \subseteq S
<1> DEFINE T == Nat \ S
<1> SUFFICES ASSUME T # {} PROVE FALSE
  OBVIOUS
<1>1. PICK x \in T : \A y \in T : ~(<<y, x>> \in OpToRel(<, Nat))
  BY NatLessThanWellFounded, WFMin
<1>2. ASSUME NEW y \in T PROVE ~(y < x)
  BY <1>1, Zenon DEF OpToRel
<1>3. x - 1 \in Nat /\ x - 1 < x
  OBVIOUS
<1>4. x - 1 \in S
  BY <1>2, <1>3
<1> QED
  BY <1>3, <1>4

\* The recursion of Sums has a solution.  F[n] is one up to n; F[n] and F[n + 1] agree up to
\* n, and the diagonal is one everywhere.
LEMMA SumsExist ==
    ASSUME NEW w \in [Nat -> Int]
    PROVE  \E f \in [Nat -> Int] : f = [n \in Nat |-> IF n = 0 THEN 0 ELSE f[n - 1] + w[n]]
<1> DEFINE Good(f, n) == f \in [Nat -> Int] /\ f[0] = 0 /\ \A i \in 1 .. n : f[i] = f[i - 1] + w[i]
           S == {n \in Nat : \E f : Good(f, n)}
<1>1. 0 \in S
  <2>1. Good([n \in Nat |-> 0], 0)
    OBVIOUS
  <2> QED
    BY <2>1
<1>2. ASSUME NEW n \in Nat, n \in S PROVE n + 1 \in S
  <2>1. PICK f : Good(f, n)
    BY <1>2
  <2> DEFINE g == [f EXCEPT ![n + 1] = f[n] + w[n + 1]]
  <2>2. Good(g, n + 1)
    BY <2>1
  <2>3. \E x : Good(x, n + 1)
    <3> HIDE DEF g, Good
    <3> QED
      BY <2>2
  <2> QED
    BY <2>3
<1>3. \A n \in Nat : n \in S
  <2> HIDE DEF S
  <2> QED
    BY <1>1, <1>2, SetInduction
<1> DEFINE F == [n \in Nat |-> CHOOSE f : Good(f, n)]
<1>4. \A n \in Nat : Good(F[n], n)
  <2> TAKE n \in Nat
  <2>1. \E f : Good(f, n)
    BY <1>3
  <2> HIDE DEF Good
  <2> QED
    BY <2>1
<1>5. \A n \in Nat : F[n + 1][n] = F[n][n]
  <2> TAKE n \in Nat
  <2> DEFINE A == {i \in Nat : i <= n => F[n + 1][i] = F[n][i]}
  <2>0. Good(F[n], n) /\ Good(F[n + 1], n + 1)
    <3> HIDE DEF F, Good
    <3> QED
      BY <1>4
  <2> HIDE DEF F
  <2>1. 0 \in A
    BY <2>0
  <2>2. \A i \in Nat : i \in A => i + 1 \in A
    <3> SUFFICES ASSUME NEW i \in Nat, i \in A, i + 1 <= n
                 PROVE  F[n + 1][i + 1] = F[n][i + 1]
      OBVIOUS
    <3>1. i + 1 \in 1 .. n /\ i + 1 \in 1 .. n + 1 /\ (i + 1) - 1 = i /\ i <= n
      OBVIOUS
    <3>2. F[n][i + 1] = F[n][i] + w[i + 1]
      BY <2>0, <3>1
    <3>3. F[n + 1][i + 1] = F[n + 1][i] + w[i + 1]
      BY <2>0, <3>1
    <3> QED
      BY <3>1, <3>2, <3>3
  <2>3. n \in A
    <3> HIDE DEF A
    <3> QED
      BY <2>1, <2>2, SetInduction
  <2> QED
    BY <2>3
<1> DEFINE s == [n \in Nat |-> F[n][n]]
<1>6. s \in [Nat -> Int]
  BY <1>4
<1>7. ASSUME NEW n \in Nat PROVE s[n] = IF n = 0 THEN 0 ELSE s[n - 1] + w[n]
  <2>1. CASE n = 0
    BY <1>4, <2>1
  <2>2. CASE n # 0
    <3>1. n - 1 \in Nat /\ (n - 1) + 1 = n /\ n \in 1 .. n
      BY <2>2
    <3>2. Good(F[n], n) /\ F[(n - 1) + 1][n - 1] = F[n - 1][n - 1]
      BY <1>4, <1>5, <3>1
    <3> HIDE DEF F
    <3> QED
      BY <3>1, <3>2, <2>2
  <2> QED
    BY <2>1, <2>2
<1>8. s = [n \in Nat |-> IF n = 0 THEN 0 ELSE s[n - 1] + w[n]]
  <2> HIDE DEF F
  <2>1. s = [n \in Nat |-> s[n]]
    OBVIOUS
  <2> QED
    BY <1>7, <2>1
<1> QED
  <2> HIDE DEF s
  <2> QED
    BY <1>6, <1>8

\* The sum of no members, and of one more.
LEMMA SumsOf ==
    ASSUME NEW w \in [Nat -> Int]
    PROVE  /\ Sums(w) \in [Nat -> Int]
           /\ Sums(w)[0] = 0
           /\ \A n \in Nat : Sums(w)[n + 1] = Sums(w)[n] + w[n + 1]
<1> DEFINE Is(f) == f = [n \in Nat |-> IF n = 0 THEN 0 ELSE f[n - 1] + w[n]]
           c == CHOOSE f : Is(f)
<1>1. Sums(w) = c
  BY DEF Sums
<1>2. \A f : \A n \in Nat : Is(f) => f[n] = IF n = 0 THEN 0 ELSE f[n - 1] + w[n]
  OBVIOUS
<1>3. PICK f \in [Nat -> Int] : Is(f)
  BY SumsExist
<1>4. Is(c)
  <2> HIDE DEF Is
  <2> QED
    BY <1>3
<1>5. c = f
  <2> DEFINE A == {n \in Nat : c[n] = f[n]}
  <2>0. \A n \in Nat : c[n] = (IF n = 0 THEN 0 ELSE c[n - 1] + w[n])
                    /\ f[n] = (IF n = 0 THEN 0 ELSE f[n - 1] + w[n])
    <3> HIDE DEF Is, c
    <3> QED
      BY <1>2, <1>3, <1>4
  <2>a. c = [n \in Nat |-> c[n]] /\ f = [n \in Nat |-> f[n]]
    <3>1. c = [n \in Nat |-> IF n = 0 THEN 0 ELSE c[n - 1] + w[n]]
      BY <1>4
    <3> HIDE DEF c
    <3> QED
      BY <1>3, <3>1, <2>0
  <2> HIDE DEF c, Is
  <2>1. 0 \in A
    BY <2>0
  <2>2. \A n \in Nat : n \in A => n + 1 \in A
    <3> TAKE n \in Nat
    <3>1. n + 1 \in Nat /\ n + 1 # 0 /\ (n + 1) - 1 = n
      OBVIOUS
    <3>2. c[n + 1] = c[n] + w[n + 1] /\ f[n + 1] = f[n] + w[n + 1]
      BY <2>0, <3>1
    <3> QED
      BY <3>1, <3>2
  <2>3. \A n \in Nat : n \in A
    <3> HIDE DEF A
    <3> QED
      BY <2>1, <2>2, SetInduction
  <2> QED
    BY <2>a, <2>3
<1>6. c \in [Nat -> Int] /\ \A n \in Nat : c[n] = IF n = 0 THEN 0 ELSE c[n - 1] + w[n]
  <2> HIDE DEF c, Is
  <2> QED
    BY <1>2, <1>3, <1>5
<1> HIDE DEF c
<1> QED
  <2>1. \A n \in Nat : n + 1 \in Nat /\ n + 1 # 0 /\ (n + 1) - 1 = n
    OBVIOUS
  <2> QED
    BY <1>1, <1>6, <2>1

\* Members that agree up to n have the same sum there.
LEMMA SumsAgree ==
    ASSUME NEW v \in [Nat -> Int], NEW w \in [Nat -> Int], NEW n \in Nat,
           \A i \in 1 .. n : v[i] = w[i]
    PROVE  Sums(v)[n] = Sums(w)[n]
<1> DEFINE A == {i \in Nat : i <= n => Sums(v)[i] = Sums(w)[i]}
<1>1. 0 \in A
  BY SumsOf
<1>2. \A i \in Nat : i \in A => i + 1 \in A
  <2> SUFFICES ASSUME NEW i \in Nat, i \in A, i + 1 <= n
               PROVE  Sums(v)[i + 1] = Sums(w)[i + 1]
    OBVIOUS
  <2>1. i + 1 \in 1 .. n /\ i <= n
    OBVIOUS
  <2> QED
    BY <2>1, SumsOf
<1>3. n \in A
  <2> HIDE DEF A
  <2> QED
    BY <1>1, <1>2, SetInduction
<1> QED
  BY <1>3

\* One member that grows by d makes the sum grow by d.
LEMMA SumsGrow ==
    ASSUME NEW v \in [Nat -> Int], NEW w \in [Nat -> Int], NEW n \in Nat, NEW p \in 1 .. n,
           NEW d \in Int, v[p] = w[p] + d, \A i \in 1 .. n : i # p => v[i] = w[i]
    PROVE  Sums(v)[n] = Sums(w)[n] + d
<1> DEFINE A == {i \in Nat : i <= n => Sums(v)[i] = Sums(w)[i] + (IF p <= i THEN d ELSE 0)}
<1>0. /\ Sums(v)[0] = 0 /\ Sums(w)[0] = 0
      /\ Sums(v) \in [Nat -> Int] /\ Sums(w) \in [Nat -> Int]
      /\ \A i \in Nat : Sums(v)[i + 1] = Sums(v)[i] + v[i + 1]
      /\ \A i \in Nat : Sums(w)[i + 1] = Sums(w)[i] + w[i + 1]
  BY SumsOf
<1>1. 0 \in A
  BY <1>0
<1>2. \A i \in Nat : i \in A => i + 1 \in A
  <2> SUFFICES ASSUME NEW i \in Nat, i \in A, i + 1 <= n
               PROVE  Sums(v)[i + 1] = Sums(w)[i + 1] + (IF p <= i + 1 THEN d ELSE 0)
    OBVIOUS
  <2>1. i + 1 \in 1 .. n /\ i <= n
    OBVIOUS
  <2>2. Sums(v)[i + 1] = Sums(v)[i] + v[i + 1] /\ Sums(w)[i + 1] = Sums(w)[i] + w[i + 1]
    BY <1>0
  <2>3. Sums(v)[i] \in Int /\ Sums(w)[i] \in Int /\ v[i + 1] \in Int /\ w[i + 1] \in Int
    BY <1>0
  <2>4. CASE i + 1 = p
    BY <2>1, <2>2, <2>3, <2>4
  <2>5. CASE i + 1 # p
    BY <2>1, <2>2, <2>3, <2>5
  <2> QED
    BY <2>4, <2>5
<1>3. n \in A
  <2> HIDE DEF A
  <2> QED
    BY <1>1, <1>2, SetInduction
<1> QED
  BY <1>3

\* Members that are zero do not count.
LEMMA SumsTail ==
    ASSUME NEW w \in [Nat -> Int], NEW m \in Nat, NEW n \in Nat, m <= n,
           \A i \in m + 1 .. n : w[i] = 0
    PROVE  Sums(w)[n] = Sums(w)[m]
<1> DEFINE A == {i \in Nat : m <= i /\ i <= n => Sums(w)[i] = Sums(w)[m]}
<1>0. /\ Sums(w) \in [Nat -> Int]
      /\ \A i \in Nat : Sums(w)[i + 1] = Sums(w)[i] + w[i + 1]
  BY SumsOf
<1>1. 0 \in A
  OBVIOUS
<1>2. \A i \in Nat : i \in A => i + 1 \in A
  <2> SUFFICES ASSUME NEW i \in Nat, i \in A, m <= i + 1, i + 1 <= n
               PROVE  Sums(w)[i + 1] = Sums(w)[m]
    OBVIOUS
  <2>1. CASE i + 1 = m
    BY <2>1
  <2>2. CASE i + 1 # m
    <3>1. i + 1 \in m + 1 .. n /\ m <= i /\ i <= n
      BY <2>2
    <3> QED
      BY <1>0, <3>1
  <2> QED
    BY <2>1, <2>2
<1>3. n \in A
  <2> HIDE DEF A
  <2> QED
    BY <1>1, <1>2, SetInduction
<1> QED
  BY <1>3

-----------------------------------------------------------------------------
(* The bytes of a set of blocks *)

LEMMA BlockSizeType == ASSUME NEW b \in Block PROVE BlockSize(b) \in Nat
<1>1. b.size \in Nat /\ Overhead \in Nat
  BY MemoryAssumption DEF Block
<1> QED
  BY <1>1 DEF BlockSize

LEMMA WeightsType ==
    ASSUME NEW blocks \in Seq(Block), NEW S \in SUBSET (1 .. Len(blocks))
    PROVE  Weights(blocks, S) \in [Nat -> Int]
<1>1. \A i \in S : blocks[i] \in Block
  OBVIOUS
<1>2. \A b \in Block : BlockSize(b) \in Nat
  BY BlockSizeType
<1>3. \A i \in Nat : (IF i \in S THEN BlockSize(blocks[i]) ELSE 0) \in Int
  BY <1>1, <1>2
<1> QED
  BY <1>3 DEF Weights

\* No blocks, no bytes.
LEMMA NoBytes == ASSUME NEW blocks \in Seq(Block) PROVE BytesOf(blocks, {}) = 0
<1> DEFINE w == Weights(blocks, {})
<1>1. w \in [Nat -> Int]
  BY WeightsType
<1>2. \A i \in 0 + 1 .. Len(blocks) : w[i] = 0
  BY DEF Weights
<1>3. Len(blocks) \in Nat
  OBVIOUS
<1>4. Sums(w)[Len(blocks)] = Sums(w)[0]
  <2> HIDE DEF w
  <2> QED
    BY <1>1, <1>2, <1>3, SumsTail
<1> QED
  BY <1>1, <1>4, SumsOf DEF BytesOf

\* The sizes of the blocks of S are all that counts.
LEMMA SameBytes ==
    ASSUME NEW g \in Seq(Block), NEW h \in Seq(Block),
           NEW S \in SUBSET (1 .. Len(g)), S \subseteq 1 .. Len(h),
           \A i \in S : g[i].size = h[i].size
    PROVE  BytesOf(g, S) = BytesOf(h, S)
<1> DEFINE v == Weights(g, S)
           w == Weights(h, S)
           m == Len(g)
           n == Len(h)
<1>1. v \in [Nat -> Int] /\ w \in [Nat -> Int] /\ m \in Nat /\ n \in Nat
  BY WeightsType
<1>2. v = w
  BY DEF Weights, BlockSize
<1>3. /\ \A i \in m + 1 .. n : w[i] = 0
      /\ \A i \in n + 1 .. m : w[i] = 0
  BY DEF Weights
<1>4. Sums(w)[m] = Sums(w)[n]
  <2> HIDE DEF w, m, n
  <2>1. CASE m <= n
    BY <1>1, <1>3, <2>1, SumsTail
  <2>2. CASE n <= m
    BY <1>1, <1>3, <2>2, SumsTail
  <2> QED
    BY <1>1, <2>1, <2>2
<1> QED
  BY <1>2, <1>4 DEF BytesOf

\* One more block.
LEMMA MoreBytes ==
    ASSUME NEW blocks \in Seq(Block), NEW S \in SUBSET (1 .. Len(blocks)),
           NEW p \in 1 .. Len(blocks), p \notin S
    PROVE  /\ BytesOf(blocks, S \cup {p}) = BytesOf(blocks, S) + BlockSize(blocks[p])
           /\ BytesOf(blocks, S) \in Int /\ BlockSize(blocks[p]) \in Nat
<1> DEFINE v == Weights(blocks, S \cup {p})
           w == Weights(blocks, S)
           n == Len(blocks)
           d == BlockSize(blocks[p])
<1>1. v \in [Nat -> Int] /\ w \in [Nat -> Int] /\ n \in Nat
  <2>1. S \cup {p} \in SUBSET (1 .. Len(blocks))
    OBVIOUS
  <2> QED
    BY <2>1, WeightsType
<1>2. d \in Nat
  <2>1. blocks[p] \in Block
    OBVIOUS
  <2> QED
    BY <2>1, BlockSizeType
<1>3. v[p] = w[p] + d /\ \A i \in 1 .. n : i # p => v[i] = w[i]
  <2>1. v[p] = d /\ w[p] = 0
    <3>1. p \in Nat
      OBVIOUS
    <3> QED
      BY <3>1 DEF Weights
  <2>2. \A i \in 1 .. n : i # p => v[i] = w[i]
    BY DEF Weights
  <2> HIDE DEF v, w, d
  <2> QED
    BY <1>2, <2>1, <2>2
<1>4. Sums(v)[n] = Sums(w)[n] + d /\ Sums(w)[n] \in Int
  <2>1. p \in 1 .. n /\ d \in Int
    BY <1>2
  <2> HIDE DEF v, w, d, n
  <2>2. Sums(w)[n] \in Int
    BY <1>1, SumsOf
  <2>3. v[p] = w[p] + d
    BY <1>3
  <2>4. \A i \in 1 .. n : i # p => v[i] = w[i]
    BY <1>3
  <2>5. Sums(v)[n] = Sums(w)[n] + d
    BY <1>1, <2>1, <2>3, <2>4, SumsGrow
  <2> QED
    BY <2>2, <2>5
<1> QED
  BY <1>2, <1>4 DEF BytesOf

-----------------------------------------------------------------------------
(* The counters *)

\* There are finitely many handles in use.
LEMMA AllocatedFinite == IsFiniteSet(Allocated) /\ Cardinality(Allocated) \in Nat
<1>1. IsFiniteSet(Handles)
  BY MemoryAssumption, FS_Interval DEF Handles
<1>2. Allocated \subseteq Handles
  BY DEF Allocated
<1> QED
  BY <1>1, <1>2, FS_Subset, FS_CardinalityType

LEMMA InitCount == ASSUME MemInit PROVE CountInv
<1>1. heap = <<>> /\ heap \in Seq(Block) /\ Len(heap) = 0
  BY EmptySeq DEF MemInit
<1>2. Owned = {} /\ Dirty = {}
  BY <1>1 DEF Owned, Dirty, Clean
<1>3. BytesOf(heap, Owned) = 0 /\ BytesOf(heap, Dirty) = 0
  BY <1>1, <1>2, NoBytes
<1>4. Allocated = {}
  BY DEF MemInit, Allocated
<1>5. Cardinality(Allocated) = 0
  BY <1>4, FS_EmptySet
<1> QED
  BY <1>3, <1>5 DEF MemInit, CountInv

\* mem2_h_alloc counts the block it adds.
LEMMA AllocCount ==
    ASSUME MemInv, CountInv, MemInv', NEW size \in Sizes, NEW h \in Handles, NEW junk \in Contents,
           Alloc(size, h, junk)
    PROVE  CountInv'
<1> DEFINE b == [size |-> size, handle |-> h, dirty |-> FALSE, data |-> junk]
           n == Len(heap)
<1>0. /\ heap \in Seq(Block) /\ heap' \in Seq(Block) /\ n \in Nat
      /\ Len(heap') = n + 1 /\ heap'[n + 1] = b
      /\ \A i \in 1 .. n : heap'[i] = heap[i]
      /\ gc' = gc /\ gc.at = "waiting" /\ size \in Nat /\ Overhead \in Nat
  BY MemoryAssumption DEF Alloc, MemInv, MemTypeOK
<1>1. Owned' = Owned \cup {n + 1} /\ Dirty' = Dirty
  <2>1. Clean' = Clean \cup {n + 1} /\ Dirty' = Dirty
    BY <1>0 DEF Clean, Dirty
  <2> QED
    BY <1>0, <2>1 DEF Owned
<1>2. /\ Owned \in SUBSET (1 .. n) /\ Dirty \in SUBSET (1 .. n)
      /\ Owned \in SUBSET (1 .. n + 1) /\ Dirty \in SUBSET (1 .. n + 1)
      /\ n + 1 \notin Owned /\ n + 1 \in 1 .. Len(heap')
  BY <1>0 DEF Owned, Clean, Dirty
<1>3. BytesOf(heap', Owned) = BytesOf(heap, Owned) /\ BytesOf(heap', Dirty) = BytesOf(heap, Dirty)
  <2>1. \A i \in 1 .. n : heap'[i].size = heap[i].size
    BY <1>0
  <2>2. \A S \in SUBSET (1 .. n) : BytesOf(heap', S) = BytesOf(heap, S)
    BY <1>0, <2>1, SameBytes
  <2> QED
    BY <1>2, <2>2
<1>4. BytesOf(heap', Owned') = BytesOf(heap', Owned) + (size + Overhead)
  <2>1. BlockSize(heap'[n + 1]) = size + Overhead
    BY <1>0 DEF BlockSize
  <2> QED
    BY <1>0, <1>1, <1>2, <2>1, MoreBytes
<1>5. Cardinality(Allocated') = Cardinality(Allocated) + 1
  <2>1. handles[h] = Null /\ handles \in [Handles -> Nat] /\ handles' = [handles EXCEPT ![h] = n + 1]
    BY DEF Alloc, MemInv, MemTypeOK
  <2>2. Allocated' = Allocated \cup {h} /\ h \notin Allocated
    BY <1>0, <2>1 DEF Allocated
  <2> QED
    BY <2>2, AllocatedFinite, FS_AddElement
<1>6. usedSpace' = usedSpace + (size + Overhead) /\ dirtySpace' = dirtySpace
      /\ handlesUsed' = handlesUsed + 1
  BY DEF Alloc
<1>7. /\ usedSpace = BytesOf(heap, Owned) /\ dirtySpace = BytesOf(heap, Dirty)
      /\ handlesUsed = Cardinality(Allocated)
  BY <1>0 DEF CountInv
<1>8. usedSpace' = BytesOf(heap', Owned') /\ dirtySpace' = BytesOf(heap', Dirty')
      /\ handlesUsed' = Cardinality(Allocated')
  BY <1>1, <1>3, <1>4, <1>5, <1>6, <1>7
<1> QED
  BY <1>0, <1>8 DEF CountInv

\* mem2_v_free counts the block as dirty instead of used.
LEMMA FreeCount ==
    ASSUME MemInv, CountInv, MemInv', NEW h \in Handles, Free(h)
    PROVE  CountInv'
<1> DEFINE p == handles[h]
           b == heap[p]
           n == Len(heap)
<1>0. /\ heap \in Seq(Block) /\ heap' \in Seq(Block) /\ n \in Nat /\ p \in 1 .. n
      /\ b \in Block /\ ~b.dirty /\ gc' = gc /\ gc.at = "waiting"
      /\ heap' = [heap EXCEPT ![p] = [b EXCEPT !.dirty = TRUE]]
  BY DEF Free, MarkedDirty, MemInv, HandleTableSound, MemTypeOK
<1>1. /\ Len(heap') = n /\ heap'[p].dirty /\ heap'[p].size = b.size
      /\ \A i \in 1 .. n : i # p => heap'[i] = heap[i]
  BY <1>0 DEF Block
<1>2. Owned = Owned' \cup {p} /\ Dirty' = Dirty \cup {p}
  <2>1. Clean = Clean' \cup {p} /\ Dirty' = Dirty \cup {p}
    BY <1>0, <1>1 DEF Clean, Dirty
  <2> QED
    BY <1>0, <2>1 DEF Owned
<1>3. /\ Owned' \in SUBSET (1 .. n) /\ Dirty \in SUBSET (1 .. n) /\ p \notin Owned' /\ p \notin Dirty
  BY <1>0, <1>1 DEF Owned, Clean, Dirty
<1>4. \A S \in SUBSET (1 .. n) : BytesOf(heap', S) = BytesOf(heap, S)
  <2>1. \A i \in 1 .. n : heap'[i].size = heap[i].size
    BY <1>1
  <2> QED
    BY <1>0, <1>1, <2>1, SameBytes
<1>5. /\ BytesOf(heap, Owned) = BytesOf(heap, Owned') + BlockSize(b)
      /\ BytesOf(heap, Owned') \in Int /\ BlockSize(b) \in Nat
  BY <1>0, <1>2, <1>3, MoreBytes
<1>6. BytesOf(heap, Dirty \cup {p}) = BytesOf(heap, Dirty) + BlockSize(b)
  BY <1>0, <1>3, MoreBytes
<1>7. Cardinality(Allocated') = Cardinality(Allocated) - 1
  <2>1. handles[h] # Null /\ handles \in [Handles -> Nat] /\ handles' = [handles EXCEPT ![h] = Null]
    BY DEF Free, ClearedHandle, MemInv, MemTypeOK
  <2>2. Allocated' = Allocated \ {h} /\ h \in Allocated
    BY <2>1 DEF Allocated
  <2> QED
    BY <2>2, AllocatedFinite, FS_RemoveElement
<1>8. /\ usedSpace' = usedSpace - BlockSize(b) /\ dirtySpace' = dirtySpace + BlockSize(b)
      /\ handlesUsed' = handlesUsed - 1
  BY DEF Free
<1>9. /\ usedSpace = BytesOf(heap, Owned) /\ dirtySpace = BytesOf(heap, Dirty)
      /\ handlesUsed = Cardinality(Allocated)
  BY <1>0 DEF CountInv
<1>10. usedSpace' = BytesOf(heap', Owned')
  BY <1>3, <1>4, <1>5, <1>8, <1>9
<1>11. dirtySpace' = BytesOf(heap', Dirty')
  <2>1. Dirty \cup {p} \in SUBSET (1 .. n)
    BY <1>0, <1>3
  <2> QED
    BY <1>2, <1>4, <1>6, <1>8, <1>9, <2>1
<1> QED
  BY <1>0, <1>7, <1>8, <1>9, <1>10, <1>11 DEF CountInv

\* A store changes no size.
LEMMA WriteCount ==
    ASSUME MemInv, CountInv, MemInv', NEW h \in Handles, NEW d \in Contents, Write(h, d)
    PROVE  CountInv'
<1> DEFINE p == handles[h]
           n == Len(heap)
<1>0. /\ heap \in Seq(Block) /\ heap' \in Seq(Block) /\ n \in Nat /\ p \in 1 .. n
      /\ heap[p] \in Block /\ gc' = gc /\ gc.at = "waiting" /\ handles' = handles
      /\ heap' = [heap EXCEPT ![p].data = d]
  BY DEF Write, MemInv, HandleTableSound, MemTypeOK
<1>1. /\ Len(heap') = n
      /\ \A i \in 1 .. n : heap'[i].dirty = heap[i].dirty /\ heap'[i].size = heap[i].size
  BY <1>0 DEF Block
<1>2. Owned' = Owned /\ Dirty' = Dirty
  BY <1>0, <1>1 DEF Owned, Clean, Dirty
<1>3. Owned \in SUBSET (1 .. n) /\ Dirty \in SUBSET (1 .. n)
  BY DEF Owned, Clean, Dirty
<1>4. \A S \in SUBSET (1 .. n) : BytesOf(heap', S) = BytesOf(heap, S)
  BY <1>0, <1>1, SameBytes
<1>5. BytesOf(heap', Owned') = BytesOf(heap, Owned) /\ BytesOf(heap', Dirty') = BytesOf(heap, Dirty)
  BY <1>2, <1>3, <1>4
<1>6. Allocated' = Allocated
  BY <1>0 DEF Allocated
<1>7. usedSpace' = usedSpace /\ dirtySpace' = dirtySpace /\ handlesUsed' = handlesUsed
  BY DEF Write, counters
<1> QED
  BY <1>0, <1>5, <1>6, <1>7 DEF CountInv

\* The collector's pointers move over blocks that are not counted, or between ones that are.
LEMMA GcPointersCount ==
    ASSUME MemInv, CountInv, GcStart \/ GcSearch \/ GcSkipDirty
    PROVE  CountInv'
<1>0. /\ heap' = heap /\ Allocated' = Allocated /\ UNCHANGED counters
      /\ Dirty' = Dirty /\ Clean' = Clean
  BY DEF GcStart, GcSearch, GcSkipDirty, Allocated, Dirty, Clean
<1>1. /\ gc \in [at : GcState, dirty : Nat, clean : Nat] /\ Len(heap) \in Nat
      /\ usedSpace' = usedSpace /\ dirtySpace' = dirtySpace /\ handlesUsed' = handlesUsed
      /\ Clean \subseteq 1 .. Len(heap)
  BY <1>0 DEF MemInv, MemTypeOK, counters, Clean
<1>2. CASE GcStart
  <2>1. gc' = [at |-> "searching", dirty |-> 1, clean |-> 1] /\ gc.at = "waiting"
    BY <1>2 DEF GcStart
  <2>2. Owned' = Owned
    BY <1>0, <2>1 DEF Owned
  <2>3. \A i \in 1 .. gc'.dirty - 1 : ~heap'[i].dirty
    BY <2>1
  <2> QED
    BY <1>0, <1>1, <2>1, <2>2, <2>3 DEF CountInv
<1>3. CASE GcSearch
  <2>1. CASE gc.dirty <= Len(heap) /\ ~heap[gc.dirty].dirty
    <3>1. gc' = [gc EXCEPT !.dirty = @ + 1] /\ gc.at = "searching"
      BY <1>3, <2>1 DEF GcSearch
    <3>2. gc'.at = "searching" /\ gc'.dirty = gc.dirty + 1
      BY <1>1, <3>1
    <3>3. Owned' = Owned
      BY <1>0, <3>1, <3>2 DEF Owned
    <3>4. \A i \in 1 .. gc'.dirty - 1 : ~heap'[i].dirty
      <4>1. \A i \in 1 .. gc.dirty - 1 : ~heap[i].dirty
        BY <3>1 DEF CountInv
      <4>2. \A i \in 1 .. gc'.dirty - 1 : i \in 1 .. gc.dirty - 1 \/ i = gc.dirty
        BY <1>1, <3>2
      <4> QED
        BY <1>0, <2>1, <4>1, <4>2
    <3> QED
      BY <1>0, <1>1, <3>1, <3>2, <3>3, <3>4 DEF CountInv
  <2>2. CASE ~(gc.dirty <= Len(heap) /\ ~heap[gc.dirty].dirty)
    <3>1. gc' = [gc EXCEPT !.at = "moving", !.clean = gc.dirty] /\ gc.at = "searching"
      BY <1>3, <2>2 DEF GcSearch
    <3>2. gc'.at = "moving" /\ gc'.dirty = gc.dirty /\ gc'.clean = gc.dirty
      BY <1>1, <3>1
    <3>3. Owned' = Owned
      BY <1>0, <1>1, <3>1, <3>2 DEF Owned
    <3> QED
      BY <1>0, <1>1, <3>1, <3>2, <3>3 DEF CountInv
  <2> QED
    BY <2>1, <2>2
<1>4. CASE GcSkipDirty
  <2>1. gc' = [gc EXCEPT !.clean = @ + 1] /\ gc.at = "moving" /\ heap[gc.clean].dirty
    BY <1>4 DEF GcSkipDirty
  <2>2. gc'.at = "moving" /\ gc'.dirty = gc.dirty /\ gc'.clean = gc.clean + 1
    BY <1>1, <2>1
  <2>3. gc.clean \notin Clean
    BY <2>1 DEF Clean
  <2>4. Owned' = Owned
    BY <1>0, <1>1, <2>1, <2>2, <2>3 DEF Owned
  <2> QED
    BY <1>0, <1>1, <2>1, <2>2, <2>4 DEF CountInv
<1> QED
  BY <1>2, <1>3, <1>4

\* The next clean block is counted at the dirty pointer from now on.
LEMMA GcMoveCount ==
    ASSUME MemInv, CountInv, MemInv', GcMove
    PROVE  CountInv'
<1> DEFINE c == gc.clean
           t == gc.dirty
           n == Len(heap)
           h == heap[c].handle
<1>0. /\ gc \in [at : GcState, dirty : Nat, clean : Nat] /\ gc.at = "moving"
      /\ heap \in Seq(Block) /\ heap' \in Seq(Block) /\ n \in Nat
      /\ c \in 1 .. n /\ t \in 1 .. c /\ t \in 1 .. n /\ ~heap[c].dirty
      /\ heap' = [heap EXCEPT ![t] = heap[c]]
  <2>1. heap \in Seq(Block) /\ heap' \in Seq(Block) /\ n \in Nat
    BY DEF MemInv, MemTypeOK
  <2>2. gc \in [at : GcState, dirty : Nat, clean : Nat] /\ gc.at = "moving"
    BY DEF GcMove, MemInv, MemTypeOK
  <2>3. c \in 1 .. n /\ t \in 1 .. c /\ t \in 1 .. n
    BY <2>1, <2>2 DEF GcMove, MemInv, GcInv
  <2>4. ~heap[c].dirty /\ heap' = [heap EXCEPT ![t] = heap[c]]
    BY DEF GcMove
  <2> QED
    BY <2>1, <2>2, <2>3, <2>4
<1>1. /\ Len(heap') = n /\ heap'[t] = heap[c] /\ \A i \in 1 .. n : i # t => heap'[i] = heap[i]
      /\ gc'.at = "moving" /\ gc'.dirty = t + 1 /\ gc'.clean = c + 1
  BY <1>0 DEF GcMove
<1> DEFINE S == Owned \ {c}
<1>2. /\ S \in SUBSET (1 .. n) /\ c \notin S /\ t \notin S /\ Owned = S \cup {c}
  BY <1>0 DEF Owned, Clean
<1>3. Owned' = S \cup {t}
  <2>1. \A i \in 1 .. n : i \in Clean' <=> (i = t \/ i \in Clean)
    BY <1>0, <1>1 DEF Clean
  <2>2. Clean' \subseteq 1 .. n /\ Clean \subseteq 1 .. n
    BY <1>1 DEF Clean
  <2> QED
    BY <1>0, <1>1, <2>1, <2>2 DEF Owned
<1>4. BytesOf(heap', S) = BytesOf(heap, S)
  <2>1. \A i \in S : heap'[i].size = heap[i].size
    BY <1>1, <1>2
  <2> HIDE DEF S
  <2> QED
    BY <1>0, <1>1, <1>2, <2>1, SameBytes
<1>5. BytesOf(heap, Owned) = BytesOf(heap, S) + BlockSize(heap[c])
  <2> HIDE DEF S, c
  <2> QED
    BY <1>0, <1>2, MoreBytes
<1>6. BytesOf(heap', Owned') = BytesOf(heap', S) + BlockSize(heap'[t])
  <2> HIDE DEF S
  <2>1. t \in 1 .. Len(heap') /\ S \in SUBSET (1 .. Len(heap'))
    BY <1>0, <1>1, <1>2
  <2> QED
    BY <1>0, <1>2, <1>3, <2>1, MoreBytes
<1>7. BytesOf(heap', Owned') = BytesOf(heap, Owned)
  BY <1>1, <1>4, <1>5, <1>6
<1>8. Allocated' = Allocated
  <2>1. handles \in [Handles -> Nat] /\ handles' = [handles EXCEPT ![h] = t]
    BY DEF GcMove, Retargeted, MemInv, MemTypeOK
  <2>2. handles[h] = c
    BY <1>0 DEF MemInv, GcInv
  <2> QED
    BY <1>0, <2>1, <2>2 DEF Allocated
<1>9. \A i \in 1 .. gc'.dirty - 1 : ~heap'[i].dirty
  <2>1. \A i \in 1 .. t - 1 : ~heap[i].dirty
    BY <1>0 DEF CountInv
  <2>2. \A i \in 1 .. gc'.dirty - 1 : i = t \/ (i \in 1 .. t - 1 /\ i \in 1 .. n /\ i # t)
    BY <1>0, <1>1
  <2> QED
    BY <1>0, <1>1, <2>1, <2>2
<1>10. usedSpace' = usedSpace /\ handlesUsed' = handlesUsed
  BY DEF GcMove, counters
<1> QED
  BY <1>1, <1>7, <1>8, <1>9, <1>10 DEF CountInv

\* After a collection every block that is left is clean and counted.
LEMMA GcDoneCount ==
    ASSUME MemInv, CountInv, MemInv', GcDone
    PROVE  CountInv'
<1> DEFINE t == gc.dirty
           n == Len(heap)
<1>0. /\ gc \in [at : GcState, dirty : Nat, clean : Nat] /\ gc.at = "moving"
      /\ heap \in Seq(Block) /\ heap' \in Seq(Block) /\ n \in Nat /\ t \in 1 .. n + 1
      /\ gc.clean = n + 1 /\ handles' = handles /\ gc'.at = "waiting"
      /\ heap' = SubSeq(heap, 1, t - 1)
  <2>1. gc \in [at : GcState, dirty : Nat, clean : Nat] /\ heap \in Seq(Block)
    BY DEF MemInv, MemTypeOK
  <2>2. heap' \in Seq(Block)
    BY DEF MemInv, MemTypeOK
  <2>3. /\ gc.at = "moving" /\ gc.clean > n /\ handles' = handles
        /\ gc'.at = "waiting" /\ heap' = SubSeq(heap, 1, t - 1)
    BY <2>1 DEF GcDone
  <2>4. n \in Nat /\ t \in 1 .. n + 1 /\ gc.clean = n + 1
    BY <2>1, <2>3 DEF MemInv, GcInv
  <2> QED BY <2>1, <2>2, <2>3, <2>4
<1>1. Len(heap') = t - 1 /\ \A i \in 1 .. t - 1 : heap'[i] = heap[i]
  BY <1>0
<1>2. \A i \in 1 .. t - 1 : ~heap[i].dirty
  BY <1>0 DEF CountInv
<1>3. Owned = 1 .. t - 1
  <2>1. \A i \in 1 .. n : i \in Owned <=> i \in 1 .. t - 1
    BY <1>0, <1>2 DEF Owned, Clean
  <2>2. Owned \subseteq 1 .. n /\ 1 .. t - 1 \subseteq 1 .. n
    BY <1>0 DEF Owned, Clean
  <2> QED
    BY <2>1, <2>2
<1>4. Owned' = 1 .. t - 1 /\ Dirty' = {}
  BY <1>0, <1>1, <1>2 DEF Owned, Clean, Dirty
<1>5. BytesOf(heap', Owned') = BytesOf(heap, Owned) /\ BytesOf(heap', Dirty') = 0
  <2>1. 1 .. t - 1 \in SUBSET (1 .. Len(heap')) /\ 1 .. t - 1 \subseteq 1 .. Len(heap)
    BY <1>0, <1>1
  <2>2. \A i \in 1 .. t - 1 : heap'[i].size = heap[i].size
    BY <1>1
  <2>3. BytesOf(heap', 1 .. t - 1) = BytesOf(heap, 1 .. t - 1)
    BY <1>0, <2>1, <2>2, SameBytes
  <2> QED
    BY <1>0, <1>3, <1>4, <2>3, NoBytes
<1>6. Allocated' = Allocated
  BY <1>0 DEF Allocated
<1>7. usedSpace' = usedSpace /\ dirtySpace' = 0 /\ handlesUsed' = handlesUsed
  BY DEF GcDone, DirtyAfterGc
<1> QED
  BY <1>0, <1>5, <1>6, <1>7 DEF CountInv

\* Every step keeps the counters in agreement with the heap.
LEMMA NextCount == ASSUME MemInv, CountInv, [MemNext]_memVars PROVE CountInv'
<1>1. MemInv'
  BY NextInv
<1>2. ASSUME (\E size \in Sizes : AllocFails(size)) \/ UNCHANGED memVars PROVE CountInv'
  <2>1. UNCHANGED <<heap, handles, counters, gc>>
    BY <1>2 DEF AllocFails, memVars
  <2> QED
    BY <2>1 DEF CountInv, Owned, Dirty, Clean, Allocated, counters
<1> QED
  BY <1>1, <1>2, AllocCount, WriteCount, FreeCount, GcPointersCount, GcMoveCount, GcDoneCount
  DEF MemNext, Gc

\* Whatever was allocated, released and collected, used_space and dirty_space are the bytes of
\* the clean and the dirty blocks that lie in the heap, and handles_used is the number of
\* handles that lead to one (memory.c 290-421, 538-624).
THEOREM CountersAgreeAlways == MemSpec => []CountersAgree
<1>1. MemInv /\ CountInv => CountersAgree
  <2> SUFFICES ASSUME CountInv, gc.at = "waiting" PROVE CountersAgree
    BY DEF CountersAgree
  <2>1. Owned = Clean
    BY DEF Owned
  <2> QED
    BY <2>1 DEF CountInv, CountersAgree
<1>2. MemInit => MemInv /\ CountInv
  BY InitInv, InitCount
<1>3. MemInv /\ CountInv /\ [MemNext]_memVars => (MemInv /\ CountInv)'
  BY NextInv, NextCount
<1> QED
  BY <1>1, <1>2, <1>3, PTL DEF MemSpec
=============================================================================
