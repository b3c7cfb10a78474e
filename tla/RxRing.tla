------------------------------- MODULE RxRing -------------------------------
(***************************************************************************)
(* The radio's ring of received frames (src/src/at86rf230.c).              *)
(*                                                                         *)
(* The receive-end interrupt stores a frame in the slot at rx_ins; the     *)
(* receive thread takes the number of stored frames as a batch, resets it, *)
(* and hands the slots of the batch over to the MAC one by one.  The two   *)
(* share rx_frames and the lengths of the slots, and each keeps an index   *)
(* of its own.                                                             *)
(*                                                                         *)
(* A stored frame is its arrival number; Empty stands for len = 0 (a       *)
(* received frame has at least its frame control field and checksum).      *)
(***************************************************************************)
EXTENDS Integers

CONSTANTS
    RingSize,   \* RF_RX_BUFFER_SIZE
    MaxFrames   \* bound: how many frames are numbered before the numbers start over

ASSUME RingAssumption == RingSize \in Nat \ {0} /\ MaxFrames \in Nat

VARIABLES
    slots,      \* rx_buffer
    rxFrames,   \* rx_frames
    rxIns,      \* rx_ins
    rxExt,      \* rx_ext
    toProcess,  \* frames_to_process of the receive thread
    rxAt,       \* where the receive thread is in its loop over the batch
    stored,     \* history: the number of the last frame the interrupt stored
    overruns,   \* STAT_RF_RECEIVE_OVERRUNS is not zero
    handed,     \* history: the last frame given to the MAC
    inOrder     \* history: every frame given to it followed the one before

ringVars == <<slots, rxFrames, rxIns, rxExt, toProcess, rxAt, stored, overruns, handed, inOrder>>

Slots == 0 .. RingSize - 1
Empty == 0
Frames == 1 .. MaxFrames

RingTypeOK ==
    /\ slots \in [Slots -> Frames \cup {Empty}]
    /\ rxFrames \in 0 .. RingSize
    /\ rxIns \in Slots /\ rxExt \in Slots
    /\ toProcess \in 0 .. RingSize
    /\ rxAt \in {"take", "process", "clear", "advance"}
    /\ stored \in 0 .. MaxFrames
    /\ overruns \in BOOLEAN
    /\ handed \in 0 .. MaxFrames
    /\ inOrder \in BOOLEAN

RingInit ==
    /\ slots = [s \in Slots |-> Empty]
    /\ rxFrames = 0 /\ rxIns = 0 /\ rxExt = 0
    /\ toProcess = 0 /\ rxAt = "take"
    /\ stored = 0 /\ overruns = FALSE
    /\ handed = 0 /\ inOrder = TRUE

\* An index moves to the next slot and wraps at the end of the buffer.
NextSlot(s) == IF s + 1 >= RingSize THEN 0 ELSE s + 1

\* Mutant: the interrupt trusts rx_frames alone, which the receive thread has
\* already reset for the batch it is still working on.
HasSlot_CountOnly == rxFrames < RingSize
\* The interrupt finds a free slot.
HasSlot == slots[rxIns] = Empty /\ rxFrames < RingSize

\* TRX24_RX_END_vect, a frame that fits.
StoreFrame ==
    /\ HasSlot
    /\ stored < MaxFrames
    /\ slots' = [slots EXCEPT ![rxIns] = stored + 1]
    /\ rxFrames' = rxFrames + 1
    /\ rxIns' = NextSlot(rxIns)
    /\ stored' = stored + 1
    /\ UNCHANGED <<rxExt, toProcess, rxAt, overruns, handed, inOrder>>

\* TRX24_RX_END_vect, receive overrun: the frame is dropped.
Overrun ==
    /\ ~HasSlot
    /\ overruns' = TRUE
    /\ UNCHANGED <<slots, rxFrames, rxIns, rxExt, toProcess, rxAt, stored, handed, inOrder>>

\* Mutant: the thread processes one frame and clears the count of all.
TakeBatch_OneByOne ==
    /\ rxAt = "take"
    /\ toProcess' = IF rxFrames > 0 THEN 1 ELSE 0
    /\ rxFrames' = 0
    /\ rxAt' = "process"
    /\ UNCHANGED <<slots, rxIns, rxExt, stored, overruns, handed, inOrder>>
\* receive_thread, the critical section that clears the frame count.
TakeBatch ==
    /\ rxAt = "take"
    /\ toProcess' = rxFrames
    /\ rxFrames' = 0
    /\ rxAt' = "process"
    /\ UNCHANGED <<slots, rxIns, rxExt, stored, overruns, handed, inOrder>>

\* receive_thread: send the frame to the MAC.
HandOver ==
    /\ rxAt = "process"
    /\ toProcess > 0
    /\ toProcess' = toProcess - 1
    /\ handed' = slots[rxExt]
    /\ inOrder' = (inOrder /\ slots[rxExt] = handed + 1)
    /\ rxAt' = "clear"
    /\ UNCHANGED <<slots, rxFrames, rxIns, rxExt, stored, overruns>>

\* receive_thread: clear the buffer.
ClearSlot ==
    /\ rxAt = "clear"
    /\ slots' = [slots EXCEPT ![rxExt] = Empty]
    /\ rxAt' = "advance"
    /\ UNCHANGED <<rxFrames, rxIns, rxExt, toProcess, stored, overruns, handed, inOrder>>

NextExt == NextSlot(rxExt)

\* receive_thread: advance the pointer.
AdvanceExt ==
    /\ rxAt = "advance"
    /\ rxExt' = NextExt
    /\ rxAt' = "process"
    /\ UNCHANGED <<slots, rxFrames, rxIns, toProcess, stored, overruns, handed, inOrder>>

\* receive_thread: the batch is done.
BatchDone ==
    /\ rxAt = "process"
    /\ toProcess = 0
    /\ rxAt' = "take"
    /\ UNCHANGED <<slots, rxFrames, rxIns, rxExt, toProcess, stored, overruns, handed, inOrder>>

\* Frames in the ring: stored and not yet cleared.
InFlight == stored - handed + (IF rxAt = "clear" THEN 1 ELSE 0)

\* No step of the program: the numbers of the frames start over when the ring is
\* empty, so that frames never stop coming.
NumberAgain ==
    /\ stored = MaxFrames /\ InFlight = 0
    /\ stored' = 0 /\ handed' = 0
    /\ UNCHANGED <<slots, rxFrames, rxIns, rxExt, toProcess, rxAt, overruns, inOrder>>

RingNext ==
    \/ StoreFrame \/ Overrun \/ NumberAgain
    \/ TakeBatch \/ HandOver \/ ClearSlot \/ AdvanceExt \/ BatchDone

RingSpec == RingInit /\ [][RingNext]_ringVars

-----------------------------------------------------------------------------
(* Properties *)

\* The MAC gets every stored frame exactly once and in the order of arrival,
\* although the count is reset (line 630) before the slots are emptied and the
\* interrupt goes on storing in between: no slot that still waits is overwritten,
\* none is skipped and none is handed over empty.
FramesInOrder == inOrder

\* The slot of the oldest frame in the ring, and how far behind it a slot is.
Oldest == IF rxAt = "advance" THEN NextSlot(rxExt) ELSE rxExt
Behind(s) == IF s >= Oldest THEN s - Oldest ELSE s + RingSize - Oldest

\* The slots from the oldest one on hold, in order, the frames that wait;
\* rx_frames and frames_to_process count them; the rest is empty and starts at
\* rx_ins.
RingInv ==
    /\ inOrder
    /\ stored - handed = rxFrames + toProcess
    /\ InFlight \in 0 .. RingSize
    /\ \A s \in Slots :
          slots[s] = IF Behind(s) < InFlight THEN stored - InFlight + 1 + Behind(s) ELSE Empty
    /\ rxIns = IF Oldest + InFlight >= RingSize THEN Oldest + InFlight - RingSize
                                                ELSE Oldest + InFlight
    /\ rxAt = "take" => toProcess = 0
    /\ rxAt = "clear" => handed > 0

\* Nothing that was stored is forgotten: whatever the thread has not taken is
\* counted in rx_frames, so that its next batch takes it.
NothingForgotten == rxAt = "take" => rxFrames = stored - handed

\* What the MAC may rely on: nothing is skipped, repeated, reordered or forgotten.
RingSound == FramesInOrder /\ NothingForgotten
=============================================================================
