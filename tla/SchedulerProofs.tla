--------------------------- MODULE SchedulerProofs ---------------------------
(***************************************************************************)
(* The ring of received frames works for every size of the ring and any    *)
(* number of frames: whatever the interrupt does while the receive thread  *)
(* is between resetting the count and emptying the slots, every stored     *)
(* frame reaches the MAC once and in order.  The inductive invariant says  *)
(* which frame is in which slot (RingInv).                                 *)
(*                                                                         *)
(* The scheduler implements the ring, and forgets no work, for every       *)
(* number of threads: although the interrupt may hit between the load and  *)
(* the store of any change of flags.  SchedInv says up to where the pass   *)
(* over the list has come, and what the flag that lets the processor sleep *)
(* says about the threads behind that place.                               *)
(***************************************************************************)
EXTENDS Scheduler, FiniteSetTheorems, TLAPS

USE RingAssumption DEF Slots, Frames, Empty

-----------------------------------------------------------------------------
(* The ring *)

RingIInv == RingTypeOK /\ RingInv

\* The ring starts empty.
LEMMA RingInitInv == ASSUME RingInit PROVE RingIInv
<1>1. RingTypeOK
  <2>1. overruns \in BOOLEAN /\ inOrder \in BOOLEAN
    BY DEF RingInit
  <2>2. slots \in [Slots -> Frames \cup {Empty}]
    BY DEF RingInit
  <2>3. /\ rxFrames \in 0 .. RingSize /\ rxIns \in Slots /\ rxExt \in Slots
        /\ toProcess \in 0 .. RingSize /\ stored \in 0 .. MaxFrames /\ handed \in 0 .. MaxFrames
    BY DEF RingInit
  <2> QED
    BY <2>1, <2>2, <2>3 DEF RingInit, RingTypeOK
<1>2. InFlight = 0 /\ Oldest = 0
  BY DEF RingInit, InFlight, Oldest
<1>3. \A s \in Slots : Behind(s) = s
  BY <1>2 DEF Behind
<1>4. RingInv
  <2>1. \A s \in Slots :
           slots[s] = IF Behind(s) < InFlight THEN stored - InFlight + 1 + Behind(s) ELSE Empty
    BY <1>2, <1>3 DEF RingInit
  <2>2. rxIns = IF Oldest + InFlight >= RingSize THEN Oldest + InFlight - RingSize
                                                 ELSE Oldest + InFlight
    BY <1>2 DEF RingInit
  <2> QED
    BY <1>2, <2>1, <2>2 DEF RingInit, RingInv
<1> QED
  BY <1>1, <1>4 DEF RingIInv

\* The interrupt stores into the slot that follows the youngest frame.
LEMMA StoreInv == ASSUME RingIInv, StoreFrame PROVE RingIInv'
<1> DEFINE n == InFlight
           o == Oldest
<1>0. /\ rxIns \in Slots /\ rxExt \in Slots /\ slots \in [Slots -> Frames \cup {Empty}]
      /\ stored \in Nat /\ stored < MaxFrames /\ rxFrames \in Nat /\ rxFrames < RingSize
      /\ toProcess \in Nat /\ handed \in Nat /\ n \in 0 .. RingSize
  BY DEF RingIInv, RingTypeOK, RingInv, StoreFrame, HasSlot
<1>1. /\ slots' = [slots EXCEPT ![rxIns] = stored + 1] /\ slots[rxIns] = Empty
      /\ rxFrames' = rxFrames + 1 /\ rxIns' = NextSlot(rxIns) /\ stored' = stored + 1
      /\ rxExt' = rxExt /\ toProcess' = toProcess /\ rxAt' = rxAt /\ handed' = handed /\ inOrder' = inOrder
      /\ overruns' = overruns
  BY DEF StoreFrame, HasSlot
<1>2. o \in Slots /\ Oldest' = o
  BY <1>0, <1>1 DEF Oldest, NextSlot
<1>3. \A s \in Slots : Behind(s) \in 0 .. RingSize - 1 /\ Behind(s)' = Behind(s)
  BY <1>2 DEF Behind
<1>4. rxIns = IF o + n >= RingSize THEN o + n - RingSize ELSE o + n
  BY DEF RingIInv, RingInv
<1>5. n # RingSize
  <2>1. SUFFICES ASSUME n = RingSize PROVE FALSE
    OBVIOUS
  <2>2. rxIns = o
    BY <1>2, <1>4, <2>1
  <2>3. Behind(rxIns) = 0
    BY <1>2, <2>2 DEF Behind
  <2>4. slots[rxIns] = stored - n + 1 + 0
    BY <1>0, <2>1, <2>3 DEF RingIInv, RingInv
  <2>5. stored - n >= 0
    BY <1>0 DEF InFlight, RingIInv, RingInv, RingTypeOK
  <2> QED
    BY <1>0, <1>1, <2>4, <2>5
<1>6. Behind(rxIns) = n
  BY <1>0, <1>2, <1>4, <1>5 DEF Behind
<1>7. \A s \in Slots : s # rxIns => Behind(s) # n
  BY <1>0, <1>2, <1>4, <1>5 DEF Behind
<1>8. InFlight' = n + 1
  BY <1>0, <1>1 DEF InFlight
<1>9. RingTypeOK'
  BY <1>0, <1>1 DEF RingIInv, RingTypeOK, NextSlot
<1>10. ASSUME NEW s \in Slots
       PROVE  slots'[s] = IF Behind(s)' < InFlight'
                          THEN stored' - InFlight' + 1 + Behind(s)' ELSE Empty
  <2>1. slots[s] = IF Behind(s) < n THEN stored - n + 1 + Behind(s) ELSE Empty
    BY DEF RingIInv, RingInv
  <2>2. CASE s = rxIns
    <3>1. slots'[s] = stored + 1 /\ Behind(s)' = n
      BY <1>0, <1>1, <1>3, <1>6, <2>2
    <3>2. stored' - InFlight' + 1 + n = stored + 1
      BY <1>0, <1>1, <1>8
    <3> QED
      BY <1>0, <1>8, <3>1, <3>2
  <2>3. CASE s # rxIns
    <3>1. slots'[s] = slots[s] /\ Behind(s) # n
      BY <1>0, <1>1, <1>7, <2>3
    <3>2. Behind(s)' = Behind(s) /\ Behind(s) \in Int
      BY <1>3
    <3>3. stored' - InFlight' = stored - n
      BY <1>0, <1>1, <1>8
    <3>4. Behind(s) < n + 1 <=> Behind(s) < n
      BY <1>0, <3>1, <3>2
    <3> QED
      BY <1>8, <2>1, <3>1, <3>2, <3>3, <3>4
  <2> QED
    BY <2>2, <2>3
<1>11. rxIns' = IF Oldest' + InFlight' >= RingSize THEN Oldest' + InFlight' - RingSize
                                                  ELSE Oldest' + InFlight'
  BY <1>0, <1>1, <1>2, <1>4, <1>5, <1>8 DEF NextSlot
<1>12. inOrder' /\ stored' - handed' = rxFrames' + toProcess'
       /\ InFlight' \in 0 .. RingSize /\ (rxAt' = "take" => toProcess' = 0)
       /\ (rxAt' = "clear" => handed' > 0)
  BY <1>0, <1>1, <1>5, <1>8 DEF RingIInv, RingInv
<1>13. RingInv'
  BY <1>10, <1>11, <1>12 DEF RingInv
<1> QED
  BY <1>9, <1>13 DEF RingIInv

\* The steps of the thread that leave the slots and the oldest frame alone.
LEMMA BatchInv == ASSUME RingIInv, Overrun \/ TakeBatch \/ BatchDone PROVE RingIInv'
<1>1. /\ slots' = slots /\ rxIns' = rxIns /\ rxExt' = rxExt /\ stored' = stored
      /\ handed' = handed /\ inOrder' = inOrder /\ InFlight' = InFlight /\ Oldest' = Oldest
      /\ rxFrames' + toProcess' = rxFrames + toProcess
  <2>0. rxFrames \in Nat /\ toProcess \in Nat /\ (rxAt = "take" => toProcess = 0)
    BY DEF RingIInv, RingInv, RingTypeOK
  <2>1. CASE Overrun
    BY <2>1 DEF Overrun, InFlight, Oldest
  <2>2. CASE TakeBatch
    BY <2>0, <2>2 DEF TakeBatch, InFlight, Oldest
  <2>3. CASE BatchDone
    BY <2>3 DEF BatchDone, InFlight, Oldest
  <2> QED
    BY <2>1, <2>2, <2>3
<1>2. \A s \in Slots : Behind(s)' = Behind(s)
  BY <1>1 DEF Behind
<1>3. RingTypeOK'
  <2>1. CASE Overrun
    BY <2>1 DEF Overrun, RingIInv, RingTypeOK
  <2>2. CASE TakeBatch
    BY <2>2 DEF TakeBatch, RingIInv, RingTypeOK
  <2>3. CASE BatchDone
    BY <2>3 DEF BatchDone, RingIInv, RingTypeOK
  <2> QED
    BY <2>1, <2>2, <2>3
<1>4. (rxAt' = "take" => toProcess' = 0) /\ (rxAt' = "clear" => handed' > 0)
  BY DEF Overrun, TakeBatch, BatchDone, RingIInv, RingInv
<1> QED
  BY <1>1, <1>2, <1>3, <1>4 DEF RingIInv, RingInv

\* The slot at rx_ext holds the frame that follows the last one handed over.
LEMMA HandOverInv == ASSUME RingIInv, HandOver PROVE RingIInv'
<1>0. /\ rxExt \in Slots /\ stored \in Nat /\ handed \in Nat /\ toProcess \in Nat \ {0}
      /\ rxFrames \in Nat /\ rxAt = "process" /\ stored - handed = rxFrames + toProcess
      /\ inOrder = TRUE /\ stored <= MaxFrames
  BY DEF HandOver, RingIInv, RingTypeOK, RingInv
<1>1. Oldest = rxExt /\ Behind(rxExt) = 0 /\ InFlight = stored - handed
  BY <1>0 DEF Oldest, Behind, InFlight
<1>2. slots[rxExt] = stored - InFlight + 1 + 0
  BY <1>0, <1>1 DEF RingIInv, RingInv
<1>3. slots[rxExt] = handed + 1
  BY <1>0, <1>1, <1>2
<1>4. /\ handed' = handed + 1 /\ inOrder' = TRUE
      /\ toProcess' = toProcess - 1 /\ rxAt' = "clear"
      /\ slots' = slots /\ rxIns' = rxIns /\ rxExt' = rxExt /\ stored' = stored
      /\ rxFrames' = rxFrames /\ overruns' = overruns
  BY <1>0, <1>3 DEF HandOver
<1>5. Oldest' = Oldest /\ InFlight' = InFlight
  BY <1>0, <1>1, <1>4 DEF Oldest, InFlight
<1>6. \A s \in Slots : Behind(s)' = Behind(s)
  BY <1>4, <1>5 DEF Behind
<1>7. RingTypeOK'
  BY <1>0, <1>4 DEF RingIInv, RingTypeOK
<1> QED
  BY <1>0, <1>4, <1>5, <1>6, <1>7 DEF RingIInv, RingInv

\* Emptying the slot makes the next one the oldest.
LEMMA ClearInv == ASSUME RingIInv, ClearSlot PROVE RingIInv'
<1> DEFINE n == InFlight
<1>0. /\ rxExt \in Slots /\ stored \in Nat /\ handed \in Nat /\ toProcess \in Nat
      /\ rxFrames \in Nat /\ rxAt = "clear" /\ stored - handed = rxFrames + toProcess
      /\ n \in 0 .. RingSize /\ slots \in [Slots -> Frames \cup {Empty}]
      /\ n = stored - handed + 1 /\ Oldest = rxExt
      /\ rxIns = IF rxExt + n >= RingSize THEN rxExt + n - RingSize ELSE rxExt + n
  BY DEF ClearSlot, RingIInv, RingTypeOK, RingInv, InFlight, Oldest
<1>1. /\ slots' = [slots EXCEPT ![rxExt] = Empty] /\ rxAt' = "advance"
      /\ rxFrames' = rxFrames /\ rxIns' = rxIns /\ rxExt' = rxExt /\ toProcess' = toProcess
      /\ stored' = stored /\ handed' = handed /\ inOrder' = inOrder /\ overruns' = overruns
  BY DEF ClearSlot
<1>2. n >= 1 /\ InFlight' = n - 1 /\ Oldest' = NextSlot(rxExt)
  BY <1>0, <1>1 DEF InFlight, Oldest
<1>3. Behind(rxExt)' = RingSize - 1
  BY <1>0, <1>1, <1>2 DEF Behind, NextSlot
<1>4. \A s \in Slots : s # rxExt => Behind(s)' = Behind(s) - 1 /\ Behind(s) \in 1 .. RingSize - 1
  BY <1>0, <1>1, <1>2 DEF Behind, NextSlot
<1>5. RingTypeOK'
  BY <1>0, <1>1 DEF RingIInv, RingTypeOK
<1>6. ASSUME NEW s \in Slots
      PROVE  slots'[s] = IF Behind(s)' < InFlight'
                         THEN stored' - InFlight' + 1 + Behind(s)' ELSE Empty
  <2>1. slots[s] = IF Behind(s) < n THEN stored - n + 1 + Behind(s) ELSE Empty
    BY DEF RingIInv, RingInv
  <2>2. CASE s = rxExt
    BY <1>0, <1>1, <1>2, <1>3, <2>2
  <2>3. CASE s # rxExt
    BY <1>0, <1>1, <1>2, <1>4, <2>1, <2>3
  <2> QED
    BY <2>2, <2>3
<1>7. rxIns' = IF Oldest' + InFlight' >= RingSize THEN Oldest' + InFlight' - RingSize
                                                 ELSE Oldest' + InFlight'
  BY <1>0, <1>1, <1>2 DEF NextSlot
<1>8. inOrder' /\ stored' - handed' = rxFrames' + toProcess'
      /\ InFlight' \in 0 .. RingSize /\ (rxAt' = "take" => toProcess' = 0)
  BY <1>0, <1>1, <1>2 DEF RingIInv, RingInv
<1>9. rxAt' # "clear"
  BY <1>1
<1> QED
  BY <1>5, <1>6, <1>7, <1>8, <1>9 DEF RingIInv, RingInv

\* rx_ext moves on to the slot that is already the oldest one.
LEMMA AdvanceInv == ASSUME RingIInv, AdvanceExt PROVE RingIInv'
<1>1. /\ slots' = slots /\ rxIns' = rxIns /\ stored' = stored /\ handed' = handed /\ inOrder' = inOrder
      /\ rxFrames' = rxFrames /\ toProcess' = toProcess /\ rxAt' = "process"
      /\ rxExt' = NextSlot(rxExt) /\ rxAt = "advance" /\ overruns' = overruns
  BY DEF AdvanceExt, NextExt
<1>2. Oldest' = Oldest /\ InFlight' = InFlight
  BY <1>1 DEF Oldest, InFlight
<1>3. \A s \in Slots : Behind(s)' = Behind(s)
  BY <1>2 DEF Behind
<1>4. RingTypeOK'
  BY <1>1 DEF RingIInv, RingTypeOK, NextSlot
<1>5. RingInv'
  BY <1>1, <1>2, <1>3 DEF RingIInv, RingInv
<1> QED
  BY <1>4, <1>5 DEF RingIInv

\* New numbers for an empty ring: all its slots are empty before and after.
LEMMA NumberInv == ASSUME RingIInv, NumberAgain PROVE RingIInv'
<1>1. /\ slots' = slots /\ rxIns' = rxIns /\ rxExt' = rxExt /\ rxFrames' = rxFrames
      /\ toProcess' = toProcess /\ rxAt' = rxAt /\ overruns' = overruns /\ inOrder' = inOrder
      /\ stored' = 0 /\ handed' = 0 /\ InFlight = 0
  BY DEF NumberAgain
<1>2. /\ rxFrames \in Nat /\ toProcess \in Nat /\ stored \in Nat /\ handed \in Nat
      /\ stored - handed = rxFrames + toProcess /\ rxExt \in Slots
  BY DEF RingIInv, RingTypeOK, RingInv
<1>3. rxAt # "clear" /\ rxFrames = 0 /\ toProcess = 0
  BY <1>1, <1>2 DEF InFlight
<1>4. InFlight' = 0 /\ Oldest' = Oldest
  BY <1>1, <1>3 DEF InFlight, Oldest
<1>5. \A s \in Slots : Behind(s)' = Behind(s) /\ Behind(s) \in Nat
  BY <1>2, <1>4 DEF Behind, Oldest, NextSlot
<1>6. RingTypeOK'
  BY <1>1 DEF RingIInv, RingTypeOK
<1>7. \A s \in Slots : ~(Behind(s) < InFlight) /\ ~(Behind(s) < InFlight)'
  BY <1>1, <1>4, <1>5
<1>8. \A s \in Slots : slots[s] = Empty
  BY <1>7 DEF RingIInv, RingInv
<1>9. RingInv'
  <2>1. \A s \in Slots : (slots[s] = IF Behind(s) < InFlight THEN stored - InFlight + 1 + Behind(s)
                                     ELSE Empty)'
    BY <1>1, <1>7, <1>8
  <2> QED
    BY <1>1, <1>2, <1>3, <1>4, <2>1 DEF RingIInv, RingInv
<1> QED
  BY <1>6, <1>9 DEF RingIInv

\* Every step preserves the invariant.
LEMMA RingNextInv == ASSUME RingIInv, [RingNext]_ringVars PROVE RingIInv'
<1>1. CASE UNCHANGED ringVars
  BY <1>1 DEF ringVars, RingIInv, RingTypeOK, RingInv, InFlight, Behind, Oldest
<1> QED
  BY <1>1, StoreInv, BatchInv, HandOverInv, ClearInv, AdvanceInv, NumberInv DEF RingNext

\* For every ring size and every number of frames the MAC gets the stored frames
\* once each and in order of arrival (at86rf230.c 617-694).
THEOREM RingDeliversInOrder == RingSpec => []FramesInOrder
<1>1. RingIInv => FramesInOrder
  BY DEF RingIInv, RingInv, FramesInOrder
<1> QED
  BY <1>1, RingInitInv, RingNextInv, PTL DEF RingSpec

\* A frame the receive thread has not taken yet is in the count it will take next
\* (at86rf230.c 629-630, 679).
THEOREM RingForgetsNothing == RingSpec => []NothingForgotten
<1>1. RingIInv => NothingForgotten
  BY DEF RingIInv, RingInv, RingTypeOK, NothingForgotten
<1> QED
  BY <1>1, RingInitInv, RingNextInv, PTL DEF RingSpec

\* Both of the above, for every ring size (at86rf230.c 617-694).
THEOREM RingIsSound == RingSpec => []RingSound
<1> QED
  BY RingDeliversInOrder, RingForgetsNothing, PTL DEF RingSound

-----------------------------------------------------------------------------
(* The scheduler *)

\* The list of threads is 1 .. Last.
LEMMA Sizes ==
  /\ Last \in Nat /\ Threads = 1 .. Last
  /\ Receiver \in Threads /\ EarlyYields \subseteq Threads \ {Receiver}
BY SchedulerAssumption, FS_CardinalityType DEF Last

SInv == SchedTypeOK /\ SchedInv

\* Where the two loops over the list are.
LEMMA InTheList ==
  ASSUME SInv
  PROVE  /\ pos \in 1 .. Last + 1 /\ sigPos \in 1 .. Last + 1
         /\ pc \notin AtRest => pos \in Threads
         /\ pc \in {"idle", "sleep", "asleep"} => pos = Last + 1
         /\ pc \in Running => Current \in Threads
<1>1. pos \in 1 .. Last + 1 /\ sigPos \in 1 .. Last + 1 /\ caller \in {"scan", "signal"}
  BY DEF SInv, SchedTypeOK
<1>2. PositionsSound
  BY DEF SInv, SchedInv
<1> QED
  BY <1>1, <1>2, Sizes DEF PositionsSound, AtRest, Running, Current

\* The steps that leave the threads as they are, and those that also leave the flags.
Quiet ==
    \/ CheckSignal \/ Skip \/ CheckIdle \/ Sleep \/ TimerTick \/ NextSignalled \/ BodyActive
    \/ Return \/ RxTake \/ RxProcess \/ RxDone \/ RxOverrun \/ NumberFrames
Stores == StartPass \/ ClearSignalFlag \/ EnterThread \/ SetActive

LEMMA QuietStep ==
  ASSUME Quiet
  PROVE  /\ flags' = flags /\ copy' = copy /\ threadFlags' = threadFlags
         /\ resumeAt' = resumeAt /\ signalled' = signalled /\ caller' = caller
BY DEF Quiet, CheckSignal, Skip, CheckIdle, Sleep, TimerTick, NextSignalled, BodyActive, Return,
       RxTake, RxProcess, RxDone, RxOverrun, NumberFrames, schedVars

LEMMA StoresStep ==
  ASSUME Stores, copy \in SUBSET Flags \/ copy = NoCopy
  PROVE  /\ flags' \in SUBSET Flags /\ copy' = NoCopy
         /\ pc # "pass" => ("SLEEP" \in flags' => "SLEEP" \in copy)
         /\ threadFlags' = threadFlags /\ resumeAt' = resumeAt
         /\ signalled' = signalled /\ caller' = caller
<1>1. copy # NoCopy => copy \in SUBSET Flags
  OBVIOUS
<1>2. CASE StartPass
  BY <1>1, <1>2 DEF StartPass, CanStore, StoreFlags, Loaded, Flags
<1>3. CASE ClearSignalFlag
  BY <1>1, <1>3 DEF ClearSignalFlag, CanStore, StoreFlags, Loaded
<1>4. CASE EnterThread
  BY <1>1, <1>4 DEF EnterThread, CanStore, StoreFlags, Loaded
<1>5. CASE SetActive
  BY <1>1, <1>5 DEF SetActive, CanStore, StoreFlags, Loaded, Flags
<1> QED
  BY <1>2, <1>3, <1>4, <1>5 DEF Stores

\* A thread other than the receiver returns.
Returned(status, to) ==
    /\ threadFlags' = ReturnStatus(Current, status)
    /\ resumeAt' = [resumeAt EXCEPT ![Current] = to]
    /\ pc' = "return"

\* The last change of flags of a thread that was active.
LEMMA StayAwakeStep ==
  ASSUME StayAwake, copy \in SUBSET Flags \/ copy = NoCopy
  PROVE  /\ flags' \in SUBSET Flags /\ copy' = NoCopy /\ "SLEEP" \notin flags'
         /\ signalled' = signalled /\ caller' = caller
         /\ pos' = pos /\ sigPos' = sigPos /\ pc = "stayAwake"
         /\ \/ /\ Current = Receiver /\ pc' = "rxClear"
               /\ threadFlags' = threadFlags /\ resumeAt' = resumeAt
            \/ Current # Receiver /\ Returned("WAITING", "wait")
            \/ Current # Receiver /\ Returned("YIELDED", "yield")
<1>1. copy # NoCopy => copy \in SUBSET Flags
  OBVIOUS
<1>2. flags' \in SUBSET Flags /\ copy' = NoCopy /\ "SLEEP" \notin flags'
  BY <1>1 DEF StayAwake, CanStore, StoreFlags, Loaded, Awake
<1>3. /\ signalled' = signalled /\ caller' = caller
      /\ pos' = pos /\ sigPos' = sigPos /\ pc = "stayAwake"
  BY DEF StayAwake
<1>4. CASE Current = Receiver
  BY <1>2, <1>3, <1>4 DEF StayAwake
<1>5. CASE Current # Receiver
  <2>1. PICK to \in {"wait", "yield"} :
           /\ threadFlags' = ReturnStatus(Current, IF to = "wait" THEN "WAITING" ELSE "YIELDED")
           /\ resumeAt' = [resumeAt EXCEPT ![Current] = to]
           /\ pc' = "return"
    BY <1>5 DEF StayAwake
  <2>2. CASE to = "wait"
    BY <1>2, <1>3, <1>5, <2>1, <2>2 DEF Returned
  <2>3. CASE to = "yield"
    BY <1>2, <1>3, <1>5, <2>1, <2>3 DEF Returned
  <2> QED
    BY <2>1, <2>2, <2>3
<1> QED
  BY <1>4, <1>5

ThreadFlags == SUBSET {"WAITING", "YIELDED", "SIGNAL"}
Resumes == {"start", "first yield", "wait", "yield"}

LEMMA ThreadTypes ==
  ASSUME SInv, SchedNext
  PROVE  threadFlags' \in [Threads -> ThreadFlags] /\ resumeAt' \in [Threads -> Resumes]
<1>0. threadFlags \in [Threads -> ThreadFlags] /\ resumeAt \in [Threads -> Resumes]
  BY DEF SInv, SchedTypeOK, ThreadFlags, Resumes
<1>1. CASE Dispatch \/ RunSignalled
  BY <1>0, <1>1 DEF Dispatch, RunSignalled, ThreadFlags
<1>2. ASSUME NEW status \in {"WAITING", "YIELDED"}, NEW to \in Resumes, Returned(status, to)
      PROVE  threadFlags' \in [Threads -> ThreadFlags] /\ resumeAt' \in [Threads -> Resumes]
  BY <1>0, <1>2 DEF Returned, ReturnStatus, ThreadFlags
<1>3. CASE ReturnWaiting \/ ReturnFirstYield
  BY <1>2, <1>3 DEF ReturnWaiting, ReturnFirstYield, Returned, Resumes
<1>4. CASE StayAwake
  BY <1>0, <1>2, <1>4, StayAwakeStep DEF Resumes, SInv, SchedTypeOK
<1>5. CASE RxWait \/ RxClearSignal
  <2>1. \A new \in ThreadFlags : [threadFlags EXCEPT ![Receiver] = new] \in [Threads -> ThreadFlags]
    BY <1>0
  <2>2. threadFlags[Receiver] \in ThreadFlags
    BY <1>0, Sizes
  <2>3. threadFlags' \in [Threads -> ThreadFlags]
    BY <1>5, <2>1, <2>2 DEF RxWait, RxClearSignal, ThreadFlags
  <2> QED
    BY <1>0, <1>5, <2>3 DEF RxWait, RxClearSignal, Resumes
<1>6. CASE LoadFlags \/ RxInterrupt
  BY <1>0, <1>6 DEF LoadFlags, RxInterrupt
<1>7. CASE Quiet \/ Stores
  BY <1>0, <1>7, QuietStep, StoresStep DEF SInv, SchedTypeOK
<1> QED
  BY <1>1, <1>3, <1>4, <1>5, <1>6, <1>7 DEF SchedNext, Main, Quiet, Stores

LEMMA PositionsStep ==
  ASSUME SInv, SchedNext
  PROVE  /\ pos' \in 1 .. Last + 1 /\ sigPos' \in 1 .. Last + 1
         /\ pc' \in Places /\ caller' \in {"scan", "signal"}
         /\ PositionsSound'
<1> USE Sizes, InTheList DEF Places, ChangesFlags, PositionsSound, AtRest, Running, Current
<1>0. pc \in Places /\ caller \in {"scan", "signal"} /\ PositionsSound
  BY DEF SInv, SchedTypeOK, SchedInv
<1>1. CASE \/ LoadFlags \/ RxProcess \/ RxTake \/ RxDone \/ RxWait \/ RxClearSignal \/ BodyActive
           \/ NumberFrames
  BY <1>0, <1>1 DEF NumberFrames, LoadFlags, RxProcess, RxTake, RxDone, RxWait, RxClearSignal, BodyActive, schedVars
<1>2. CASE StartPass \/ CheckSignal \/ Skip
  BY <1>0, <1>2 DEF StartPass, CheckSignal, Skip
<1>3. CASE CheckIdle \/ Sleep \/ TimerTick \/ RxInterrupt \/ RxOverrun
  BY <1>0, <1>3 DEF CheckIdle, Sleep, TimerTick, RxInterrupt, RxOverrun
<1>4. CASE ClearSignalFlag \/ NextSignalled
  BY <1>0, <1>4 DEF ClearSignalFlag, NextSignalled, AfterSignalled
<1>5. CASE Dispatch \/ RunSignalled
  BY <1>0, <1>5 DEF Dispatch, RunSignalled
<1>6. CASE EnterThread \/ SetActive
  BY <1>0, <1>6 DEF EnterThread, SetActive
<1>7. CASE ReturnWaiting \/ ReturnFirstYield
  BY <1>0, <1>7 DEF ReturnWaiting, ReturnFirstYield
<1>8. CASE StayAwake
  BY <1>0, <1>8 DEF StayAwake
<1>9. CASE Return
  BY <1>0, <1>9 DEF Return
<1> QED
  BY <1>1, <1>2, <1>3, <1>4, <1>5, <1>6, <1>7, <1>8, <1>9 DEF SchedNext, Main

\* The types, given those of the ring.
LEMMA TypeStep == ASSUME SInv, SchedNext, RingTypeOK' PROVE SchedTypeOK'
<1>0. /\ flags \in SUBSET Flags /\ (copy \in SUBSET Flags \/ copy = NoCopy)
      /\ signalled \in BOOLEAN
  BY DEF SInv, SchedTypeOK
<1>1. /\ flags' \in SUBSET Flags /\ (copy' \in SUBSET Flags \/ copy' = NoCopy)
      /\ signalled' \in BOOLEAN
  <2>1. CASE Quiet \/ Stores
    BY <1>0, <2>1, QuietStep, StoresStep
  <2>2. CASE StayAwake
    BY <1>0, <2>2, StayAwakeStep
  <2>3. CASE LoadFlags
    BY <1>0, <2>3 DEF LoadFlags
  <2>4. CASE \/ Dispatch \/ RunSignalled \/ ReturnWaiting \/ ReturnFirstYield
             \/ RxWait \/ RxClearSignal
    BY <1>0, <2>4 DEF Dispatch, RunSignalled, ReturnWaiting, ReturnFirstYield, RxWait, RxClearSignal
  <2>5. CASE RxInterrupt
    BY <1>0, <2>5 DEF RxInterrupt, Flags
  <2> QED
    BY <2>1, <2>2, <2>3, <2>4, <2>5 DEF SchedNext, Main, Quiet, Stores
<1> QED
  BY <1>1, PositionsStep, ThreadTypes DEF SchedTypeOK, ThreadFlags, Resumes

\* No thread but the receiver is passed over for a signal, and the receiver never yields.
LEMMA ReceiverStep ==
  ASSUME SInv, SchedNext
  PROVE  OnlyReceiverSignalled' /\ ReceiverNeverYields'
<1>0. /\ threadFlags \in [Threads -> ThreadFlags] /\ resumeAt \in [Threads -> Resumes]
      /\ OnlyReceiverSignalled /\ ReceiverNeverYields /\ Receiver \in Threads
      /\ (copy \in SUBSET Flags \/ copy = NoCopy)
  BY Sizes DEF SInv, SchedInv, SchedTypeOK, ThreadFlags, Resumes
<1>1. ASSUME Current # Receiver, Current \in Threads,
             NEW status \in {"WAITING", "YIELDED"}, NEW to \in Resumes, Returned(status, to)
      PROVE  OnlyReceiverSignalled' /\ ReceiverNeverYields'
  BY <1>0, <1>1 DEF Returned, ReturnStatus, OnlyReceiverSignalled, ReceiverNeverYields
<1>2. CASE ReturnWaiting \/ ReturnFirstYield
  <2>1. Current # Receiver /\ Current \in Threads
    BY <1>0, <1>2, InTheList DEF ReturnWaiting, ReturnFirstYield, ReceiverNeverYields, Running
  <2> QED
    BY <1>1, <1>2, <2>1 DEF ReturnWaiting, ReturnFirstYield, Returned, Resumes
<1>3. CASE StayAwake
  <2>1. Current \in Threads
    BY <1>3, InTheList DEF StayAwake, Running
  <2> QED
    BY <1>0, <1>1, <1>3, <2>1, StayAwakeStep
       DEF OnlyReceiverSignalled, ReceiverNeverYields, Resumes
<1>4. CASE Dispatch \/ RunSignalled
  BY <1>0, <1>4 DEF Dispatch, RunSignalled, OnlyReceiverSignalled, ReceiverNeverYields
<1>5. CASE RxWait \/ RxClearSignal
  BY <1>0, <1>5 DEF RxWait, RxClearSignal, OnlyReceiverSignalled, ReceiverNeverYields
<1>6. CASE EnterThread
  <2>1. Current' = Current
    BY <1>6 DEF EnterThread, Current
  <2> QED
    BY <1>0, <1>6, <2>1 DEF EnterThread, OnlyReceiverSignalled, ReceiverNeverYields
<1>7. ASSUME threadFlags' = threadFlags, resumeAt' = resumeAt,
             pc' = "body" => pc = "body" /\ Current' = Current
      PROVE  OnlyReceiverSignalled' /\ ReceiverNeverYields'
  BY <1>0, <1>7 DEF OnlyReceiverSignalled, ReceiverNeverYields
<1>8. CASE LoadFlags \/ RxInterrupt \/ RxOverrun \/ RxProcess \/ NumberFrames
  BY <1>7, <1>8 DEF NumberFrames, LoadFlags, RxInterrupt, RxOverrun, RxProcess, schedVars, Current
<1>9. CASE (Quiet \/ Stores) /\ ~EnterThread /\ ~RxOverrun /\ ~RxProcess /\ ~NumberFrames
  <2>1. threadFlags' = threadFlags /\ resumeAt' = resumeAt
    BY <1>0, <1>9, QuietStep, StoresStep
  <2>2. pc' # "body"
    BY <1>9 DEF Quiet, Stores, StartPass, CheckSignal, Skip, CheckIdle, Sleep, TimerTick,
          ClearSignalFlag, NextSignalled, AfterSignalled, BodyActive, SetActive, Return, RxTake, RxDone
  <2> QED
    BY <1>7, <2>1, <2>2
<1> QED
  BY <1>2, <1>3, <1>4, <1>5, <1>6, <1>8, <1>9 DEF SchedNext, Main, Quiet, Stores

\* The signal is set with every frame, and cleared only just before the batch is taken.
LEMMA SignalStep == ASSUME SInv, SchedNext PROVE SignalInv'
<1>0. SignalInv
  BY DEF SInv, SchedInv
<1>1. CASE RxTake \/ RxInterrupt \/ RxClearSignal
  BY <1>0, <1>1 DEF RxTake, TakeBatch, RxInterrupt, RxClearSignal, SignalInv
<1>2. CASE RxProcess \/ RxDone \/ RxOverrun \/ NumberFrames
  BY <1>0, <1>2 DEF NumberFrames, NumberAgain, RxProcess, HandOver, ClearSlot, AdvanceExt, schedVars, RxDone, BatchDone,
        RxOverrun, Overrun, SignalInv
<1>3. CASE \/ LoadFlags \/ StartPass \/ CheckSignal \/ Dispatch \/ Skip \/ CheckIdle \/ Sleep
           \/ ClearSignalFlag \/ RunSignalled \/ NextSignalled \/ TimerTick
  BY <1>0, <1>3 DEF LoadFlags, StartPass, CheckSignal, Dispatch, Skip, CheckIdle, Sleep,
        ClearSignalFlag, RunSignalled, NextSignalled, AfterSignalled, TimerTick, SignalInv, ringVars
<1>4. CASE \/ EnterThread \/ BodyActive \/ ReturnWaiting \/ ReturnFirstYield
           \/ SetActive \/ StayAwake \/ Return \/ RxWait
  BY <1>0, <1>4 DEF EnterThread, BodyActive, ReturnWaiting, ReturnFirstYield,
        SetActive, StayAwake, Return, RxWait, SignalInv, ringVars
<1> QED
  BY <1>1, <1>2, <1>3, <1>4 DEF SchedNext, Main

\* A step keeps AwakeInv when no thread gets a yield, the sleep flag does not come back,
\* and the pass leaves no further thread behind.
LEMMA AwakeKept ==
  ASSUME AwakeInv,
         \A t \in Threads : Yielded(t)' => Yielded(t),
         MaySleep' => MaySleep,
         pc' # "pass" => pc # "pass" /\ PassedOver' \subseteq PassedOver,
         pc' \in {"sleep", "asleep"} => pc \in {"sleep", "asleep"}
  PROVE  AwakeInv'
<1>1. PassedOver \subseteq Threads
  BY DEF PassedOver
<1> QED
  BY <1>1 DEF AwakeInv

\* The thread that the pass comes to has no yield pending once it is passed over.
LEMMA SkippedHasNotYielded ==
  ASSUME SInv, Skip
  PROVE  ~Yielded(pos)
<1>1. pos \in Threads
  BY InTheList DEF Skip, AtRest
<1> QED
  BY <1>1 DEF Skip, Runnable, Yielded, SInv, SchedInv, OnlyReceiverSignalled, ReceiverNeverYields

LEMMA AwakeStep == ASSUME SInv, SchedNext PROVE AwakeInv'
<1>0. /\ AwakeInv /\ threadFlags \in [Threads -> ThreadFlags] /\ resumeAt \in [Threads -> Resumes]
      /\ copy \in SUBSET Flags \/ copy = NoCopy
      /\ pos \in Nat /\ Threads \subseteq Nat
  <2>1. pos \in Nat /\ Threads \subseteq Nat
    BY Sizes, InTheList
  <2> QED
    BY <2>1 DEF SInv, SchedInv, SchedTypeOK, ThreadFlags, Resumes
<1>1. ASSUME threadFlags' = threadFlags, resumeAt' = resumeAt
      PROVE  \A t \in Threads : Yielded(t)' <=> Yielded(t)
  BY <1>1 DEF Yielded
<1>2. CASE StartPass
  <2>1. pos' = 1 /\ pc' = "check"
    BY <1>2 DEF StartPass
  <2>2. PassedOver' = {}
    BY <2>1, Sizes DEF PassedOver, Running
  <2> QED
    BY <2>1, <2>2 DEF AwakeInv
<1>3. CASE Dispatch
  <2>1. /\ pc = "dispatch" /\ pc' = "run" /\ flags' = flags /\ copy' = copy /\ pos' = pos
        /\ resumeAt' = resumeAt
        /\ threadFlags' = [threadFlags EXCEPT ![pos] = @ \ {"WAITING", "YIELDED"}]
    BY <1>3 DEF Dispatch
  <2>2. \A t \in Threads : Yielded(t)' => Yielded(t) /\ t # pos
    BY <1>0, <2>1 DEF Yielded
  <2>3. \A t \in PassedOver' : t \in PassedOver \/ t = pos
    BY <2>1 DEF PassedOver, Running
  <2>4. PassedOver' \subseteq Threads
    BY DEF PassedOver
  <2> QED
    BY <1>0, <2>1, <2>2, <2>3, <2>4 DEF AwakeInv, MaySleep
<1>4. CASE Skip
  <2>1. /\ pc = "dispatch" /\ pc' = "check" /\ pos' = pos + 1
    BY <1>4 DEF Skip
  <2>2. \A t \in PassedOver' : t \in PassedOver \/ t = pos
    BY <1>0, <2>1 DEF PassedOver, Running
  <2>3. flags' = flags /\ copy' = copy /\ threadFlags' = threadFlags /\ resumeAt' = resumeAt
    BY <1>4 DEF Skip
  <2>4. \A t \in Threads : Yielded(t)' <=> Yielded(t)
    BY <1>1, <2>3
  <2>5. PassedOver' \subseteq Threads
    BY DEF PassedOver
  <2> QED
    BY <1>0, <1>4, <2>1, <2>2, <2>3, <2>4, <2>5, SkippedHasNotYielded DEF AwakeInv, MaySleep
<1>5. CASE CheckIdle
  <2>1. /\ pc = "idle" /\ pos' = pos /\ pc' = IF "SLEEP" \in flags THEN "sleep" ELSE "pass"
        /\ threadFlags' = threadFlags /\ resumeAt' = resumeAt
    BY <1>5 DEF CheckIdle
  <2>2. \A t \in Threads : Yielded(t)' <=> Yielded(t)
    BY <1>1, <2>1
  <2>3. PassedOver = Threads /\ PassedOver' = Threads
    BY <2>1, Sizes, InTheList DEF PassedOver
  <2> QED
    BY <1>0, <2>1, <2>2, <2>3 DEF AwakeInv, MaySleep
<1>6. CASE StayAwake
  <2>1. "SLEEP" \notin flags' /\ copy' = NoCopy /\ pc' \in {"return", "rxClear"}
    BY <1>0, <1>6, StayAwakeStep DEF Returned
  <2> QED
    BY <2>1 DEF AwakeInv, MaySleep, NoCopy
<1>7. CASE Return
  <2>1. /\ flags' = flags /\ copy' = copy /\ threadFlags' = threadFlags /\ resumeAt' = resumeAt
        /\ pc = "return" /\ pc' \in {"check", "signalThreads"} /\ caller' = caller
        /\ pos' = IF caller = "scan" THEN pos + 1 ELSE pos
    BY <1>7 DEF Return
  <2>2. \A t \in PassedOver' : t \in PassedOver
    BY <1>0, <2>1 DEF PassedOver, Running
  <2>3. \A t \in Threads : Yielded(t)' => Yielded(t)
    BY <1>1, <2>1
  <2> QED
    BY <1>0, <2>1, <2>2, <2>3, AwakeKept DEF MaySleep
<1>8. CASE RunSignalled \/ ReturnWaiting \/ ReturnFirstYield \/ RxWait \/ RxClearSignal
  <2>1. \A t \in Threads : Yielded(t)' => Yielded(t)
    <3>1. CASE RunSignalled
      BY <1>0, <3>1 DEF RunSignalled, Yielded
    <3>2. CASE ReturnWaiting \/ ReturnFirstYield
      BY <1>0, <3>2 DEF ReturnWaiting, ReturnFirstYield, ReturnStatus, Yielded
    <3>3. CASE RxWait \/ RxClearSignal
      BY <1>0, <3>3 DEF RxWait, RxClearSignal, Yielded
    <3> QED
      BY <1>8, <3>1, <3>2, <3>3
  <2>2. /\ flags' = flags /\ copy' = copy /\ pos' = pos
        /\ pc' \notin {"pass", "sleep", "asleep"} /\ pc # "pass"
        /\ \/ pc \in Running /\ caller' = caller
           \/ caller' = "signal"
    BY <1>8 DEF RunSignalled, ReturnWaiting, ReturnFirstYield, RxWait, RxClearSignal, Running
  <2>3. \A t \in PassedOver' : t \in PassedOver
    BY <1>0, <2>2 DEF PassedOver
  <2> QED
    BY <1>0, <2>1, <2>2, <2>3, AwakeKept DEF MaySleep
<1>9. CASE \/ LoadFlags \/ CheckSignal \/ Sleep \/ TimerTick \/ ClearSignalFlag \/ NextSignalled
           \/ EnterThread \/ BodyActive \/ SetActive \/ RxTake \/ RxProcess \/ RxDone
           \/ RxInterrupt \/ RxOverrun \/ NumberFrames
  <2>1. \A t \in Threads : Yielded(t)' => Yielded(t)
    <3>1. threadFlags' = threadFlags /\ resumeAt' = resumeAt
      BY <1>9 DEF LoadFlags, CheckSignal, Sleep, TimerTick, ClearSignalFlag, NextSignalled,
            EnterThread, BodyActive, SetActive, RxTake, RxProcess, RxDone, schedVars,
            RxInterrupt, RxOverrun, NumberFrames
    <3> QED
      BY <1>1, <3>1
  <2>2. /\ pos' = pos /\ caller' = caller
        /\ pc' # "pass" => /\ pc # "pass" \/ pc' = pc
                           /\ pc' \in Running => pc \in Running
        /\ pc' \in {"sleep", "asleep"} => pc \in {"sleep", "asleep"}
    BY <1>9 DEF LoadFlags, CheckSignal, Sleep, TimerTick, ClearSignalFlag, NextSignalled,
          AfterSignalled, EnterThread, BodyActive, SetActive, RxTake, RxProcess, RxDone, schedVars,
          RxInterrupt, RxOverrun, NumberFrames, Running
  <2>3. pc' # "pass" => PassedOver' \subseteq PassedOver
    BY <2>2 DEF PassedOver
  <2>4. MaySleep' => MaySleep
    <3>1. CASE LoadFlags \/ RxInterrupt
      BY <3>1 DEF LoadFlags, RxInterrupt, MaySleep
    <3>2. CASE ClearSignalFlag \/ EnterThread \/ SetActive
      <4>1. Stores /\ pc # "pass"
        BY <3>2 DEF Stores, ClearSignalFlag, EnterThread, SetActive
      <4>2. copy' = NoCopy /\ ("SLEEP" \in flags' => "SLEEP" \in copy)
        BY <1>0, <4>1, StoresStep
      <4> QED
        BY <4>2 DEF MaySleep, NoCopy
    <3>3. CASE ~(LoadFlags \/ RxInterrupt \/ ClearSignalFlag \/ EnterThread \/ SetActive)
      BY <1>9, <3>3, QuietStep DEF Quiet, MaySleep
    <3> QED
      BY <3>1, <3>2, <3>3
  <2> QED
    BY <1>0, <2>1, <2>2, <2>3, <2>4, AwakeKept
<1> QED
  BY <1>2, <1>3, <1>4, <1>5, <1>6, <1>7, <1>8, <1>9 DEF SchedNext, Main

-----------------------------------------------------------------------------
(* The composition *)

\* Every step of the program is a step of the ring, or leaves it alone.
LEMMA RingStep == ASSUME [SchedNext]_threadVars PROVE [RingNext]_ringVars
<1>1. CASE RxInterrupt \/ RxOverrun \/ RxTake \/ RxProcess \/ RxDone \/ NumberFrames
  BY <1>1 DEF RxInterrupt, RxOverrun, RxTake, RxProcess, RxDone, NumberFrames, RingNext
<1>2. CASE \/ LoadFlags \/ StartPass \/ CheckSignal \/ Dispatch \/ Skip \/ CheckIdle \/ Sleep
           \/ ClearSignalFlag \/ RunSignalled \/ NextSignalled \/ EnterThread \/ BodyActive
           \/ ReturnWaiting \/ ReturnFirstYield \/ SetActive \/ StayAwake \/ Return
           \/ RxWait \/ RxClearSignal \/ TimerTick
  BY <1>2 DEF LoadFlags, StartPass, CheckSignal, Dispatch, Skip, CheckIdle, Sleep,
        ClearSignalFlag, RunSignalled, NextSignalled, EnterThread, BodyActive, ReturnWaiting,
        ReturnFirstYield, SetActive, StayAwake, Return, RxWait, RxClearSignal, TimerTick
<1>3. CASE UNCHANGED threadVars
  BY <1>3 DEF threadVars
<1> QED
  BY <1>1, <1>2, <1>3 DEF SchedNext, Main

LEMMA SchedInitInv == ASSUME SchedInit PROVE RingIInv /\ SInv
<1>1. RingIInv
  BY RingInitInv DEF SchedInit
<1>2. SchedTypeOK
  <2>1. pos \in 1 .. Last + 1 /\ sigPos \in 1 .. Last + 1
    BY Sizes DEF SchedInit
  <2>2. RingTypeOK
    BY <1>1 DEF RingIInv
  <2>3. flags \subseteq Flags /\ signalled \in BOOLEAN /\ pc \in Places
        /\ copy = NoCopy /\ caller \in {"scan", "signal"}
    BY DEF SchedInit, Places, ChangesFlags
  <2>4. /\ threadFlags \in [Threads -> SUBSET {"WAITING", "YIELDED", "SIGNAL"}]
        /\ resumeAt \in [Threads -> {"start", "first yield", "wait", "yield"}]
    BY DEF SchedInit
  <2> QED
    BY <2>1, <2>2, <2>3, <2>4 DEF SchedTypeOK
<1>3. SchedInv
  BY Sizes DEF SchedInit, SchedInv, PositionsSound, OnlyReceiverSignalled, ReceiverNeverYields,
     AwakeInv, PassedOver, Yielded, SignalInv, RingInit, AtRest, Running
<1> QED
  BY <1>1, <1>2, <1>3 DEF SInv

LEMMA SchedNextInv ==
  ASSUME RingIInv, SInv, [SchedNext]_threadVars
  PROVE  RingIInv' /\ SInv'
<1>1. RingIInv'
  BY RingStep, RingNextInv
<1>2. CASE SchedNext
  BY <1>1, <1>2, TypeStep, PositionsStep, ReceiverStep, AwakeStep, SignalStep
     DEF RingIInv, SInv, SchedInv
<1>3. CASE UNCHANGED threadVars
  BY <1>1, <1>3 DEF threadVars, schedVars, ringVars, RingIInv, SInv, SchedTypeOK, SchedInv, PositionsSound,
     OnlyReceiverSignalled, ReceiverNeverYields, AwakeInv, PassedOver, Yielded, MaySleep,
     SignalInv, Current
<1> QED
  BY <1>1, <1>2, <1>3

\* A waiting frame has its signal, and a thread that yielded keeps the processor awake,
\* although the interrupt may hit between the load and the store of every change of
\* the flags, and for every number of threads (threading.c 282-287, 340-362, 481-548).
THEOREM WorkIsNotForgotten == SchedSpec => []WorkIsRemembered
<1>1. SInv => WorkIsRemembered
  BY DEF SInv, SchedInv, WorkIsRemembered, SignalPending, SignalInv, YieldKeepsAwake, AwakeInv, Yielded
<1> QED
  BY <1>1, SchedInitInv, SchedNextInv, PTL DEF SchedSpec

\* The MAC gets every frame once and in order from the whole program, too.
THEOREM SchedulerKeepsFrames == SchedSpec => []RingSound
<1>1. RingIInv => RingSound
  BY DEF RingIInv, RingInv, RingTypeOK, RingSound, FramesInOrder, NothingForgotten
<1> QED
  BY <1>1, SchedInitInv, SchedNextInv, PTL DEF SchedSpec
=============================================================================
