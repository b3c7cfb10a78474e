----------------------------- MODULE Scheduler ------------------------------
(***************************************************************************)
(* The cooperative scheduler (src/src/threading.c) with the interrupt and  *)
(* the thread of the radio (src/src/at86rf230.c).                          *)
(*                                                                         *)
(* The main program passes over the thread list for ever, runs the threads *)
(* that wait or yielded, runs the signalled threads whenever it sees the   *)
(* signal flag, and lets the processor sleep after a pass in which nothing *)
(* was active.  The radio interrupt can come at any point outside the      *)
(* critical sections; it stores a frame in the ring of module RxRing and   *)
(* signals the receive thread.                                             *)
(*                                                                         *)
(* `flags' is a volatile byte.  The main program changes it with `|=' and  *)
(* `&=', which the AVR executes as a load, an operation on a register and  *)
(* a store, outside a critical section: the interrupt may change the byte  *)
(* in between and have its change overwritten.                             *)
(*                                                                         *)
(* Position t of the list is thread t.  The receive thread is modelled     *)
(* step by step; the other threads wait or yield as they like.             *)
(***************************************************************************)
EXTENDS RxRing, FiniteSets

CONSTANTS
    Threads,      \* 1 .. n: the thread list
    Receiver,     \* the position of receive_thread
    EarlyYields   \* the threads whose first blocking operation is a yield

ASSUME SchedulerAssumption ==
    /\ IsFiniteSet(Threads) /\ Threads = 1 .. Cardinality(Threads)
    /\ Receiver \in Threads
    /\ EarlyYields \subseteq Threads \ {Receiver}

VARIABLES
    flags,       \* the members of {"SIGNAL", "SLEEP", "ACTIVE"} that are set
    signalled,   \* bit SIGNAL_RF_RECEIVE of signals
    threadFlags, \* thread_state_t.flags of every thread
    resumeAt,    \* the protothread's local continuation: where a thread resumes
    pc,          \* where the main program is
    copy,        \* the register with the loaded flags, or NoCopy
    pos,         \* ln of thread_start
    sigPos,      \* ln of process_signalled_threads
    caller       \* who called run_thread: thread_start or process_signalled_threads

schedVars == <<flags, signalled, threadFlags, resumeAt, pc, copy, pos, sigPos, caller>>
threadVars == <<ringVars, schedVars>>

Flags == {"SIGNAL", "SLEEP", "ACTIVE"}
NoCopy == {"no copy"}
Last == Cardinality(Threads)
Current == IF caller = "scan" THEN pos ELSE sigPos

\* Where the main program is about to change flags.
ChangesFlags == {"pass", "clearSignal", "run", "active", "stayAwake"}
Places == ChangesFlags \cup
    {"check", "dispatch", "signalThreads", "body", "rxWait", "rxClear", "rxTake",
     "rxProcess", "return", "idle", "sleep", "asleep"}

SchedTypeOK ==
    /\ RingTypeOK
    /\ flags \subseteq Flags
    /\ signalled \in BOOLEAN
    /\ threadFlags \in [Threads -> SUBSET {"WAITING", "YIELDED", "SIGNAL"}]
    /\ resumeAt \in [Threads -> {"start", "first yield", "wait", "yield"}]
    /\ pc \in Places
    /\ copy \in SUBSET Flags \/ copy = NoCopy
    /\ pos \in 1 .. Last + 1 /\ sigPos \in 1 .. Last + 1
    /\ caller \in {"scan", "signal"}

SchedInit ==
    /\ RingInit
    /\ flags = {} /\ signalled = FALSE
    /\ threadFlags = [t \in Threads |-> {"YIELDED"}]
    /\ resumeAt = [t \in Threads |-> "start"]
    /\ pc = "pass" /\ copy = NoCopy
    /\ pos = 1 /\ sigPos = 1 /\ caller = "scan"

-----------------------------------------------------------------------------
(* The read-modify-write of flags *)

LoadFlags ==
    /\ pc \in ChangesFlags
    /\ copy = NoCopy
    /\ copy' = flags
    /\ UNCHANGED <<ringVars, flags, signalled, threadFlags, resumeAt, pc, pos, sigPos, caller>>

\* The main program replaces flags: Loaded is the value it works on.
Loaded == copy
StoreFlags(new) == flags' = new /\ copy' = NoCopy
CanStore == copy # NoCopy

-----------------------------------------------------------------------------
(* thread_start *)

StartPass ==
    /\ pc = "pass" /\ CanStore
    /\ StoreFlags(Loaded \cup {"SLEEP"})
    /\ pos' = 1
    /\ pc' = "check"
    /\ UNCHANGED <<ringVars, signalled, threadFlags, resumeAt, sigPos, caller>>

\* The head of the loop over the list: signalled threads go first.
CheckSignal ==
    /\ pc = "check"
    /\ pc' = IF pos > Last THEN "idle"
             ELSE IF "SIGNAL" \in flags THEN "clearSignal" ELSE "dispatch"
    /\ UNCHANGED <<ringVars, flags, signalled, threadFlags, resumeAt, copy, pos, sigPos, caller>>

Runnable(t) ==
    threadFlags[t] \cap {"WAITING", "YIELDED"} # {} /\ "SIGNAL" \notin threadFlags[t]

\* Run the thread at ln: clear its wait flags and call run_thread.
Dispatch ==
    /\ pc = "dispatch" /\ Runnable(pos)
    /\ threadFlags' = [threadFlags EXCEPT ![pos] = @ \ {"WAITING", "YIELDED"}]
    /\ caller' = "scan"
    /\ pc' = "run"
    /\ UNCHANGED <<ringVars, flags, signalled, resumeAt, copy, pos, sigPos>>

Skip ==
    /\ pc = "dispatch" /\ ~Runnable(pos)
    /\ pos' = pos + 1
    /\ pc' = "check"
    /\ UNCHANGED <<ringVars, flags, signalled, threadFlags, resumeAt, copy, sigPos, caller>>

\* The check for sleep conditions, and the sleep instruction, a while later.
CheckIdle ==
    /\ pc = "idle"
    /\ pc' = IF "SLEEP" \in flags THEN "sleep" ELSE "pass"
    /\ UNCHANGED <<ringVars, flags, signalled, threadFlags, resumeAt, copy, pos, sigPos, caller>>

Sleep ==
    /\ pc = "sleep"
    /\ pc' = "asleep"
    /\ UNCHANGED <<ringVars, flags, signalled, threadFlags, resumeAt, copy, pos, sigPos, caller>>

\* The interrupt of timer 1, every 10 ms, ends the sleep.
TimerTick ==
    /\ pc = "asleep"
    /\ pc' = "pass"
    /\ UNCHANGED <<ringVars, flags, signalled, threadFlags, resumeAt, copy, pos, sigPos, caller>>

-----------------------------------------------------------------------------
(* process_signalled_threads *)

ClearSignalFlag ==
    /\ pc = "clearSignal" /\ CanStore
    /\ StoreFlags(Loaded \ {"SIGNAL"})
    /\ sigPos' = 1
    /\ pc' = "signalThreads"
    /\ UNCHANGED <<ringVars, signalled, threadFlags, resumeAt, pos, caller>>

RunSignalled ==
    /\ pc = "signalThreads" /\ sigPos <= Last
    /\ "SIGNAL" \in threadFlags[sigPos]
    /\ threadFlags' = [threadFlags EXCEPT ![sigPos] = @ \ {"WAITING", "YIELDED"}]
    /\ caller' = "signal"
    /\ pc' = "run"
    /\ UNCHANGED <<ringVars, flags, signalled, resumeAt, copy, pos, sigPos>>

\* Mutant: the loop over the list looks at the signal flag again and again.
AfterSignalled_Again == "check"
\* Where thread_start goes on.
AfterSignalled == "dispatch"

NextSignalled ==
    /\ pc = "signalThreads"
    /\ IF sigPos > Last THEN pc' = AfterSignalled /\ sigPos' = sigPos
       ELSE "SIGNAL" \notin threadFlags[sigPos] /\ sigPos' = sigPos + 1 /\ pc' = pc
    /\ UNCHANGED <<ringVars, flags, signalled, threadFlags, resumeAt, copy, pos, caller>>

-----------------------------------------------------------------------------
(* run_thread *)

\* Clear the active flag and enter the thread where it left off.
EnterThread ==
    /\ pc = "run" /\ CanStore
    /\ StoreFlags(Loaded \ {"ACTIVE"})
    /\ pc' = IF Current = Receiver THEN "rxWait" ELSE "body"
    /\ UNCHANGED <<ringVars, signalled, threadFlags, resumeAt, pos, sigPos, caller>>

\* A thread other than the receiver, up to its call of thread_v_active or, when
\* it has not run before or its condition does not hold, up to its return.
BodyActive ==
    /\ pc = "body"
    /\ resumeAt[Current] # "start"
    /\ pc' = "active"
    /\ UNCHANGED <<ringVars, flags, signalled, threadFlags, resumeAt, copy, pos, sigPos, caller>>

\* Mutant: the scheduler does not record that the thread yielded.
ReturnStatus_Lost(t, status) == threadFlags
\* The switch on the returned thread state.
ReturnStatus(t, status) == [threadFlags EXCEPT ![t] = @ \cup {status}]

ReturnWaiting ==
    /\ pc = "body"
    /\ resumeAt[Current] \in {"start", "wait"}
    /\ Current \notin EarlyYields \/ resumeAt[Current] = "wait"
    /\ threadFlags' = ReturnStatus(Current, "WAITING")
    /\ resumeAt' = [resumeAt EXCEPT ![Current] = "wait"]
    /\ pc' = "return"
    /\ UNCHANGED <<ringVars, flags, signalled, copy, pos, sigPos, caller>>

ReturnFirstYield ==
    /\ pc = "body"
    /\ resumeAt[Current] = "start" /\ Current \in EarlyYields
    /\ threadFlags' = ReturnStatus(Current, "YIELDED")
    /\ resumeAt' = [resumeAt EXCEPT ![Current] = "first yield"]
    /\ pc' = "return"
    /\ UNCHANGED <<ringVars, flags, signalled, copy, pos, sigPos, caller>>

\* thread_v_active: two changes of flags.  After it a thread waits or yields.
SetActive ==
    /\ pc = "active" /\ CanStore
    /\ StoreFlags(Loaded \cup {"ACTIVE"})
    /\ pc' = "stayAwake"
    /\ UNCHANGED <<ringVars, signalled, threadFlags, resumeAt, pos, sigPos, caller>>

\* Mutant: an active thread does not keep the processor awake.
Awake_Forgotten(f) == f
Awake(f) == f \ {"SLEEP"}

StayAwake ==
    /\ pc = "stayAwake" /\ CanStore
    /\ StoreFlags(Awake(Loaded))
    /\ IF Current = Receiver
       THEN pc' = "rxClear" /\ UNCHANGED <<threadFlags, resumeAt>>
       ELSE \E to \in {"wait", "yield"} :
               /\ threadFlags' = ReturnStatus(Current, IF to = "wait" THEN "WAITING" ELSE "YIELDED")
               /\ resumeAt' = [resumeAt EXCEPT ![Current] = to]
               /\ pc' = "return"
    /\ UNCHANGED <<ringVars, signalled, pos, sigPos, caller>>

\* run_thread returns to the loop that called it.
Return ==
    /\ pc = "return"
    /\ IF caller = "scan"
       THEN pos' = pos + 1 /\ pc' = "check" /\ UNCHANGED sigPos
       ELSE sigPos' = sigPos + 1 /\ pc' = "signalThreads" /\ UNCHANGED pos
    /\ UNCHANGED <<ringVars, flags, signalled, threadFlags, resumeAt, copy, caller>>

-----------------------------------------------------------------------------
(* receive_thread *)

\* THREAD_WAIT_SIGNAL: set the thread's signal flag and look at the signal.
RxWait ==
    /\ pc = "rxWait"
    /\ threadFlags' = [threadFlags EXCEPT ![Receiver] =
                          @ \cup IF signalled THEN {"SIGNAL"} ELSE {"SIGNAL", "WAITING"}]
    /\ resumeAt' = [resumeAt EXCEPT ![Receiver] = "wait"]
    /\ pc' = IF signalled THEN "active" ELSE "return"
    /\ UNCHANGED <<ringVars, flags, signalled, copy, pos, sigPos, caller>>

RxClearSignal ==
    /\ pc = "rxClear"
    /\ signalled' = FALSE
    /\ threadFlags' = [threadFlags EXCEPT ![Receiver] = @ \ {"SIGNAL"}]
    /\ pc' = "rxTake"
    /\ UNCHANGED <<ringVars, flags, resumeAt, copy, pos, sigPos, caller>>

RxTake ==
    /\ pc = "rxTake"
    /\ TakeBatch
    /\ pc' = "rxProcess"
    /\ UNCHANGED <<flags, signalled, threadFlags, resumeAt, copy, pos, sigPos, caller>>

RxProcess ==
    /\ pc = "rxProcess"
    /\ HandOver \/ ClearSlot \/ AdvanceExt
    /\ UNCHANGED schedVars

\* Mutant: the signal is cleared after the batch.
RxDone_ClearsSignal ==
    /\ pc = "rxProcess"
    /\ BatchDone
    /\ signalled' = FALSE
    /\ pc' = "rxWait"
    /\ UNCHANGED <<flags, threadFlags, resumeAt, copy, pos, sigPos, caller>>
RxDone ==
    /\ pc = "rxProcess"
    /\ BatchDone
    /\ pc' = "rxWait"
    /\ UNCHANGED <<flags, signalled, threadFlags, resumeAt, copy, pos, sigPos, caller>>

-----------------------------------------------------------------------------
(* The radio interrupt *)

\* thread_v_signal at the end of the interrupt; an interrupt ends the sleep.
RxInterrupt ==
    /\ StoreFrame
    /\ signalled' = TRUE
    /\ flags' = (flags \cup {"SIGNAL"}) \ {"SLEEP"}
    /\ pc' = IF pc = "asleep" THEN "pass" ELSE pc
    /\ UNCHANGED <<threadFlags, resumeAt, copy, pos, sigPos, caller>>

\* The overrun path does not signal.
RxOverrun ==
    /\ Overrun
    /\ pc' = IF pc = "asleep" THEN "pass" ELSE pc
    /\ UNCHANGED <<flags, signalled, threadFlags, resumeAt, copy, pos, sigPos, caller>>

\* The bookkeeping of RxRing.
NumberFrames == NumberAgain /\ UNCHANGED schedVars

-----------------------------------------------------------------------------
Main ==
    \/ LoadFlags \/ StartPass \/ CheckSignal \/ Dispatch \/ Skip \/ CheckIdle \/ Sleep
    \/ ClearSignalFlag \/ RunSignalled \/ NextSignalled
    \/ EnterThread \/ BodyActive \/ ReturnWaiting \/ ReturnFirstYield
    \/ SetActive \/ StayAwake \/ Return
    \/ RxWait \/ RxClearSignal \/ RxTake \/ RxProcess \/ RxDone

SchedNext == Main \/ TimerTick \/ RxInterrupt \/ RxOverrun \/ NumberFrames

SchedSpec == SchedInit /\ [][SchedNext]_threadVars

\* The processor executes the main program, and the timer runs.
SchedFair == WF_threadVars(Main) /\ WF_threadVars(TimerTick)
SchedFairSpec == SchedSpec /\ SchedFair

-----------------------------------------------------------------------------
(* Properties *)

\* The receive thread's signal is there whenever a frame waits that it has not
\* taken: it will find the frame the next time it is run.
SignalPending == rxFrames > 0 /\ rxAt = "take" /\ pc # "rxTake" => signalled

\* A thread that was active and yielded keeps the processor awake until it has
\* run again ("will be guaranteed to be run again before sleeping the
\* processor", threading.c 42-44).
YieldKeepsAwake ==
    pc = "asleep" => \A t \in Threads : resumeAt[t] = "yield" => "YIELDED" \notin threadFlags[t]

\* Nothing that has work to do is forgotten: neither a signal nor the flag that keeps the
\* processor awake is lost by the places that change the flags without protection.
WorkIsRemembered == SchedTypeOK /\ SignalPending /\ YieldKeepsAwake

\* Every frame the interrupt stored reaches the MAC: "process all received
\* buffers" (at86rf230.c 634).
StoredFramesProcessed == \A f \in Frames : stored >= f ~> handed >= f

\* The receive thread comes back to the scheduler: no frame has come while it worked
\* on the last batch.  With a new signal at the end of every batch it would not.
Receiving == {"rxWait", "rxClear", "rxTake", "rxProcess"}
ReceiverReturns == []<>(pc \notin Receiving /\ (pc \in {"active", "stayAwake"} => Current # Receiver))

\* No thread starves although signals never cease and signalled threads go first, as
\* long as the receive thread itself keeps coming back (threading.c 506-533).
ThreadsKeepRunning ==
    ReceiverReturns => \A t \in Threads \ {Receiver} : []<>(pc = "body" /\ Current = t)

-----------------------------------------------------------------------------
(* The inductive form of WorkIsRemembered *)

\* Between two runs of threads, or between two passes.
AtRest == {"pass", "check", "idle", "sleep", "asleep"}
Running == {"run", "body", "active", "stayAwake", "rxWait", "rxClear", "rxTake", "rxProcess",
            "return"}

\* The loops that call run_thread are inside the list.
PositionsSound ==
    /\ pc \notin AtRest => pos <= Last
    /\ pc \in {"idle", "sleep", "asleep"} => pos = Last + 1
    /\ pc \in Running /\ caller = "signal" => sigPos <= Last

\* Only the receive thread is ever passed over for its signal, and it never yields.
OnlyReceiverSignalled ==
    \A t \in Threads : "SIGNAL" \in threadFlags[t] => t = Receiver
ReceiverNeverYields ==
    resumeAt[Receiver] # "yield" /\ (pc = "body" => Current # Receiver)

\* A thread that was active and then yielded has not run since.
Yielded(t) == resumeAt[t] = "yield" /\ "YIELDED" \in threadFlags[t]

\* The sleep flag is set, or is going to be when the loaded copy is stored.
MaySleep == "SLEEP" \in flags \cup copy

\* While the flag that lets the processor sleep stands, every thread that the pass
\* has left behind has no yield pending.
PassedOver ==
    {t \in Threads : t < pos \/ (t = pos /\ pc \in Running /\ caller = "scan")}
AwakeInv ==
    /\ MaySleep /\ pc # "pass" => \A t \in PassedOver : ~Yielded(t)
    /\ pc \in {"sleep", "asleep"} => \A t \in Threads : ~Yielded(t)

\* A frame that is not in the batch has its signal, except in the two steps in which
\* the thread has cleared the signal and not yet taken the count.
SignalInv == rxFrames > 0 /\ pc # "rxTake" => signalled

SchedInv ==
    PositionsSound /\ OnlyReceiverSignalled /\ ReceiverNeverYields /\ AwakeInv /\ SignalInv
=============================================================================
