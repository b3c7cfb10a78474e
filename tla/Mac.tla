-------------------------------- MODULE Mac --------------------------------
(***************************************************************************)
(* The MAC of src/src/wcom_mac.c with its security, src/src/wcom_mac_sec.c, *)
(* and the transmitter of src/src/at86rf230.c: one sender with its queue,  *)
(* its transmit thread and its radio, and one receiver with its ring, its  *)
(* replay cache and the replay counter it keeps for the sender.            *)
(*                                                                         *)
(* The radio repeats a frame on its own until it is acknowledged, and      *)
(* acknowledgments get lost, so the receiver may hear a frame several      *)
(* times.  Frames that fail are tried again by the thread.                 *)
(***************************************************************************)
EXTENDS Integers, Sequences, SequencesExt

CONSTANTS
    Plan,         \* bound: the kinds that each frame of the sender may have, in order
    QueueSize,    \* WCOM_MAC_MAX_QUEUED_FRAMES
    CacheSize,    \* WCOM_MAC_REPLAY_CACHE_ENTRIES
    SeqNumbers,   \* 2^8: values of the sequence number
    SoftTries,    \* CFG_PARAM_WCOM_TX_SW_TRIES
    TryValues,    \* 2^8: values of the number of tries left
    HardTries,    \* how often the radio repeats a frame
    RingSize,     \* receive buffers of the receiver
    MaxFaults     \* bound: reboots of the sender, entries lost by the receiver

VARIABLES
    sender,    \* queue, sequence number, replay counter, session, transmit thread
    radio,     \* tx_status and the frame in the transmitter
    ring,      \* rx_buffer of the receiver
    receiver,  \* replay cache and the entry of the sender in the list of neighbors
    sent,      \* history, see module Link
    heard,
    delivered,
    report,
    refused,   \* history: frames of the session that the replay counter refused
    tries,     \* history: transmissions of the current frame
    faults     \* bound

macVars == <<sender, radio, ring, receiver, sent, heard, delivered, report, refused, tries,
             faults>>

\* A data frame is signed and asks for an acknowledgment, a broadcast is signed
\* and does not, and a thunder is the last message of a join: it is not signed with
\* the session that it announces.
AsksForAck(kind) == kind # "broadcast"
NoFrame == [id |-> 0, kind |-> "data", seq |-> 0, counter |-> 0, session |-> 0]
Free == <<>>       \* an entry of the replay cache that was never used
Other == <<0, "other">>  \* an entry with the address of another sender
NoSession == 0

TypeOK ==
    /\ DOMAIN sender = {"queue", "seq", "counter", "session", "pc", "msg", "attempts"}
    /\ sender.pc \in {"wait", "mode", "busy"}
    /\ sender.attempts \in 0 .. TryValues - 1
    /\ sender.seq \in 0 .. SeqNumbers - 1
    /\ Len(sender.queue) <= QueueSize
    /\ radio.status \in {"IDLE", "BUSY", "OK", "FAILED_CCA", "FAILED_NO_ACK"}
    /\ Len(ring) <= RingSize
    /\ Len(receiver.cache) = CacheSize
    /\ receiver.ptr \in 1 .. CacheSize
    /\ heard \subseteq DOMAIN sent
    /\ DOMAIN report = DOMAIN sent

\* wcom_mac_v_init, wcom_mac_sec_v_init: the session is random, that is, a new one.
Started(session) ==
    [queue |-> <<>>, seq |-> 0, counter |-> 1, session |-> session, pc |-> "wait",
     msg |-> NoFrame, attempts |-> 0]

Init ==
    /\ sender = Started(1)
    /\ radio = [status |-> "IDLE", frame |-> NoFrame, copies |-> 0]
    /\ ring = <<>>
    /\ receiver = [cache |-> [i \in 1 .. CacheSize |-> Free], ptr |-> 1,
                   iv |-> NoSession, counter |-> 0]
    /\ sent = <<>> /\ heard = {} /\ delivered = <<>> /\ report = <<>>
    /\ refused = {} /\ tries = 0 /\ faults = 0

-----------------------------------------------------------------------------
(* Sender *)

Busy == Len(sender.queue) >= QueueSize

\* wcom_mac_u8_build_frame, with the replay counter of wcom_mac_sec_u32_get_replay_counter.
BuildFrame(kind) ==
    [id |-> Len(sent) + 1, kind |-> kind, seq |-> (sender.seq + 1) % SeqNumbers,
     counter |-> sender.counter + 1, session |-> sender.session]

\* Mutant: the new frame is put where the thread takes the next one.
Queued_NewestFirst(frame) == <<frame>> \o sender.queue
Queued(frame) == Append(sender.queue, frame)

\* wcom_mac_i8_transmit_frame, wcom_mac_m_create_tx_msg: the frame is complete, with its
\* numbers, when it enters the queue.  A full queue or heap leaves everything as it was.
CreateTxMsg ==
    /\ Len(sent) < Len(Plan)
    /\ ~Busy
    /\ \E kind \in Plan[Len(sent) + 1] :
          /\ sender' = [sender EXCEPT !.queue = Queued(BuildFrame(kind)),
                                      !.seq = (@ + 1) % SeqNumbers, !.counter = @ + 1]
          /\ sent' = Append(sent, AsksForAck(kind))
    /\ report' = Append(report, "none")
    /\ UNCHANGED <<radio, ring, receiver, heard, delivered, refused, tries, faults>>

\* Mutant: a frame that asks for an acknowledgment keeps the tries of the frame before, too.
AttemptsFor_Stale(frame) == sender.attempts
\* Only frames that ask for an acknowledgment set the number of tries: any other frame
\* starts with what the frame before left.
AttemptsFor(frame) == IF AsksForAck(frame.kind) THEN SoftTries ELSE sender.attempts

TakeMsg ==
    /\ sender.pc = "wait" /\ sender.queue # <<>>
    /\ LET frame == Head(sender.queue) IN
          sender' = [sender EXCEPT !.queue = Tail(@), !.msg = frame, !.pc = "mode",
                                   !.attempts = AttemptsFor(frame)]
    /\ tries' = 0
    /\ UNCHANGED <<radio, ring, receiver, sent, heard, delivered, report, refused, faults>>

\* rf_i8_request_transmit_mode: the thread waits while the radio is busy or receives; then it fills the frame buffer.
Transmit ==
    /\ sender.pc = "mode" /\ radio.status # "BUSY"
    /\ radio' = [status |-> "BUSY", frame |-> sender.msg, copies |-> 0]
    /\ sender' = [sender EXCEPT !.pc = "busy"]
    /\ tries' = IF tries <= TryValues THEN tries + 1 ELSE tries
    /\ UNCHANGED <<ring, receiver, sent, heard, delivered, report, refused, faults>>

\* rf_u8_get_transmit_status: the radio is also busy while it receives, which may
\* begin between two calls.
StatusRead == {radio.status, "BUSY"}

\* Mutant: an access failure is no try.
AttemptsAfter_CcaFree(status) ==
    IF status = "FAILED_CCA" THEN sender.attempts ELSE (sender.attempts - 1) % TryValues
AttemptsAfter(status) == (sender.attempts - 1) % TryValues

\* The transmission is over.  A status that is neither success nor access failure counts
\* as a missing acknowledgment, "BUSY" included: the frame is sent again although it arrived.
TryAgain ==
    /\ sender.pc = "busy" /\ radio.status # "BUSY"
    /\ \E status \in StatusRead :
          /\ status # "OK"
          /\ AttemptsAfter(status) > 0
          /\ sender' = [sender EXCEPT !.attempts = AttemptsAfter(status), !.pc = "mode"]
    /\ UNCHANGED <<radio, ring, receiver, sent, heard, delivered, report, refused, tries, faults>>

\* The status is read once more for the report.
Finish ==
    /\ sender.pc = "busy" /\ radio.status # "BUSY"
    /\ \E status, final \in StatusRead :
          /\ status = "OK" \/ AttemptsAfter(status) = 0
          /\ report' = [report EXCEPT ![sender.msg.id] = IF final = "OK" THEN "OK" ELSE "FAILED"]
          /\ sender' = [sender EXCEPT !.pc = "wait", !.msg = NoFrame,
                                      !.attempts = IF status = "OK" THEN @ ELSE AttemptsAfter(status)]
    /\ UNCHANGED <<radio, ring, receiver, sent, heard, delivered, refused, tries, faults>>

\* Everything in memory is gone.  The frames that were not reported never will be.
Reboot ==
    /\ faults < MaxFaults
    /\ sender' = Started(sender.session + 1)
    /\ radio' = [status |-> "IDLE", frame |-> NoFrame, copies |-> 0]
    /\ faults' = faults + 1
    /\ tries' = 0
    /\ UNCHANGED <<ring, receiver, sent, heard, delivered, report, refused>>

-----------------------------------------------------------------------------
(* The radios *)

\* The frame reaches the neighbor.  Its radio acknowledges it, also when no
\* buffer is free.
Arrive ==
    /\ radio.status = "BUSY"
    /\ radio.copies < IF AsksForAck(radio.frame.kind) THEN HardTries ELSE 1
    /\ radio' = [radio EXCEPT !.copies = @ + 1]
    /\ heard' = heard \cup {radio.frame.id}
    /\ ring' = IF Len(ring) < RingSize THEN Append(ring, radio.frame) ELSE ring
    /\ UNCHANGED <<sender, receiver, sent, delivered, report, refused, tries, faults>>

\* The end of the transmission, TRX24_TX_END_vect.
TxEnd ==
    /\ radio.status = "BUSY"
    /\ \/ /\ AsksForAck(radio.frame.kind) => radio.copies > 0
          /\ radio' = [radio EXCEPT !.status = "OK"]
       \/ radio' = [radio EXCEPT !.status = "FAILED_CCA"]
       \/ /\ AsksForAck(radio.frame.kind)
          /\ radio' = [radio EXCEPT !.status = "FAILED_NO_ACK"]
    /\ UNCHANGED <<sender, ring, receiver, sent, heard, delivered, report, refused, tries, faults>>

-----------------------------------------------------------------------------
(* Receiver *)

\* add_to_replay_cache
InCache(entry) == \E i \in 1 .. CacheSize : receiver.cache[i] = entry
\* Mutant: the pointer does not return to the first entry.
WithEntry_NoWrap(entry) == [receiver EXCEPT !.cache[receiver.ptr] = entry, !.ptr = @ + 1]
WithEntry(entry) == [receiver EXCEPT !.cache[receiver.ptr] = entry,
                                     !.ptr = (@ % CacheSize) + 1]

\* Mutant: the counter of the last frame is good enough.
IsNew_Equal(frame) == frame.counter >= receiver.counter
\* wcom_mac_sec_i8_verify_message, the counter
IsNew(frame) == frame.counter > receiver.counter

Verified(frame) == IsNew(frame) /\ frame.session = receiver.iv

\* A thunder is signed with the session it carries and goes to the neighbor module, which
\* accepts one answer to each challenge and stores its session and counter.
AnswersChallenge(frame) == ~Contains(delivered, frame.id)

\* wcom_mac_v_rx_handler.  The frame is in the cache before it is known to be genuine.
RxHandler ==
    /\ ring # <<>>
    /\ ring' = Tail(ring)
    /\ LET frame == Head(ring)
           entry == <<frame.seq, "sender">>
           known == WithEntry(entry)
       IN
       \/ /\ InCache(entry)
          /\ UNCHANGED <<receiver, delivered, refused>>
       \/ /\ ~InCache(entry)
          /\ frame.kind = "thunder" /\ AnswersChallenge(frame)
          /\ receiver' = [known EXCEPT !.iv = frame.session, !.counter = frame.counter]
          /\ delivered' = Append(delivered, frame.id)
          /\ UNCHANGED refused
       \/ /\ ~InCache(entry)
          /\ frame.kind # "thunder" /\ Verified(frame)
          /\ receiver' = [known EXCEPT !.counter = frame.counter]
          /\ delivered' = Append(delivered, frame.id)
          /\ UNCHANGED refused
       \/ /\ ~InCache(entry)
          /\ ~(IF frame.kind = "thunder" THEN AnswersChallenge(frame) ELSE Verified(frame))
          /\ receiver' = known
          /\ refused' = IF frame.session = receiver.iv THEN refused \cup {frame.id} ELSE refused
          /\ UNCHANGED delivered
    /\ UNCHANGED <<sender, radio, sent, heard, report, tries, faults>>

\* A frame of another sender passes through the replay cache.
Noise ==
    /\ receiver' = WithEntry(Other)
    /\ UNCHANGED <<sender, radio, ring, sent, heard, delivered, report, refused, tries, faults>>

\* The receiver drops the sender from its list of neighbors.
Forget ==
    /\ faults < MaxFaults
    /\ receiver.iv # NoSession
    /\ receiver' = [receiver EXCEPT !.iv = NoSession, !.counter = 0]
    /\ faults' = faults + 1
    /\ UNCHANGED <<sender, radio, ring, sent, heard, delivered, report, refused, tries>>

TxThread == TakeMsg \/ Transmit \/ TryAgain \/ Finish

Next == CreateTxMsg \/ TxThread \/ Reboot \/ Arrive \/ TxEnd \/ RxHandler \/ Noise \/ Forget

Spec == Init /\ [][Next]_macVars

-----------------------------------------------------------------------------
(* Properties *)

\* The MAC is a link as module Link says: a frame is handed over at most once and in
\* order, whatever the radio repeats and the cache forgets, and success is reported only
\* for what the neighbor's radio heard.
LinkOf == INSTANCE Link
ImplementsLink == LinkOf!LinkSpec

\* The replay counter refuses repetitions only: no frame of the session is lost
\* because another one overtook it (frames get their numbers in the order of the queue).
RefusesOnlyRepeats == \A i \in refused : Contains(delivered, i)

\* A frame that asks for an acknowledgment is tried as often as the configuration says.
\* Any other frame may start with 0 tries left, which wraps, but ends after that.
TriesBounded ==
    sender.pc # "wait" =>
        tries <= IF AsksForAck(sender.msg.kind) THEN SoftTries ELSE TryValues

\* The queue, the caches and the counters hold what they can hold, the replay counter loses
\* no frame of the session, and the tries are those of the configuration or end.
MacSound == TypeOK /\ RefusesOnlyRepeats /\ TriesBounded

Reported == {i \in DOMAIN report : report[i] # "none"}

\* Every frame is reported in the end, unless the sender reboots.
EveryFrameReported ==
    []<>(Reported = DOMAIN report \/ faults > 0)
=============================================================================
