--------------------------- MODULE ServicesProofs ---------------------------
(***************************************************************************)
(* The MAC is a link, for every size of queues and caches, every number of *)
(* tries and any number of reboots: it hands over each frame at most once  *)
(* and in order, and reports success only for what was heard.              *)
(*                                                                         *)
(* Frames stand in a line: those in the receiver's ring, the one that is   *)
(* being transmitted, those in the queue.  A frame that was handed over is *)
(* not later in the line than any of them, and of a session the counters   *)
(* grow along the line, so that the replay counter of the receiver tells a *)
(* repetition from a new frame.                                            *)
(*                                                                         *)
(* The list of neighbors of a node, its upstream and its depth agree: the  *)
(* upstream is a neighbor, and no other is marked as one.                  *)
(*                                                                         *)
(* IP over the mesh hands over whole messages and refuses only what it has *)
(* seen, or what has the tag of such a message from an earlier round of    *)
(* the tags: an entry of a replay cache, however often it is overwritten,  *)
(* ages or becomes young again, is unused or tells of a message that was   *)
(* seen, and of two messages of one start with the same tag the numbers    *)
(* lie a round apart.                                                      *)
(*                                                                         *)
(* The gateway.  Whatever messages are lost, repeated or late and however  *)
(* often it restarts, an address that is in use was leased to its user.    *)
(* Whatever replies overwrite the entries that threads wait for, and       *)
(* however many of them wait, a frame goes to an address that its next hop *)
(* has or had, or all tries were in vain.  Whatever gateways join the mesh *)
(* and the Ethernet, a broadcast that is local to the mesh does not come   *)
(* back.                                                                   *)
(***************************************************************************)
EXTENDS Services, SequenceTheorems, FiniteSetTheorems, WellFoundedInduction, TLAPS

Kinds == {"thunder", "data", "broadcast"}
Frame == [id : Nat, kind : Kinds, seq : 0 .. SeqNumbers - 1, counter : Nat, session : Nat]
Entry == {Mac!Free, Mac!Other} \cup {<<s, "sender">> : s \in 0 .. SeqNumbers - 1}
Sender == [queue : Seq(Frame), seq : 0 .. SeqNumbers - 1, counter : Nat, session : Nat \ {0},
           pc : {"wait", "mode", "busy"}, msg : Frame, attempts : 0 .. TryValues - 1]
Radio == [status : {"IDLE", "BUSY", "OK", "FAILED_CCA", "FAILED_NO_ACK"}, frame : Frame,
          copies : Nat]
Receiver == [cache : Seq(Entry), ptr : 1 .. CacheSize, iv : Nat, counter : Nat]

MacTypes ==
    /\ sender \in Sender /\ Len(sender.queue) <= QueueSize
    /\ radio \in Radio
    /\ ring \in Seq(Frame) /\ Len(ring) <= RingSize
    /\ receiver \in Receiver /\ Len(receiver.cache) = CacheSize
    /\ sent \in Seq(BOOLEAN) /\ report \in Seq({"none", "OK", "FAILED"}) /\ Len(report) = Len(sent)
    /\ heard \subseteq 1 .. Len(sent)
    /\ delivered \in Seq(1 .. Len(sent))
    /\ tries \in Nat

\* A frame of this sender, with numbers that it has given.
Created(f) ==
    /\ f.id \in 1 .. Len(sent) /\ sent[f.id] = Mac!AsksForAck(f.kind)
    /\ f.session \in 1 .. sender.session
    /\ f.session = sender.session => f.counter <= sender.counter

\* A frame that the sender has yet to report.
Pending(f) == Created(f) /\ report[f.id] = "none" /\ f.session = sender.session

\* f was created before g, and its counter is lower unless a reboot lies between.
Before(f, g) == f.id < g.id /\ (f.session = g.session => f.counter < g.counter)
Upto(f, g) == f = g \/ Before(f, g)

\* A frame that waits is one that the receiver has neither taken nor could refuse.
Unseen(f) ==
    /\ \A k \in 1 .. Len(delivered) : delivered[k] < f.id
    /\ f.session = receiver.iv => receiver.counter < f.counter

\* A frame on its way may have been taken already; the replay counter tells exactly.
Current(f) ==
    /\ \A k \in 1 .. Len(delivered) : delivered[k] <= f.id
    /\ f.session = receiver.iv => (f.counter <= receiver.counter <=> Mac!Contains(delivered, f.id))

\* The frame that is being transmitted.
OnAir == IF sender.pc = "wait" THEN {} ELSE {sender.msg}

QueueInv ==
    /\ \A f \in Mac!ToSet(sender.queue) : Pending(f) /\ Unseen(f)
    /\ \A i, j \in DOMAIN sender.queue : i < j => Before(sender.queue[i], sender.queue[j])

AirInv ==
    \A f \in OnAir : Pending(f) /\ Current(f) /\ \A g \in Mac!ToSet(sender.queue) : Before(f, g)

RadioInv ==
    /\ radio.status = "BUSY" => sender.pc = "busy"
    /\ sender.pc = "busy" =>
          /\ radio.frame = sender.msg
          /\ radio.copies > 0 => sender.msg.id \in heard
          /\ radio.status = "OK" /\ Mac!AsksForAck(sender.msg.kind) => radio.copies > 0

RingInv ==
    /\ \A f \in Mac!ToSet(ring) :
          /\ Created(f) /\ f.id \in heard /\ Current(f)
          /\ \A g \in OnAir : Upto(f, g)
          /\ \A g \in Mac!ToSet(sender.queue) : Before(f, g)
    /\ \A i, j \in DOMAIN ring : i < j => Upto(ring[i], ring[j])

ReceiverInv ==
    /\ receiver.iv <= sender.session
    /\ receiver.iv = sender.session => receiver.counter <= sender.counter
    /\ Mac!RefusesOnlyRepeats

\* Each transmission has used up a try.
TriesInv ==
    LET limit == IF Mac!AsksForAck(sender.msg.kind) THEN SoftTries ELSE TryValues
        fresh == ~Mac!AsksForAck(sender.msg.kind)
    IN
    /\ sender.pc = "mode" => \/ fresh /\ tries = 0
                             \/ sender.attempts > 0 /\ tries + sender.attempts <= limit
    /\ sender.pc = "busy" => \/ fresh /\ tries = 1
                             \/ sender.attempts > 0 /\ tries + sender.attempts <= limit + 1

MacInv == MacTypes /\ QueueInv /\ AirInv /\ RadioInv /\ RingInv /\ ReceiverInv /\ TriesInv

-----------------------------------------------------------------------------
(* Lemmas about frames *)

\* The frames of a queue to which one is added, or from which the first one is taken.
LEMMA AddedFrame ==
  ASSUME NEW s \in Seq(Frame), NEW f \in Frame
  PROVE  /\ Append(s, f) \in Seq(Frame) /\ Len(Append(s, f)) = Len(s) + 1
         /\ Mac!ToSet(Append(s, f)) = Mac!ToSet(s) \cup {f} /\ Mac!ToSet(s) \subseteq Frame
         /\ \A i \in DOMAIN Append(s, f) :
               \/ i \in DOMAIN s /\ Append(s, f)[i] = s[i] /\ s[i] \in Mac!ToSet(s)
               \/ i = Len(s) + 1 /\ Append(s, f)[i] = f
<1>1. /\ Append(s, f) \in Seq(Frame) /\ Len(Append(s, f)) = Len(s) + 1
      /\ DOMAIN s = 1 .. Len(s) /\ DOMAIN Append(s, f) = 1 .. Len(s) + 1 /\ Len(s) \in Nat
      /\ Append(s, f)[Len(s) + 1] = f /\ \A i \in 1 .. Len(s) : Append(s, f)[i] = s[i] /\ s[i] \in Frame
  OBVIOUS
<1>2. \A i \in DOMAIN s : s[i] \in Mac!ToSet(s)
  BY DEF Mac!ToSet
<1>3. \A i \in DOMAIN Append(s, f) : i \in DOMAIN s \/ i = Len(s) + 1
  BY <1>1
<1>4. Mac!ToSet(Append(s, f)) = Mac!ToSet(s) \cup {f}
  BY <1>1, <1>3 DEF Mac!ToSet
<1>5. Mac!ToSet(s) \subseteq Frame
  BY <1>1 DEF Mac!ToSet
<1> QED
  BY <1>1, <1>2, <1>3, <1>4, <1>5

LEMMA FirstFrame ==
  ASSUME NEW s \in Seq(Frame), s # <<>>
  PROVE  /\ Head(s) \in Mac!ToSet(s) /\ Head(s) = s[1] /\ 1 \in DOMAIN s
         /\ Mac!ToSet(s) \subseteq Frame
         /\ Tail(s) \in Seq(Frame) /\ Len(Tail(s)) = Len(s) - 1
         /\ \A i \in DOMAIN Tail(s) : i + 1 \in DOMAIN s /\ Tail(s)[i] = s[i + 1] /\ i \in Nat /\ i >= 1
         /\ Mac!ToSet(Tail(s)) \subseteq Mac!ToSet(s)
         /\ \A f \in Mac!ToSet(Tail(s)) : \E i \in DOMAIN s : i > 1 /\ f = s[i]
<1>1. /\ Len(s) \in Nat \ {0} /\ DOMAIN s = 1 .. Len(s) /\ Tail(s) \in Seq(Frame)
      /\ Len(Tail(s)) = Len(s) - 1 /\ DOMAIN Tail(s) = 1 .. Len(s) - 1 /\ Head(s) = s[1]
      /\ \A i \in 1 .. Len(s) - 1 : Tail(s)[i] = s[i + 1]
      /\ \A i \in 1 .. Len(s) : s[i] \in Frame
  OBVIOUS
<1>2. 1 \in DOMAIN s /\ \A i \in DOMAIN Tail(s) : i + 1 \in DOMAIN s /\ i + 1 > 1 /\ i \in Nat /\ i >= 1
  BY <1>1
<1>3. Mac!ToSet(Tail(s)) \subseteq Mac!ToSet(s) /\ Head(s) \in Mac!ToSet(s) /\ Mac!ToSet(s) \subseteq Frame
  BY <1>1, <1>2 DEF Mac!ToSet
<1>4. \A f \in Mac!ToSet(Tail(s)) : \E i \in DOMAIN s : i > 1 /\ f = s[i]
  BY <1>1, <1>2 DEF Mac!ToSet
<1> QED
  BY <1>1, <1>2, <1>3, <1>4

\* A frame that was created stays one of the sender's, whatever it sends after it.
LEMMA CreatedKept ==
  ASSUME MacTypes, NEW f \in Frame, Created(f), sender' \in Sender,
         sent' = sent \/ \E b \in BOOLEAN : sent' = Append(sent, b),
         \/ sender'.session = sender.session /\ sender'.counter >= sender.counter
         \/ sender'.session > sender.session
  PROVE  Created(f)'
<1>1. /\ f.id \in Nat /\ f.session \in Nat /\ f.counter \in Nat
      /\ sender.session \in Nat /\ sender'.session \in Nat
      /\ sender.counter \in Nat /\ sender'.counter \in Nat
  BY DEF MacTypes, Sender, Frame
<1>2. f.id \in 1 .. Len(sent') /\ sent'[f.id] = sent[f.id]
  BY <1>1 DEF Created, MacTypes
<1>3. f.session \in 1 .. sender'.session
  BY <1>1 DEF Created
<1>4. f.session = sender'.session => f.counter <= sender'.counter
  BY <1>1 DEF Created
<1> QED
  BY <1>2, <1>3, <1>4 DEF Created

\* What the receiver knows is unchanged.
LEMMA SeenKept ==
  ASSUME NEW f, delivered' = delivered, receiver'.iv = receiver.iv, receiver'.counter = receiver.counter
  PROVE  (Unseen(f)' <=> Unseen(f)) /\ (Current(f)' <=> Current(f))
BY DEF Unseen, Current

\* A frame nobody has seen is on its way like any other.
LEMMA UnseenIsCurrent ==
  ASSUME MacTypes, NEW f \in Frame, Unseen(f)
  PROVE  Current(f)
<1>1. f.id \in Nat /\ f.counter \in Nat /\ receiver.counter \in Nat
      /\ \A k \in 1 .. Len(delivered) : delivered[k] \in Nat
  BY DEF MacTypes, Frame, Receiver
<1> QED
  BY <1>1 DEF Unseen, Current, Mac!Contains

LEMMA BeforeTransitive ==
  ASSUME NEW f \in Frame, NEW g \in Frame, NEW h \in Frame, Before(g, h),
         g.session = sender.session, h.session = sender.session,
         Upto(f, g)
  PROVE  Before(f, h)
BY DEF Before, Upto, Frame

\* The receiver takes frame f, which it has not taken: what it knows of the others.
LEMMA Taken ==
  ASSUME MacTypes, NEW f \in Frame, NEW g \in Frame, Current(f), ~Mac!Contains(delivered, f.id),
         delivered' = Append(delivered, f.id), receiver'.iv = f.session,
         receiver'.counter = f.counter, Upto(f, g)
  PROVE  /\ Current(g)'
         /\ Before(f, g) => Unseen(g)'
<1>1. /\ f.id \in Nat /\ g.id \in Nat /\ f.counter \in Nat /\ g.counter \in Nat
      /\ \A k \in 1 .. Len(delivered) : delivered[k] \in Nat /\ delivered[k] < f.id
  <2>1. \A k \in 1 .. Len(delivered) : delivered[k] # f.id /\ delivered[k] <= f.id
    BY DEF Mac!Contains, Current
  <2>2. \A k \in 1 .. Len(delivered) : delivered[k] \in Nat
    BY DEF MacTypes
  <2> QED
    BY <2>1, <2>2 DEF Frame
<1>2. /\ Len(delivered') = Len(delivered) + 1 /\ Len(delivered) \in Nat
      /\ \A k \in 1 .. Len(delivered') :
            delivered'[k] = IF k = Len(delivered) + 1 THEN f.id ELSE delivered[k]
  BY DEF MacTypes
<1>3. CASE g = f
  <2>1. \A k \in 1 .. Len(delivered') : delivered'[k] <= f.id
    BY <1>1, <1>2
  <2>2. Mac!Contains(delivered', f.id)
    BY <1>2 DEF Mac!Contains
  <2>3. ~Before(f, g)
    BY <1>1, <1>3 DEF Before
  <2> QED
    BY <1>1, <1>3, <2>1, <2>2, <2>3 DEF Current
<1>4. CASE Before(f, g)
  <2>1. \A k \in 1 .. Len(delivered') : delivered'[k] < g.id
    BY <1>1, <1>2, <1>4 DEF Before
  <2>2. ~Mac!Contains(delivered', g.id)
    BY <1>1, <2>1 DEF Mac!Contains
  <2>3. g.session = receiver'.iv => receiver'.counter < g.counter
    BY <1>4 DEF Before
  <2> QED
    BY <1>1, <1>2, <2>1, <2>2, <2>3 DEF Current, Unseen
<1> QED
  BY <1>3, <1>4 DEF Upto

-----------------------------------------------------------------------------
(* The steps of the sender *)

\* A new frame has the highest numbers, and nobody has seen it.
LEMMA CreateStep ==
  ASSUME MacAssumption, MacInv, Mac!CreateTxMsg
  PROVE  MacInv'
<1>0. MacTypes /\ QueueInv /\ AirInv /\ RadioInv /\ RingInv /\ ReceiverInv /\ TriesInv
  BY DEF MacInv
<1>1. PICK kind \in Plan[Len(sent) + 1] :
         /\ sender' = [sender EXCEPT !.queue = Mac!Queued(Mac!BuildFrame(kind)),
                                     !.seq = (@ + 1) % SeqNumbers, !.counter = @ + 1]
         /\ sent' = Append(sent, Mac!AsksForAck(kind))
  BY DEF Mac!CreateTxMsg
<1>2. kind \in Kinds
  <2>1. Plan[Len(sent) + 1] \subseteq Kinds
    BY <1>0 DEF Mac!CreateTxMsg, MacTypes, Kinds, MacAssumption
  <2> QED
    BY <2>1
<1>3. /\ sender.queue \in Seq(Frame) /\ sender.seq \in Nat /\ sender.counter \in Nat
      /\ sender.session \in Nat \ {0} /\ Len(sent) \in Nat /\ sent \in Seq(BOOLEAN)
      /\ receiver.counter \in Nat /\ receiver.iv \in Nat
      /\ Len(sender.queue) < QueueSize
  <2>1. /\ sender.queue \in Seq(Frame) /\ sender.seq \in Nat /\ sender.counter \in Nat
        /\ sender.session \in Nat \ {0}
    BY <1>0 DEF MacTypes, Sender, MacAssumption
  <2>2. Len(sender.queue) \in Nat /\ QueueSize \in Nat
    BY <2>1 DEF MacAssumption
  <2>3. Len(sender.queue) < QueueSize
    BY <2>2 DEF Mac!CreateTxMsg, Mac!Busy
  <2>4. Len(sent) \in Nat /\ sent \in Seq(BOOLEAN) /\ receiver.counter \in Nat /\ receiver.iv \in Nat
    BY <1>0 DEF MacTypes, Receiver
  <2> QED
    BY <2>1, <2>3, <2>4
<1>4. (sender.seq + 1) % SeqNumbers \in 0 .. SeqNumbers - 1
  BY <1>3 DEF MacAssumption
<1>5. PICK added \in Frame :
      /\ added = Mac!BuildFrame(kind) /\ added.id = Len(sent) + 1 /\ added.kind = kind
      /\ added.session = sender.session /\ added.counter = sender.counter + 1
  <2>1. Mac!BuildFrame(kind) \in Frame
    BY <1>2, <1>3, <1>4 DEF Mac!BuildFrame, Frame
  <2> QED
    BY <2>1 DEF Mac!BuildFrame
<1>6. /\ sender'.queue = Append(sender.queue, added) /\ sender'.counter = sender.counter + 1
      /\ sender'.session = sender.session /\ sender'.pc = sender.pc /\ sender'.msg = sender.msg
      /\ sender'.attempts = sender.attempts /\ sender' \in Sender
  <2>1. /\ sender'.queue = Append(sender.queue, added) /\ sender'.counter = sender.counter + 1
        /\ sender'.session = sender.session /\ sender'.pc = sender.pc /\ sender'.msg = sender.msg
        /\ sender'.attempts = sender.attempts
    BY <1>0, <1>1, <1>5 DEF MacTypes, Sender, Mac!Queued
  <2>2. Append(sender.queue, added) \in Seq(Frame)
    BY <1>3, <1>5
  <2>3. sender' \in Sender
    <3>1. sender' = [sender EXCEPT !.queue = Append(sender.queue, added),
                                   !.seq = (sender.seq + 1) % SeqNumbers,
                                   !.counter = sender.counter + 1]
      BY <1>1, <1>5 DEF Mac!Queued
    <3>2. sender.counter + 1 \in Nat
      BY <1>3
    <3> HIDE DEF Mac!CreateTxMsg
    <3> QED
      BY <1>0, <1>4, <2>2, <3>1, <3>2 DEF MacTypes, Sender
  <2> QED
    BY <2>1, <2>3
<1>7. /\ sent' = Append(sent, Mac!AsksForAck(kind)) /\ report' = Append(report, "none")
      /\ Mac!AsksForAck(kind) \in BOOLEAN
      /\ UNCHANGED <<radio, ring, receiver, heard, delivered, refused, tries>>
  BY <1>1 DEF Mac!CreateTxMsg, Mac!AsksForAck
<1>8. MacTypes'
  <2>1. Len(sender'.queue) <= QueueSize
    BY <1>3, <1>5, <1>6 DEF MacAssumption
  <2>2. sent' \in Seq(BOOLEAN) /\ Len(sent') = Len(sent) + 1
    BY <1>3, <1>7
  <2>3. report' \in Seq({"none", "OK", "FAILED"}) /\ Len(report') = Len(sent')
    BY <1>0, <1>7, <2>2 DEF MacTypes
  <2>4. 1 .. Len(sent) \subseteq 1 .. Len(sent')
    BY <1>3, <2>2
  <2>5. heard' \subseteq 1 .. Len(sent') /\ delivered' \in Seq(1 .. Len(sent'))
    BY <1>0, <1>7, <2>4 DEF MacTypes
  <2> QED
    BY <1>0, <1>6, <1>7, <2>1, <2>2, <2>3, <2>5 DEF MacTypes
<1>9. ASSUME NEW f \in Frame, Created(f)
      PROVE  Created(f)' /\ report'[f.id] = report[f.id] /\ Before(f, added)
  <2>1. Created(f)'
    <3>1. \E b \in BOOLEAN : sent' = Append(sent, b)
      BY <1>7
    <3>2. sender'.counter >= sender.counter
      BY <1>3, <1>6
    <3> QED
      BY <1>0, <1>6, <1>9, <3>1, <3>2, CreatedKept
  <2>2. f.id \in 1 .. Len(sent) /\ Len(report) = Len(sent)
    BY <1>0, <1>9 DEF MacTypes, Created
  <2>3. report'[f.id] = report[f.id]
    BY <1>0, <1>7, <2>2 DEF MacTypes
  <2>4. Before(f, added)
    BY <1>3, <1>5, <1>9, <2>2 DEF Before, Created, Frame
  <2> QED
    BY <2>1, <2>3, <2>4
<1>10. Pending(added)' /\ Unseen(added)'
  <2>1. Created(added)'
    <3>1. added.id \in 1 .. Len(sent') /\ sent'[added.id] = Mac!AsksForAck(added.kind)
      BY <1>3, <1>5, <1>7
    <3>2. added.session \in 1 .. sender'.session /\ added.counter <= sender'.counter
      BY <1>3, <1>5, <1>6
    <3> QED
      BY <3>1, <3>2 DEF Created
  <2>2. report'[added.id] = "none"
    BY <1>0, <1>3, <1>5, <1>7 DEF MacTypes
  <2>3. \A k \in 1 .. Len(delivered) : delivered[k] < added.id
    BY <1>0, <1>3, <1>5 DEF MacTypes
  <2>4. added.session = receiver.iv => receiver.counter < added.counter
    BY <1>0, <1>3, <1>5 DEF ReceiverInv
  <2> QED
    BY <1>5, <1>6, <1>7, <2>1, <2>2, <2>3, <2>4 DEF Pending, Unseen
<1>11. ASSUME NEW f \in Frame, Pending(f)
       PROVE  Pending(f)'
  BY <1>6, <1>9, <1>11 DEF Pending
<1>12. /\ Mac!ToSet(sender'.queue) = Mac!ToSet(sender.queue) \cup {added}
       /\ Mac!ToSet(sender.queue) \subseteq Frame
       /\ \A i \in DOMAIN sender'.queue :
             \/ i \in DOMAIN sender.queue /\ sender'.queue[i] = sender.queue[i]
                                         /\ sender.queue[i] \in Mac!ToSet(sender.queue)
             \/ i = Len(sender.queue) + 1 /\ sender'.queue[i] = added
  BY <1>3, <1>6, AddedFrame
<1>13. \A f : (Unseen(f)' <=> Unseen(f)) /\ (Current(f)' <=> Current(f))
  BY <1>7, SeenKept
<1>14. QueueInv'
  <2>1. \A f \in Mac!ToSet(sender.queue) : Pending(f)' /\ Unseen(f)' /\ Before(f, added)
    BY <1>0, <1>9, <1>11, <1>12, <1>13 DEF QueueInv, Pending
  <2>2. \A f \in Mac!ToSet(sender'.queue) : Pending(f)' /\ Unseen(f)'
    BY <1>10, <1>12, <2>1
  <2>3. ASSUME NEW i \in DOMAIN sender'.queue, NEW j \in DOMAIN sender'.queue, i < j
        PROVE  Before(sender'.queue[i], sender'.queue[j])
    <3>1. DOMAIN sender.queue = 1 .. Len(sender.queue) /\ Len(sender.queue) \in Nat
      BY <1>3
    <3>2. i \in DOMAIN sender.queue
      BY <1>12, <2>3, <3>1
    <3>3. CASE j = Len(sender.queue) + 1
      BY <1>12, <2>1, <3>1, <3>2, <3>3
    <3>4. CASE j # Len(sender.queue) + 1
      BY <1>0, <1>12, <2>3, <3>1, <3>2, <3>4 DEF QueueInv
    <3> QED
      BY <3>3, <3>4
  <2> QED
    BY <2>2, <2>3 DEF QueueInv
<1>15. OnAir' = OnAir /\ OnAir \subseteq Frame
  BY <1>0, <1>6 DEF OnAir, MacTypes, Sender
<1>16. AirInv'
  <2>1. \A f \in OnAir : Pending(f)' /\ Before(f, added)
    BY <1>0, <1>9, <1>11, <1>15 DEF AirInv, Pending
  <2> QED
    BY <1>0, <1>12, <1>13, <1>15, <2>1 DEF AirInv
<1>19. RingInv'
  <2>1. Mac!ToSet(ring) \subseteq Frame
    BY <1>0 DEF MacTypes, Mac!ToSet
  <2>2. \A f \in Mac!ToSet(ring) : Created(f)' /\ Before(f, added)
    BY <1>0, <1>9, <2>1 DEF RingInv
  <2> QED
    BY <1>0, <1>7, <1>12, <1>13, <1>15, <2>2 DEF RingInv
<1>17. RadioInv' /\ TriesInv'
  BY <1>0, <1>6, <1>7 DEF RadioInv, TriesInv
<1>18. ReceiverInv'
  BY <1>0, <1>3, <1>6, <1>7 DEF ReceiverInv, Mac!RefusesOnlyRepeats
<1> QED
  BY <1>8, <1>14, <1>16, <1>19, <1>17, <1>18 DEF MacInv

\* The numbers are given when a frame is created, and only then.
LEMMA NumbersKept ==
  ASSUME NEW f, sent' = sent, sender'.session = sender.session, sender'.counter = sender.counter
  PROVE  /\ Created(f)' <=> Created(f)
         /\ report' = report => (Pending(f)' <=> Pending(f))
BY DEF Created, Pending

\* The first frame of the queue is the oldest.
LEMMA TakeStep ==
  ASSUME MacAssumption, MacInv, Mac!TakeMsg
  PROVE  MacInv'
<1>0. MacTypes /\ QueueInv /\ AirInv /\ RadioInv /\ RingInv /\ ReceiverInv /\ TriesInv
  BY DEF MacInv
<1>1. PICK first \in Frame : first = Head(sender.queue)
  BY <1>0, FirstFrame DEF MacTypes, Sender, Mac!TakeMsg
<1>2. /\ sender.pc = "wait" /\ sender.queue # <<>> /\ tries' = 0
      /\ UNCHANGED <<radio, ring, receiver, sent, heard, delivered, report, refused>>
      /\ sender' = [sender EXCEPT !.queue = Tail(sender.queue), !.msg = first, !.pc = "mode",
                                  !.attempts = Mac!AttemptsFor(first)]
  BY <1>1 DEF Mac!TakeMsg
<1>3. /\ Mac!AttemptsFor(first) \in 0 .. TryValues - 1
      /\ Mac!AsksForAck(first.kind) => Mac!AttemptsFor(first) = SoftTries
  BY <1>0 DEF MacTypes, Sender, Mac!AttemptsFor, MacAssumption
<1>4. /\ sender'.queue = Tail(sender.queue) /\ sender'.pc = "mode" /\ sender'.msg = first
      /\ sender'.session = sender.session /\ sender'.counter = sender.counter
      /\ sender'.attempts = Mac!AttemptsFor(first)
  BY <1>0, <1>2 DEF MacTypes, Sender
<1>5. /\ first \in Mac!ToSet(sender.queue) /\ first = sender.queue[1] /\ 1 \in DOMAIN sender.queue
      /\ Mac!ToSet(sender.queue) \subseteq Frame
      /\ Tail(sender.queue) \in Seq(Frame) /\ Len(Tail(sender.queue)) = Len(sender.queue) - 1
      /\ Mac!ToSet(sender'.queue) \subseteq Mac!ToSet(sender.queue)
      /\ \A f \in Mac!ToSet(sender'.queue) : \E i \in DOMAIN sender.queue : i > 1 /\ f = sender.queue[i]
      /\ \A i \in DOMAIN sender'.queue : /\ i + 1 \in DOMAIN sender.queue /\ i \in Nat
                                       /\ sender'.queue[i] = sender.queue[i + 1]
  BY <1>0, <1>1, <1>2, <1>4, FirstFrame DEF MacTypes, Sender
<1>6. MacTypes'
  <2>1. sender' \in Sender
    BY <1>0, <1>2, <1>3, <1>5 DEF MacTypes, Sender
  <2>2. Len(sender'.queue) <= QueueSize
    <3>1. sender.queue \in Seq(Frame) /\ Len(sender.queue) <= QueueSize
      BY <1>0 DEF MacTypes, Sender
    <3> QED
      BY <1>4, <1>5, <3>1 DEF MacAssumption
  <2> QED
    BY <1>0, <1>2, <2>1, <2>2 DEF MacTypes
<1>7. \A f : (Created(f)' <=> Created(f)) /\ (Pending(f)' <=> Pending(f))
              /\ (Unseen(f)' <=> Unseen(f)) /\ (Current(f)' <=> Current(f))
  BY <1>2, <1>4, NumbersKept, SeenKept
<1>8. QueueInv'
  BY <1>0, <1>5, <1>7 DEF QueueInv
<1>9. OnAir' = {first}
  BY <1>4 DEF OnAir
<1>10. AirInv'
  <2>1. Pending(first) /\ Current(first)
    BY <1>0, <1>5, UnseenIsCurrent DEF QueueInv
  <2>2. \A g \in Mac!ToSet(sender'.queue) : Before(first, g)
    BY <1>0, <1>5 DEF QueueInv
  <2> QED
    BY <1>7, <1>9, <2>1, <2>2 DEF AirInv
<1>11. RingInv'
  BY <1>0, <1>2, <1>5, <1>7, <1>9 DEF RingInv, Upto
<1>12. RadioInv'
  BY <1>0, <1>2, <1>4 DEF RadioInv
<1>13. ReceiverInv'
  BY <1>0, <1>2, <1>4 DEF ReceiverInv, Mac!RefusesOnlyRepeats
<1>14. TriesInv'
  BY <1>2, <1>3, <1>4 DEF TriesInv, MacAssumption
<1> QED
  BY <1>6, <1>8, <1>10, <1>11, <1>12, <1>13, <1>14 DEF MacInv

\* The thread goes on with the frame: the queue and the frame stay as they are.
LEMMA TransmitStep ==
  ASSUME MacAssumption, MacInv, Mac!Transmit \/ Mac!TryAgain
  PROVE  MacInv'
<1>0. MacTypes /\ QueueInv /\ AirInv /\ RadioInv /\ RingInv /\ ReceiverInv /\ TriesInv
  BY DEF MacInv
<1>1. /\ sender.pc # "wait" /\ sender'.pc # "wait" /\ sender' \in Sender
      /\ sender'.queue = sender.queue /\ sender'.msg = sender.msg
      /\ sender'.session = sender.session /\ sender'.counter = sender.counter
      /\ UNCHANGED <<ring, receiver, sent, heard, delivered, report, refused>>
  <2>1. CASE Mac!Transmit
    BY <1>0, <2>1 DEF Mac!Transmit, MacTypes, Sender
  <2>2. CASE Mac!TryAgain
    <3>1. PICK n \in 0 .. TryValues - 1 : sender' = [sender EXCEPT !.attempts = n, !.pc = "mode"]
      <4>1. (sender.attempts - 1) % TryValues \in 0 .. TryValues - 1
        BY <1>0 DEF MacTypes, Sender, MacAssumption
      <4> QED
        BY <2>2, <4>1 DEF Mac!TryAgain, Mac!AttemptsAfter
    <3> QED
      BY <1>0, <2>2, <3>1 DEF Mac!TryAgain, MacTypes, Sender
  <2> QED
    BY <2>1, <2>2
<1>2. radio' \in Radio /\ tries' \in Nat
  <2>1. sender.msg \in Frame /\ radio \in Radio /\ tries \in Nat
    BY <1>0 DEF MacTypes, Sender
  <2>2. CASE Mac!Transmit
    BY <2>1, <2>2 DEF Mac!Transmit, Radio, MacAssumption
  <2>3. CASE Mac!TryAgain
    BY <2>1, <2>3 DEF Mac!TryAgain
  <2> QED
    BY <2>2, <2>3
<1>3. MacTypes'
  BY <1>0, <1>1, <1>2 DEF MacTypes
<1>4. \A f : (Created(f)' <=> Created(f)) /\ (Pending(f)' <=> Pending(f))
              /\ (Unseen(f)' <=> Unseen(f)) /\ (Current(f)' <=> Current(f))
  BY <1>1, NumbersKept, SeenKept
<1>5. OnAir' = OnAir
  BY <1>1 DEF OnAir
<1>6. QueueInv' /\ AirInv' /\ RingInv'
  BY <1>0, <1>1, <1>4, <1>5 DEF QueueInv, AirInv, RingInv
<1>7. RadioInv'
  <2>1. CASE Mac!Transmit
    <3>1. sender'.pc = "busy" /\ radio'.frame = sender.msg /\ radio'.status = "BUSY" /\ radio'.copies = 0
      BY <1>0, <2>1 DEF Mac!Transmit, MacTypes, Sender
    <3> QED
      BY <1>1, <3>1 DEF RadioInv
  <2>2. CASE Mac!TryAgain
    <3>1. sender'.pc = "mode" /\ radio' = radio /\ radio.status # "BUSY"
      BY <1>0, <2>2 DEF Mac!TryAgain, MacTypes, Sender
    <3> QED
      BY <3>1 DEF RadioInv
  <2> QED
    BY <2>1, <2>2
<1>8. ReceiverInv'
  BY <1>0, <1>1 DEF ReceiverInv, Mac!RefusesOnlyRepeats
<1>9. TriesInv'
  <2>1. /\ sender.attempts \in 0 .. TryValues - 1 /\ tries \in Nat
        /\ TryValues \in Nat /\ SoftTries \in Nat \ {0} /\ SoftTries < TryValues
    BY <1>0 DEF MacTypes, Sender, MacAssumption
  <2>2. CASE Mac!Transmit
    <3>1. sender'.pc = "busy" /\ sender.pc = "mode" /\ sender'.attempts = sender.attempts
          /\ tries' = IF tries <= TryValues THEN tries + 1 ELSE tries
      BY <1>0, <2>2 DEF Mac!Transmit, MacTypes, Sender
    <3> QED
      BY <1>0, <1>1, <2>1, <3>1 DEF TriesInv
  <2>3. CASE Mac!TryAgain
    <3>1. /\ sender'.pc = "mode" /\ sender.pc = "busy" /\ tries' = tries
          /\ sender'.attempts = (sender.attempts - 1) % TryValues /\ sender'.attempts > 0
      BY <1>0, <2>3 DEF Mac!TryAgain, MacTypes, Sender, Mac!AttemptsAfter
    <3>2. (sender.attempts - 1) % TryValues \in 0 .. TryValues - 1
      BY <2>1
    <3>3. sender.attempts > 0 => (sender.attempts - 1) % TryValues = sender.attempts - 1
      BY <2>1
    <3> QED
      BY <1>0, <1>1, <2>1, <3>1, <3>2, <3>3 DEF TriesInv
  <2> QED
    BY <2>2, <2>3
<1> QED
  BY <1>3, <1>6, <1>7, <1>8, <1>9 DEF MacInv

\* The report goes to the frame that was on its way; those in the queue have other numbers.
LEMMA FinishStep ==
  ASSUME MacAssumption, MacInv, Mac!Finish
  PROVE  MacInv'
<1>0. MacTypes /\ QueueInv /\ AirInv /\ RadioInv /\ RingInv /\ ReceiverInv /\ TriesInv
  BY DEF MacInv
<1>1. PICK n \in 0 .. TryValues - 1, result \in {"OK", "FAILED"} :
         /\ report' = [report EXCEPT ![sender.msg.id] = result]
         /\ sender' = [sender EXCEPT !.pc = "wait", !.msg = Mac!NoFrame, !.attempts = n]
  <2>1. (sender.attempts - 1) % TryValues \in 0 .. TryValues - 1
    BY <1>0 DEF MacTypes, Sender, MacAssumption
  <2>2. sender.attempts \in 0 .. TryValues - 1
    BY <1>0 DEF MacTypes, Sender
  <2>3. PICK status \in Mac!StatusRead, final \in Mac!StatusRead :
           /\ report' = [report EXCEPT ![sender.msg.id] = IF final = "OK" THEN "OK" ELSE "FAILED"]
           /\ sender' = [sender EXCEPT !.pc = "wait", !.msg = Mac!NoFrame,
                            !.attempts = IF status = "OK" THEN @ ELSE Mac!AttemptsAfter(status)]
    BY DEF Mac!Finish
  <2> QED
    BY <2>1, <2>2, <2>3 DEF Mac!AttemptsAfter
<1>2. /\ sender.pc = "busy" /\ radio.status # "BUSY"
      /\ UNCHANGED <<radio, ring, receiver, sent, heard, delivered, refused, tries>>
  BY DEF Mac!Finish
<1>3. /\ sender'.queue = sender.queue /\ sender'.session = sender.session
      /\ sender'.counter = sender.counter /\ sender'.pc = "wait"
  BY <1>0, <1>1 DEF MacTypes, Sender
<1>4. /\ sender.msg \in Frame /\ Pending(sender.msg) /\ sender.msg.id \in 1 .. Len(sent)
      /\ \A g \in Mac!ToSet(sender.queue) : Before(sender.msg, g)
  BY <1>0, <1>2 DEF MacTypes, Sender, AirInv, OnAir, Pending, Created
<1>5. MacTypes'
  <2>1. Mac!NoFrame \in Frame
    BY DEF Mac!NoFrame, Frame, Kinds, MacAssumption
  <2>2. sender' \in Sender
    BY <1>0, <1>1, <2>1 DEF MacTypes, Sender
  <2>3. report' \in Seq({"none", "OK", "FAILED"}) /\ Len(report') = Len(report)
    BY <1>0, <1>1, <1>4 DEF MacTypes
  <2> QED
    BY <1>0, <1>2, <1>3, <2>2, <2>3 DEF MacTypes
<1>6. \A f : (Created(f)' <=> Created(f)) /\ (Unseen(f)' <=> Unseen(f)) /\ (Current(f)' <=> Current(f))
  BY <1>2, <1>3, NumbersKept, SeenKept
<1>7. QueueInv'
  <2>1. ASSUME NEW f \in Mac!ToSet(sender.queue)
        PROVE  Pending(f)'
    <3>1. Pending(f) /\ Before(sender.msg, f)
      BY <1>0, <1>4 DEF QueueInv
    <3>2. f.id # sender.msg.id /\ f.id \in DOMAIN report
      BY <1>0, <1>4, <3>1 DEF Before, Pending, Created, Frame, MacTypes
    <3>3. report'[f.id] = report[f.id]
      BY <1>1, <3>2
    <3> QED
      BY <1>3, <1>6, <3>1, <3>3 DEF Pending
  <2> QED
    BY <1>0, <1>3, <1>6, <2>1 DEF QueueInv
<1>8. OnAir' = {}
  BY <1>3 DEF OnAir
<1>9. AirInv' /\ RadioInv' /\ TriesInv'
  BY <1>2, <1>3, <1>8 DEF AirInv, RadioInv, TriesInv
<1>10. RingInv'
  BY <1>0, <1>2, <1>3, <1>6, <1>8 DEF RingInv
<1>11. ReceiverInv'
  BY <1>0, <1>2, <1>3 DEF ReceiverInv, Mac!RefusesOnlyRepeats
<1> QED
  BY <1>5, <1>7, <1>9, <1>10, <1>11 DEF MacInv

\* A reboot leaves the frames of the old session in the receiver's ring.
LEMMA RebootStep ==
  ASSUME MacAssumption, MacInv, Mac!Reboot
  PROVE  MacInv'
<1>0. MacTypes /\ QueueInv /\ AirInv /\ RadioInv /\ RingInv /\ ReceiverInv /\ TriesInv
  BY DEF MacInv
<1>1. /\ sender' = Mac!Started(sender.session + 1) /\ tries' = 0
      /\ radio' = [status |-> "IDLE", frame |-> Mac!NoFrame, copies |-> 0]
      /\ UNCHANGED <<ring, receiver, sent, heard, delivered, report, refused>>
  BY DEF Mac!Reboot
<1>2. /\ sender'.queue = <<>> /\ sender'.session = sender.session + 1 /\ sender'.pc = "wait"
      /\ sender.session \in Nat
  BY <1>0, <1>1 DEF Mac!Started, MacTypes, Sender
<1>3. MacTypes'
  <2>1. Mac!NoFrame \in Frame
    BY DEF Mac!NoFrame, Frame, Kinds, MacAssumption
  <2>2. <<>> \in Seq(Frame) /\ Len(<<>>) = 0
    OBVIOUS
  <2>3. sender' \in Sender
    BY <1>1, <1>2, <2>1, <2>2 DEF Mac!Started, Sender, MacAssumption
  <2>4. radio' \in Radio
    BY <1>1, <2>1 DEF Radio
  <2>5. Len(sender'.queue) <= QueueSize
    BY <1>2, <2>2 DEF MacAssumption
  <2> QED
    BY <1>0, <1>1, <2>3, <2>4, <2>5 DEF MacTypes
<1>4. OnAir' = {} /\ Mac!ToSet(sender'.queue) = {} /\ DOMAIN sender'.queue = {}
  BY <1>2 DEF OnAir, Mac!ToSet
<1>5. ASSUME NEW f \in Mac!ToSet(ring)
      PROVE  Created(f)' /\ Current(f)'
  <2>1. f \in Frame /\ Created(f) /\ Current(f)
    BY <1>0 DEF RingInv, MacTypes, Mac!ToSet
  <2>2. f.session \in 1 .. sender.session + 1 /\ f.session # sender.session + 1
    BY <1>2, <2>1 DEF Created, Frame
  <2>3. Created(f)'
    BY <1>1, <1>2, <2>1, <2>2 DEF Created
  <2> QED
    BY <1>1, <2>1, <2>3, SeenKept
<1>6. QueueInv' /\ AirInv' /\ RadioInv' /\ TriesInv'
  BY <1>1, <1>2, <1>4 DEF QueueInv, AirInv, RadioInv, TriesInv
<1>7. RingInv'
  BY <1>0, <1>1, <1>4, <1>5 DEF RingInv
<1>8. ReceiverInv'
  <2>1. receiver.iv \in Nat /\ receiver.iv <= sender.session
    BY <1>0 DEF ReceiverInv, MacTypes, Receiver
  <2> QED
    BY <1>0, <1>1, <1>2, <2>1 DEF ReceiverInv, Mac!RefusesOnlyRepeats
<1> QED
  BY <1>3, <1>6, <1>7, <1>8 DEF MacInv

-----------------------------------------------------------------------------
(* The steps of the radios *)

\* A frame that arrives is not older than those that arrived before.
LEMMA ArriveStep ==
  ASSUME MacAssumption, MacInv, Mac!Arrive
  PROVE  MacInv'
<1>0. MacTypes /\ QueueInv /\ AirInv /\ RadioInv /\ RingInv /\ ReceiverInv /\ TriesInv
  BY DEF MacInv
<1>1. /\ radio.status = "BUSY"
      /\ radio' = [radio EXCEPT !.copies = @ + 1]
      /\ heard' = heard \cup {radio.frame.id}
      /\ ring' = IF Len(ring) < RingSize THEN Append(ring, radio.frame) ELSE ring
      /\ UNCHANGED <<sender, receiver, sent, delivered, report, refused, tries>>
  BY DEF Mac!Arrive
<1>2. PICK frame \in Frame : frame = sender.msg
  BY <1>0 DEF MacTypes, Sender
<1>3. sender.pc = "busy" /\ radio.frame = frame /\ OnAir = {frame} /\ OnAir' = OnAir
  BY <1>0, <1>1, <1>2 DEF RadioInv, OnAir
<1>4. radio' \in Radio /\ radio'.frame = frame /\ radio'.status = "BUSY"
  BY <1>0, <1>1, <1>3 DEF MacTypes, Radio
<1>5. /\ Pending(frame) /\ Created(frame) /\ frame.id \in 1 .. Len(sent)
      /\ Current(frame) /\ \A g \in Mac!ToSet(sender.queue) : Before(frame, g)
  BY <1>0, <1>3 DEF AirInv, Pending, Created
<1>6. \A f : (Created(f)' <=> Created(f)) /\ (Pending(f)' <=> Pending(f))
              /\ (Unseen(f)' <=> Unseen(f)) /\ (Current(f)' <=> Current(f))
  BY <1>1, NumbersKept, SeenKept
<1>7. ring \in Seq(Frame) /\ Len(ring) \in Nat /\ Len(ring) <= RingSize
  BY <1>0 DEF MacTypes
<1>8. ASSUME ring' = Append(ring, frame), Len(ring) < RingSize
      PROVE  MacTypes' /\ RingInv'
  <2>1. /\ ring' \in Seq(Frame) /\ Len(ring') = Len(ring) + 1
        /\ Mac!ToSet(ring') = Mac!ToSet(ring) \cup {frame}
        /\ \A i \in DOMAIN ring' :
              \/ i \in DOMAIN ring /\ ring'[i] = ring[i] /\ ring[i] \in Mac!ToSet(ring)
              \/ i = Len(ring) + 1 /\ ring'[i] = frame
    BY <1>7, <1>8, AddedFrame
  <2>2. MacTypes'
    BY <1>0, <1>1, <1>3, <1>4, <1>5, <1>7, <1>8, <2>1 DEF MacTypes, MacAssumption
  <2>3. ASSUME NEW f \in Mac!ToSet(ring')
        PROVE  /\ Created(f)' /\ f.id \in heard' /\ Current(f)' /\ Upto(f, frame)
               /\ \A g \in Mac!ToSet(sender.queue) : Before(f, g)
    <3>1. CASE f \in Mac!ToSet(ring)
      BY <1>0, <1>1, <1>3, <1>6, <3>1 DEF RingInv
    <3>2. CASE f = frame
      BY <1>1, <1>3, <1>5, <1>6, <3>2 DEF Upto
    <3> QED
      BY <2>1, <3>1, <3>2
  <2>4. ASSUME NEW i \in DOMAIN ring', NEW j \in DOMAIN ring', i < j
        PROVE  Upto(ring'[i], ring'[j])
    <3>1. DOMAIN ring = 1 .. Len(ring)
      BY <1>7
    <3>2. i \in DOMAIN ring
      BY <1>7, <2>1, <2>4, <3>1
    <3>3. CASE j = Len(ring) + 1
      BY <1>0, <1>3, <1>7, <2>1, <3>1, <3>2, <3>3 DEF RingInv
    <3>4. CASE j # Len(ring) + 1
      BY <1>0, <2>1, <2>4, <1>7, <3>1, <3>2, <3>4 DEF RingInv
    <3> QED
      BY <3>3, <3>4
  <2>5. RingInv'
    BY <1>1, <1>3, <2>3, <2>4 DEF RingInv
  <2> QED
    BY <2>2, <2>5
<1>9. ASSUME ring' = ring
      PROVE  MacTypes' /\ RingInv'
  <2>1. MacTypes'
    BY <1>0, <1>1, <1>3, <1>4, <1>5, <1>9 DEF MacTypes
  <2>2. \A f \in Mac!ToSet(ring) : f.id \in heard'
    BY <1>0, <1>1 DEF RingInv
  <2>3. RingInv'
    BY <1>0, <1>1, <1>3, <1>6, <1>9, <2>2 DEF RingInv
  <2> QED
    BY <2>1, <2>3
<1>10. MacTypes' /\ RingInv'
  BY <1>1, <1>3, <1>8, <1>9
<1>11. QueueInv' /\ AirInv'
  BY <1>0, <1>1, <1>3, <1>6 DEF QueueInv, AirInv
<1>12. RadioInv'
  BY <1>1, <1>2, <1>3, <1>4 DEF RadioInv
<1>13. TriesInv' /\ ReceiverInv'
  BY <1>0, <1>1 DEF TriesInv, ReceiverInv, Mac!RefusesOnlyRepeats
<1> QED
  BY <1>10, <1>11, <1>12, <1>13 DEF MacInv

\* The transmitter knows of an acknowledgment only when the frame arrived.
LEMMA TxEndStep ==
  ASSUME MacAssumption, MacInv, Mac!TxEnd
  PROVE  MacInv'
<1>0. MacTypes /\ QueueInv /\ AirInv /\ RadioInv /\ RingInv /\ ReceiverInv /\ TriesInv
  BY DEF MacInv
<1>1. /\ radio.status = "BUSY"
      /\ UNCHANGED <<sender, ring, receiver, sent, heard, delivered, report, refused, tries>>
  BY DEF Mac!TxEnd
<1>2. PICK status \in {"OK", "FAILED_CCA", "FAILED_NO_ACK"} :
         /\ radio' = [radio EXCEPT !.status = status]
         /\ status = "OK" /\ Mac!AsksForAck(radio.frame.kind) => radio.copies > 0
  BY DEF Mac!TxEnd
<1>3. /\ radio' \in Radio /\ radio'.status = status
      /\ radio'.frame = radio.frame /\ radio'.copies = radio.copies
  BY <1>0, <1>2 DEF MacTypes, Radio
<1>4. MacTypes'
  BY <1>0, <1>1, <1>3 DEF MacTypes
<1>5. RadioInv'
  BY <1>0, <1>1, <1>2, <1>3 DEF RadioInv
<1>6. \A f : (Created(f)' <=> Created(f)) /\ (Pending(f)' <=> Pending(f))
              /\ (Unseen(f)' <=> Unseen(f)) /\ (Current(f)' <=> Current(f))
  BY <1>1, NumbersKept, SeenKept
<1>7. OnAir' = OnAir
  BY <1>1 DEF OnAir
<1>8. QueueInv' /\ AirInv' /\ RingInv'
  BY <1>0, <1>1, <1>6, <1>7 DEF QueueInv, AirInv, RingInv
<1>9. TriesInv' /\ ReceiverInv'
  BY <1>0, <1>1 DEF TriesInv, ReceiverInv, Mac!RefusesOnlyRepeats
<1> QED
  BY <1>4, <1>5, <1>8, <1>9 DEF MacInv

-----------------------------------------------------------------------------
(* The steps of the receiver *)

LEMMA CacheType ==
  ASSUME MacAssumption, MacTypes, NEW e \in Entry
  PROVE  /\ Mac!WithEntry(e) \in Receiver /\ Len(Mac!WithEntry(e).cache) = CacheSize
         /\ Mac!WithEntry(e).iv = receiver.iv /\ Mac!WithEntry(e).counter = receiver.counter
<1>1. (receiver.ptr % CacheSize) + 1 \in 1 .. CacheSize
  BY DEF MacTypes, Receiver, MacAssumption
<1>2. [receiver.cache EXCEPT ![receiver.ptr] = e] \in Seq(Entry)
      /\ Len([receiver.cache EXCEPT ![receiver.ptr] = e]) = Len(receiver.cache)
  BY DEF MacTypes, Receiver
<1> QED
  BY <1>1, <1>2 DEF Mac!WithEntry, MacTypes, Receiver

\* The receiver decides about the oldest frame of its ring: by what it has taken before,
\* the replay counter accepts exactly the frames that it has not taken.
LEMMA ReceiveStep ==
  ASSUME MacAssumption, MacInv, Mac!RxHandler
  PROVE  MacInv'
<1>0. MacTypes /\ QueueInv /\ AirInv /\ RadioInv /\ RingInv /\ ReceiverInv /\ TriesInv
  BY DEF MacInv
<1>1. /\ ring # <<>> /\ ring' = Tail(ring)
      /\ UNCHANGED <<sender, radio, sent, heard, report, tries>>
  BY DEF Mac!RxHandler
<1>2. PICK frame \in Frame : frame = Head(ring)
  BY <1>0, <1>1, FirstFrame DEF MacTypes
<1>3. /\ frame \in Mac!ToSet(ring) /\ frame = ring[1] /\ 1 \in DOMAIN ring
      /\ Mac!ToSet(ring) \subseteq Frame
      /\ ring' \in Seq(Frame) /\ Len(ring') = Len(ring) - 1
      /\ Mac!ToSet(ring') \subseteq Mac!ToSet(ring)
      /\ \A f \in Mac!ToSet(ring') : \E i \in DOMAIN ring : i > 1 /\ f = ring[i]
      /\ \A i \in DOMAIN ring' : i + 1 \in DOMAIN ring /\ i \in Nat /\ ring'[i] = ring[i + 1]
  BY <1>0, <1>1, <1>2, FirstFrame DEF MacTypes
<1>4. /\ Created(frame) /\ frame.id \in heard /\ Current(frame) /\ frame.id \in 1 .. Len(sent)
      /\ frame.session \in 1 .. sender.session
      /\ frame.session = sender.session => frame.counter <= sender.counter
      /\ \A g \in OnAir : Upto(frame, g)
      /\ \A g \in Mac!ToSet(sender.queue) : Before(frame, g)
      /\ \A g \in Mac!ToSet(ring') : Upto(frame, g)
  <2>1. \A g \in Mac!ToSet(ring') : Upto(frame, g)
    BY <1>0, <1>3 DEF RingInv
  <2> QED
    BY <1>0, <1>3, <2>1 DEF RingInv, Created
<1>5. PICK entry \in Entry :
         \/ UNCHANGED <<receiver, delivered, refused>>
         \/ /\ ~Mac!Contains(delivered, frame.id)
            /\ receiver' = [Mac!WithEntry(entry) EXCEPT !.iv = frame.session, !.counter = frame.counter]
            /\ delivered' = Append(delivered, frame.id) /\ refused' = refused
         \/ /\ ~Mac!Contains(delivered, frame.id) /\ frame.session = receiver.iv
            /\ receiver' = [Mac!WithEntry(entry) EXCEPT !.counter = frame.counter]
            /\ delivered' = Append(delivered, frame.id) /\ refused' = refused
         \/ /\ receiver' = Mac!WithEntry(entry) /\ delivered' = delivered
            /\ \/ refused' = refused
               \/ refused' = refused \cup {frame.id} /\ Mac!Contains(delivered, frame.id)
  <2>1. <<frame.seq, "sender">> \in Entry
    BY DEF Entry, Frame
  <2>2. frame.counter \in Nat /\ receiver.counter \in Nat
    BY <1>0 DEF MacTypes, Frame, Receiver
  <2>3. frame.session = receiver.iv =>
            (frame.counter > receiver.counter <=> ~Mac!Contains(delivered, frame.id))
    BY <1>4, <2>2 DEF Current
  <2> QED
    BY <1>2, <2>1, <2>3 DEF Mac!RxHandler, Mac!AnswersChallenge, Mac!Verified, Mac!IsNew
<1>6. OnAir' = OnAir /\ OnAir \subseteq Frame /\ Mac!ToSet(sender.queue) \subseteq Frame
  BY <1>0, <1>1 DEF OnAir, MacTypes, Sender, Mac!ToSet
<1>7. \A f : (Created(f)' <=> Created(f)) /\ (Pending(f)' <=> Pending(f))
  BY <1>1, NumbersKept
<1>8. ASSUME ~Mac!Contains(delivered, frame.id), delivered' = Append(delivered, frame.id),
             receiver' \in Receiver, Len(receiver'.cache) = CacheSize, refused' = refused,
             receiver'.iv = frame.session, receiver'.counter = frame.counter
      PROVE  MacInv'
  <2>1. MacTypes'
    <3>1. delivered' \in Seq(1 .. Len(sent))
      BY <1>0, <1>4, <1>8 DEF MacTypes
    <3>2. Len(ring') <= RingSize
      BY <1>0, <1>3 DEF MacTypes, MacAssumption
    <3> QED
      BY <1>0, <1>1, <1>3, <1>8, <3>1, <3>2 DEF MacTypes
  <2>2. \A g \in Mac!ToSet(sender.queue) : Unseen(g)'
    BY <1>0, <1>4, <1>6, <1>8, Taken DEF Upto
  <2>3. \A g \in OnAir \cup Mac!ToSet(ring') : Current(g)'
    BY <1>0, <1>3, <1>4, <1>6, <1>8, Taken
  <2>4. QueueInv' /\ AirInv'
    BY <1>0, <1>1, <1>6, <1>7, <2>2, <2>3 DEF QueueInv, AirInv
  <2>5. RingInv'
    BY <1>0, <1>1, <1>3, <1>6, <1>7, <2>3 DEF RingInv
  <2>6. ReceiverInv'
    <3>1. \A i \in refused : Mac!Contains(delivered', i)
      BY <1>0, <1>4, <1>8 DEF ReceiverInv, Mac!RefusesOnlyRepeats, Mac!Contains, MacTypes
    <3> QED
      BY <1>0, <1>1, <1>4, <1>8, <3>1 DEF ReceiverInv, Mac!RefusesOnlyRepeats, MacTypes, Sender
  <2> QED
    BY <1>0, <1>1, <2>1, <2>4, <2>5, <2>6 DEF MacInv, RadioInv, TriesInv
<1>9. ASSUME delivered' = delivered, receiver' \in Receiver, Len(receiver'.cache) = CacheSize,
             receiver'.iv = receiver.iv, receiver'.counter = receiver.counter,
             \/ refused' = refused
             \/ refused' = refused \cup {frame.id} /\ Mac!Contains(delivered, frame.id)
      PROVE  MacInv'
  <2>1. MacTypes'
    <3>1. Len(ring') <= RingSize
      BY <1>0, <1>3 DEF MacTypes, MacAssumption
    <3> QED
      BY <1>0, <1>1, <1>3, <1>9, <3>1 DEF MacTypes
  <2>2. \A f : (Unseen(f)' <=> Unseen(f)) /\ (Current(f)' <=> Current(f))
    BY <1>9, SeenKept
  <2>3. QueueInv' /\ AirInv'
    BY <1>0, <1>1, <1>6, <1>7, <2>2 DEF QueueInv, AirInv
  <2>4. RingInv'
    BY <1>0, <1>1, <1>3, <1>6, <1>7, <2>2 DEF RingInv
  <2>5. ReceiverInv'
    BY <1>0, <1>1, <1>9 DEF ReceiverInv, Mac!RefusesOnlyRepeats
  <2> QED
    BY <1>0, <1>1, <2>1, <2>3, <2>4, <2>5 DEF MacInv, RadioInv, TriesInv
<1>10. /\ receiver \in Receiver /\ Len(receiver.cache) = CacheSize
       /\ Mac!WithEntry(entry) \in Receiver /\ Len(Mac!WithEntry(entry).cache) = CacheSize
       /\ Mac!WithEntry(entry).iv = receiver.iv /\ Mac!WithEntry(entry).counter = receiver.counter
  BY <1>0, CacheType DEF MacTypes
<1>11. frame.session \in Nat /\ frame.counter \in Nat
  BY DEF Frame
<1>12. CASE UNCHANGED <<receiver, delivered, refused>>
  BY <1>9, <1>10, <1>12
<1>13. CASE /\ ~Mac!Contains(delivered, frame.id)
            /\ receiver' = [Mac!WithEntry(entry) EXCEPT !.iv = frame.session, !.counter = frame.counter]
            /\ delivered' = Append(delivered, frame.id) /\ refused' = refused
  BY <1>8, <1>10, <1>11, <1>13 DEF Receiver
<1>14. CASE /\ ~Mac!Contains(delivered, frame.id) /\ frame.session = receiver.iv
            /\ receiver' = [Mac!WithEntry(entry) EXCEPT !.counter = frame.counter]
            /\ delivered' = Append(delivered, frame.id) /\ refused' = refused
  BY <1>8, <1>10, <1>11, <1>14 DEF Receiver
<1>15. CASE /\ receiver' = Mac!WithEntry(entry) /\ delivered' = delivered
            /\ \/ refused' = refused
               \/ refused' = refused \cup {frame.id} /\ Mac!Contains(delivered, frame.id)
  BY <1>9, <1>10, <1>15
<1> QED
  BY <1>5, <1>12, <1>13, <1>14, <1>15

\* A frame of another sender, and a receiver that forgets its neighbor, leave the line as it is.
LEMMA NoiseStep ==
  ASSUME MacAssumption, MacInv, Mac!Noise \/ Mac!Forget
  PROVE  MacInv'
<1>0. MacTypes /\ QueueInv /\ AirInv /\ RadioInv /\ RingInv /\ ReceiverInv /\ TriesInv
  BY DEF MacInv
<1>1. UNCHANGED <<sender, radio, ring, sent, heard, delivered, report, refused, tries>>
  BY DEF Mac!Noise, Mac!Forget
<1>2. /\ receiver' \in Receiver /\ Len(receiver'.cache) = CacheSize
      /\ \/ receiver'.iv = receiver.iv /\ receiver'.counter = receiver.counter
         \/ receiver'.iv = Mac!NoSession
  <2>1. Mac!Other \in Entry
    BY DEF Entry
  <2>2. CASE Mac!Noise
    BY <1>0, <2>1, <2>2, CacheType DEF Mac!Noise
  <2>3. CASE Mac!Forget
    BY <1>0, <2>3 DEF Mac!Forget, MacTypes, Receiver, Mac!NoSession
  <2> QED
    BY <2>2, <2>3
<1>3. MacTypes'
  BY <1>0, <1>1, <1>2 DEF MacTypes
<1>4. \A f : (Created(f)' <=> Created(f)) /\ (Pending(f)' <=> Pending(f))
  BY <1>1, NumbersKept
<1>5. ASSUME NEW f, Created(f)
      PROVE  (Unseen(f) => Unseen(f)') /\ (Current(f) => Current(f)')
  <2>1. f.session # Mac!NoSession
    BY <1>5 DEF Created, Mac!NoSession
  <2> QED
    BY <1>1, <1>2, <2>1, SeenKept DEF Unseen, Current
<1>6. OnAir' = OnAir
  BY <1>1 DEF OnAir
<1>7. QueueInv' /\ AirInv' /\ RingInv'
  BY <1>0, <1>1, <1>4, <1>5, <1>6 DEF QueueInv, AirInv, RingInv, Pending
<1>8. ReceiverInv'
  <2>1. sender.session \in Nat \ {0}
    BY <1>0 DEF MacTypes, Sender
  <2> QED
    BY <1>0, <1>1, <1>2, <2>1 DEF ReceiverInv, Mac!RefusesOnlyRepeats, Mac!NoSession
<1> QED
  BY <1>0, <1>1, <1>3, <1>7, <1>8 DEF MacInv, RadioInv, TriesInv

-----------------------------------------------------------------------------
(* The MAC *)

LEMMA InitialState ==
  ASSUME MacAssumption, Mac!Init
  PROVE  MacInv
<1>1. Mac!NoFrame \in Frame
  BY DEF Mac!NoFrame, Frame, Kinds, MacAssumption
<1>2. <<>> \in Seq(Frame) /\ Len(<<>>) = 0
  OBVIOUS
<1>3. /\ sender \in Sender /\ sender.queue = <<>> /\ sender.pc = "wait" /\ sender.session = 1
  BY <1>1, <1>2 DEF Mac!Init, Mac!Started, Sender, MacAssumption
<1>4. radio \in Radio /\ radio.status = "IDLE"
  BY <1>1 DEF Mac!Init, Radio
<1>5. receiver \in Receiver /\ Len(receiver.cache) = CacheSize /\ receiver.iv = 0
  <2>1. /\ [i \in 1 .. CacheSize |-> Mac!Free] \in Seq(Entry)
        /\ Len([i \in 1 .. CacheSize |-> Mac!Free]) = CacheSize
    BY DEF Entry, MacAssumption
  <2> QED
    BY <2>1 DEF Mac!Init, Receiver, MacAssumption, Mac!NoSession
<1>6. MacTypes
  BY <1>2, <1>3, <1>4, <1>5 DEF Mac!Init, MacTypes, MacAssumption
<1>7. QueueInv /\ AirInv /\ RadioInv /\ RingInv /\ TriesInv
  BY <1>3, <1>4 DEF Mac!Init, QueueInv, AirInv, RadioInv, RingInv, TriesInv, OnAir, Mac!ToSet
<1>8. ReceiverInv
  BY <1>3, <1>5 DEF Mac!Init, ReceiverInv, Mac!RefusesOnlyRepeats
<1> QED
  BY <1>6, <1>7, <1>8 DEF MacInv

LEMMA EveryStep ==
  ASSUME MacAssumption, MacInv, [Mac!Next]_macVars
  PROVE  MacInv'
<1>1. CASE Mac!Next
  BY <1>1, CreateStep, TakeStep, TransmitStep, FinishStep, RebootStep, ArriveStep, TxEndStep,
     ReceiveStep, NoiseStep DEF Mac!Next, Mac!TxThread
<1>2. CASE UNCHANGED macVars
  <2>1. UNCHANGED <<sender, radio, ring, receiver, sent, heard, delivered, report, refused, tries>>
    BY <1>2 DEF macVars
  <2> QED
    BY <2>1 DEF MacInv, MacTypes, QueueInv, AirInv, RadioInv, RingInv, ReceiverInv, TriesInv,
        OnAir, Pending, Created, Unseen, Current, Mac!RefusesOnlyRepeats
<1> QED
  BY <1>1, <1>2

LEMMA MacInvGives ==
  ASSUME MacAssumption, MacInv
  PROVE  Mac!MacSound
<1>1. MacTypes /\ Mac!RefusesOnlyRepeats /\ TriesInv
  BY DEF MacInv, ReceiverInv
<1>2. Mac!TypeOK
  BY <1>1 DEF MacTypes, Mac!TypeOK, Sender, Radio, Receiver
<1>3. Mac!TriesBounded
  <2>1. /\ sender.attempts \in Nat /\ tries \in Nat /\ sender.pc \in {"wait", "mode", "busy"}
        /\ TryValues \in Nat /\ SoftTries \in Nat \ {0} /\ SoftTries < TryValues
    BY <1>1 DEF MacTypes, Sender, MacAssumption
  <2> QED
    BY <1>1, <2>1 DEF TriesInv, Mac!TriesBounded
<1> QED
  BY <1>1, <1>2, <1>3 DEF Mac!MacSound

\* Every step of the sender, the radios and the receiver is one of the link, or none of its.
LEMMA LinkStep ==
  ASSUME MacAssumption, MacInv, [Mac!Next]_macVars
  PROVE  [Mac!LinkOf!LinkNext]_<<sent, heard, delivered, report>>
<1>0. MacTypes /\ AirInv /\ RadioInv /\ RingInv
  BY DEF MacInv
<1>1. CASE Mac!CreateTxMsg
  <2>1. PICK kind : sent' = Append(sent, Mac!AsksForAck(kind))
    BY <1>1 DEF Mac!CreateTxMsg
  <2>2. Mac!AsksForAck(kind) \in BOOLEAN
    BY DEF Mac!AsksForAck
  <2> QED
    BY <1>1, <2>1, <2>2 DEF Mac!CreateTxMsg, Mac!LinkOf!LinkNext, Mac!LinkOf!Create
<1>2. CASE Mac!Finish
  <2>1. PICK final \in Mac!StatusRead :
           report' = [report EXCEPT ![sender.msg.id] = IF final = "OK" THEN "OK" ELSE "FAILED"]
    BY <1>2 DEF Mac!Finish
  <2>2. sender.pc = "busy" /\ UNCHANGED <<sent, heard, delivered>>
    BY <1>2 DEF Mac!Finish
  <2>3. /\ sender.msg.id \in DOMAIN sent /\ report[sender.msg.id] = "none"
        /\ sent[sender.msg.id] = Mac!AsksForAck(sender.msg.kind)
    BY <1>0, <2>2 DEF AirInv, OnAir, Pending, Created, MacTypes
  <2>4. final = "OK" => (sent[sender.msg.id] => sender.msg.id \in heard)
    BY <1>0, <2>2, <2>3 DEF Mac!StatusRead, RadioInv
  <2>5. Mac!LinkOf!Report
    BY <2>1, <2>2, <2>3, <2>4 DEF Mac!LinkOf!Report
  <2> QED
    BY <2>5 DEF Mac!LinkOf!LinkNext
<1>3. CASE Mac!Arrive
  <2>1. radio.frame = sender.msg /\ sender.pc = "busy"
    BY <1>0, <1>3 DEF Mac!Arrive, RadioInv
  <2>2. sender.msg.id \in DOMAIN sent
    BY <1>0, <2>1 DEF AirInv, OnAir, Pending, Created, MacTypes
  <2> QED
    BY <1>3, <2>1, <2>2 DEF Mac!Arrive, Mac!LinkOf!LinkNext, Mac!LinkOf!Hear
<1>4. CASE Mac!RxHandler
  <2>1. PICK frame \in Frame : frame = Head(ring) /\ frame \in Mac!ToSet(ring)
    BY <1>0, <1>4, FirstFrame DEF MacTypes, Mac!RxHandler
  <2>2. frame.id \in heard /\ Current(frame)
    BY <1>0, <2>1 DEF RingInv
  <2>3. UNCHANGED <<sent, heard, report>>
    BY <1>4 DEF Mac!RxHandler
  <2>4. \/ delivered' = delivered
        \/ delivered' = Append(delivered, frame.id) /\ ~Mac!Contains(delivered, frame.id)
    <3>1. frame.counter \in Nat /\ receiver.counter \in Nat
      BY <1>0 DEF MacTypes, Frame, Receiver
    <3>2. Mac!Verified(frame) => ~Mac!Contains(delivered, frame.id)
      BY <2>2, <3>1 DEF Mac!Verified, Mac!IsNew, Current
    <3> QED
      BY <1>4, <2>1, <3>2 DEF Mac!RxHandler, Mac!AnswersChallenge
  <2>5. CASE ~Mac!Contains(delivered, frame.id) /\ delivered' = Append(delivered, frame.id)
    <3>1. ASSUME NEW k \in DOMAIN delivered
          PROVE  delivered[k] < frame.id
      <4>1. k \in 1 .. Len(delivered) /\ delivered[k] \in Nat /\ frame.id \in Nat
        BY <1>0 DEF MacTypes, Frame
      <4>2. delivered[k] # frame.id
        BY <2>5, <4>1 DEF Mac!Contains
      <4> QED
        BY <2>2, <4>1, <4>2 DEF Current
    <3> QED
      BY <2>2, <2>3, <2>5, <3>1 DEF Mac!LinkOf!LinkNext, Mac!LinkOf!HandOver
  <2> QED
    BY <2>3, <2>4, <2>5
<1>5. CASE Mac!TakeMsg \/ Mac!Transmit \/ Mac!TryAgain \/ Mac!Reboot \/ Mac!TxEnd \/ Mac!Noise \/ Mac!Forget
  BY <1>5 DEF Mac!TakeMsg, Mac!Transmit, Mac!TryAgain, Mac!Reboot, Mac!TxEnd, Mac!Noise, Mac!Forget
<1>6. CASE UNCHANGED macVars
  BY <1>6 DEF macVars
<1> QED
  BY <1>1, <1>2, <1>3, <1>4, <1>5, <1>6 DEF Mac!Next, Mac!TxThread

-----------------------------------------------------------------------------
(* Neighbors *)

LEMMA NeighborsAssumed == NeighborsAssumption
BY ServicesAssumption

Message ==
    [kind : {"beacon"}, upstream : Nodes \cup {Neighbors!None}, depth : 0 .. MaxDepth, join : BOOLEAN,
     gateway : BOOLEAN, full : BOOLEAN, noJoin : BOOLEAN, iv : Nat]
    \cup [kind : {"flash"}, challenge : Nat]
    \cup [kind : {"thunder"}, challenge : Nat, iv : Nat]
    \cup [kind : {"evict"}, iv : Nat]

NodeFields == {"session", "neighbors", "prov", "blank", "upstream", "depth", "mode", "tuned",
               "restarted", "countdown", "on"}

\* A list of node n with entries in T.
IsList(n, f, T) == DOMAIN f \subseteq Nodes \ {n} /\ \A a \in DOMAIN f : f[a] \in T

\* The list of neighbors f, the upstream u and the depth d of a node agree.
Agree(n, f, u, d) ==
    /\ IsList(n, f, Neighbors!Entry) /\ Cardinality(DOMAIN f) <= Capacity[n]
    /\ u \in Nodes \cup {Neighbors!None} /\ d \in 0 .. MaxDepth
    /\ n = Gateway => u = Gateway /\ d = 0
    /\ n # Gateway => /\ u # Neighbors!None => u \in DOMAIN f /\ d \in 1 .. MaxDepth
                      /\ \A a \in DOMAIN f : f[a].up => a = u

GoodNode(n, s) ==
    /\ DOMAIN s = NodeFields /\ s.session \in Nat
    /\ Agree(n, s.neighbors, s.upstream, s.depth)
    /\ IsList(n, s.prov, Neighbors!Provisional)

NeighborsInv ==
    /\ node = [n \in Nodes |-> node[n]] /\ \A n \in Nodes : GoodNode(n, node[n])
    /\ channel \in [Neighbors!Ports -> Seq(Message)]
    /\ hitches \in 0 .. MaxHitches

-----------------------------------------------------------------------------
\* The cardinality in the module of the part is that of this one.
LEMMA SameCardinality == ASSUME NEW S PROVE Neighbors!Cardinality(S) = Cardinality(S)
BY DEF Neighbors!Cardinality, Cardinality

-----------------------------------------------------------------------------
(* Challenges *)

LEMMA FiniteImage ==
    ASSUME NEW S, IsFiniteSet(S), NEW f, DOMAIN f = S
    PROVE  IsFiniteSet({f[x] : x \in S})
<1> DEFINE T == {f[x] : x \in S}
           g == [x \in S |-> f[x]]
<1>1. g \in Surjection(S, T)
  BY DEF Surjection
<1> QED BY <1>1, FS_Surjection

LEMMA FreshIsNew == NeighborsInv =>
      Neighbors!Fresh \in Nat /\ Neighbors!Fresh \notin Neighbors!ChallengesHeld
<1> SUFFICES ASSUME NeighborsInv
             PROVE  Neighbors!Fresh \in Nat /\ Neighbors!Fresh \notin Neighbors!ChallengesHeld
  OBVIOUS
<1>1. IsFiniteSet(Nodes)
  BY NeighborsAssumed DEF NeighborsAssumption
<1> DEFINE OfNode(n) == {node[n].prov[a].challenge : a \in DOMAIN node[n].prov}
           At(l) == {k \in DOMAIN channel[l] : channel[l][k].kind \in {"flash", "thunder"}}
           OfPort(l) == {channel[l][i].challenge : i \in At(l)}
           nodes == {OfNode(n) : n \in Nodes}
           ports == {OfPort(l) : l \in Neighbors!Ports}
<1>2. IsFiniteSet(UNION nodes)
  <2>1. ASSUME NEW n \in Nodes PROVE IsFiniteSet(OfNode(n))
    <3> DEFINE D == DOMAIN node[n].prov
               f == [a \in D |-> node[n].prov[a].challenge]
    <3>1. D \in SUBSET Nodes
      BY DEF NeighborsInv, GoodNode, IsList
    <3> HIDE DEF D
    <3>2. IsFiniteSet(D)
      BY <1>1, <3>1, FS_Subset
    <3>3. IsFiniteSet({f[a] : a \in D})
      <4>1. DOMAIN f = D
        OBVIOUS
      <4> HIDE DEF f
      <4> QED BY <3>2, <4>1, FiniteImage
    <3>4. OfNode(n) = {f[a] : a \in D}
      BY DEF D
    <3> QED BY <3>3, <3>4
  <2> DEFINE f == [n \in Nodes |-> OfNode(n)]
  <2> HIDE DEF OfNode
  <2>2. IsFiniteSet({f[n] : n \in Nodes})
    <3>1. DOMAIN f = Nodes
      OBVIOUS
    <3> HIDE DEF f
    <3> QED BY <1>1, <3>1, FiniteImage
  <2>3. nodes = {f[n] : n \in Nodes}
    OBVIOUS
  <2>4. \A T \in nodes : IsFiniteSet(T)
    BY <2>1
  <2> HIDE DEF nodes
  <2> QED BY <2>2, <2>3, <2>4, FS_UNION
<1>3. IsFiniteSet(UNION ports)
  <2>1. ASSUME NEW l \in Neighbors!Ports PROVE IsFiniteSet(OfPort(l))
    <3> DEFINE D == At(l)
               f == [i \in D |-> channel[l][i].challenge]
    <3>1. channel[l] \in Seq(Message)
      BY DEF NeighborsInv
    <3>2. D \in SUBSET (1 .. Len(channel[l])) /\ Len(channel[l]) \in Nat
      BY <3>1
    <3> HIDE DEF D, At
    <3>3. IsFiniteSet(1 .. Len(channel[l]))
      BY <3>2, FS_Interval
    <3>4. IsFiniteSet(D)
      BY <3>2, <3>3, FS_Subset
    <3>5. IsFiniteSet({f[i] : i \in D})
      <4>1. DOMAIN f = D
        OBVIOUS
      <4> HIDE DEF f
      <4> QED BY <3>4, <4>1, FiniteImage
    <3>6. OfPort(l) = {f[i] : i \in D}
      BY DEF D
    <3> QED BY <3>5, <3>6
  <2> DEFINE f == [l \in Neighbors!Ports |-> OfPort(l)]
  <2>2. IsFiniteSet(Neighbors!Ports)
    <3>1. IsFiniteSet(Nodes \X Nodes)
      BY <1>1, FS_Product
    <3>2. Neighbors!Ports \in SUBSET (Nodes \X Nodes)
      BY DEF Neighbors!Ports
    <3> QED BY <3>1, <3>2, FS_Subset
  <2> HIDE DEF OfPort
  <2>3. IsFiniteSet({f[l] : l \in Neighbors!Ports})
    <3>1. DOMAIN f = Neighbors!Ports
      OBVIOUS
    <3> HIDE DEF f
    <3> QED BY <2>2, <3>1, FiniteImage
  <2>4. ports = {f[l] : l \in Neighbors!Ports}
    OBVIOUS
  <2>5. \A T \in ports : IsFiniteSet(T)
    BY <2>1
  <2> HIDE DEF ports
  <2> QED BY <2>3, <2>4, <2>5, FS_UNION
<1>4. Neighbors!ChallengesHeld = (UNION nodes) \cup (UNION ports)
  BY DEF Neighbors!ChallengesHeld
<1> HIDE DEF nodes, ports
<1>5. IsFiniteSet(Neighbors!ChallengesHeld)
  BY <1>2, <1>3, <1>4, FS_Union
<1> DEFINE k == Cardinality(Neighbors!ChallengesHeld)
<1>6. k \in Nat
  BY <1>5, FS_CardinalityType
<1>7. \E c \in 1 .. k + 1 : c \notin Neighbors!ChallengesHeld
  <2> SUFFICES ASSUME 1 .. k + 1 \in SUBSET Neighbors!ChallengesHeld PROVE FALSE
    OBVIOUS
  <2>1. Cardinality(1 .. k + 1) <= k
    BY <1>5, FS_Subset
  <2> HIDE DEF k
  <2> DEFINE m == k + 1
  <2>2. m \in Int /\ ~(1 > m)
    BY <1>6
  <2>3. Cardinality(1 .. m) = m - 1 + 1
    <3> HIDE DEF m
    <3> QED BY <2>2, FS_Interval
  <2> QED BY <1>6, <2>1, <2>3
<1>8. Neighbors!Fresh \in 1 .. k + 1 /\ Neighbors!Fresh \notin Neighbors!ChallengesHeld
  BY <1>7, SameCardinality DEF Neighbors!Fresh
<1> HIDE DEF k
<1> QED BY <1>6, <1>8

-----------------------------------------------------------------------------
(* The lists of a node *)

LEMMA NodesAreNot ==
    Neighbors!None \notin Nodes /\ IsFiniteSet(Nodes) /\ MaxDepth \in Nat /\ MaxAge \in Nat
BY NeighborsAssumed DEF NeighborsAssumption

\* A list is finite, and what was taken from it or put into it changes its length by one.
LEMMA ListLength ==
    ASSUME NEW n \in Nodes, NEW D, D \subseteq Nodes \ {n}, NEW a
    PROVE  /\ Cardinality(D) \in Nat
           /\ a \in D => Cardinality(D \ {a}) = Cardinality(D) - 1
           /\ Cardinality(D \ {a}) <= Cardinality(D)
           /\ a \in D => Cardinality(D \cup {a}) = Cardinality(D)
           /\ a \notin D => Cardinality(D \cup {a}) = Cardinality(D) + 1
<1>1. IsFiniteSet(D)
  BY NodesAreNot, FS_Subset
<1>2. Cardinality(D) \in Nat
  BY <1>1, FS_CardinalityType
<1>3. Cardinality(D \ {a}) = IF a \in D THEN Cardinality(D) - 1 ELSE Cardinality(D)
  BY <1>1, FS_RemoveElement
<1>4. Cardinality(D \cup {a}) = IF a \in D THEN Cardinality(D) ELSE Cardinality(D) + 1
  BY <1>1, FS_AddElement
<1> QED BY <1>2, <1>3, <1>4

\* A node whose lists, upstream and depth are in order.
LEMMA NodeWith ==
    ASSUME NEW n \in Nodes, NEW s, GoodNode(n, s), NEW t, DOMAIN t = NodeFields,
           t.session = s.session, t.prov = s.prov,
           Agree(n, t.neighbors, t.upstream, t.depth)
    PROVE  GoodNode(n, t)
BY DEF GoodNode

LEMMA NodeKeeps ==
    ASSUME NEW n \in Nodes, NEW s, GoodNode(n, s), NEW t, DOMAIN t = NodeFields,
           t.session = s.session, t.neighbors = s.neighbors, t.upstream = s.upstream,
           t.depth = s.depth, IsList(n, t.prov, Neighbors!Provisional)
    PROVE  GoodNode(n, t)
BY DEF GoodNode

\* An entry of a list, with other marks.
LEMMA EntryWith ==
    ASSUME NEW e \in Neighbors!Entry, NEW b \in BOOLEAN, NEW c \in BOOLEAN
    PROVE  /\ [e EXCEPT !.up = b] \in Neighbors!Entry /\ [e EXCEPT !.up = b].up = b
           /\ [e EXCEPT !.age = 0, !.new = FALSE, !.down = c] \in Neighbors!Entry
           /\ [e EXCEPT !.age = 0, !.new = FALSE, !.down = c].up = e.up
<1>1. 0 \in 0 .. MaxAge
  BY NodesAreNot
<1>2. [e EXCEPT !.up = b] \in Neighbors!Entry
  BY DEF Neighbors!Entry
<1>3. [e EXCEPT !.up = b].up = b
  BY DEF Neighbors!Entry
<1>4. [e EXCEPT !.age = 0, !.new = FALSE, !.down = c] \in Neighbors!Entry
  BY <1>1 DEF Neighbors!Entry
<1>5. [e EXCEPT !.age = 0, !.new = FALSE, !.down = c].up = e.up
  BY DEF Neighbors!Entry
<1> QED BY <1>2, <1>3, <1>4, <1>5

\* reset_upstream
LEMMA WithoutUpstreamGood ==
    ASSUME NEW n \in Nodes, n # Gateway, NEW s, GoodNode(n, s)
    PROVE  LET t == Neighbors!WithoutUpstream(s) IN
           /\ GoodNode(n, t) /\ t.upstream = Neighbors!None /\ t.prov = s.prov /\ t.session = s.session
           /\ DOMAIN t.neighbors = DOMAIN s.neighbors
<1> DEFINE D == DOMAIN s.neighbors
           e(a) == IF a = s.upstream THEN [s.neighbors[a] EXCEPT !.up = FALSE] ELSE s.neighbors[a]
           f == [a \in D |-> e(a)]
           t == Neighbors!WithoutUpstream(s)
<1>1. DOMAIN s = NodeFields /\ Agree(n, s.neighbors, s.upstream, s.depth)
  BY DEF GoodNode
<1>2. /\ DOMAIN t = NodeFields /\ t.neighbors = f /\ t.upstream = Neighbors!None /\ t.depth = 0
      /\ t.prov = s.prov /\ t.session = s.session
  BY <1>1 DEF Neighbors!WithoutUpstream, Neighbors!Known, NodeFields
<1> HIDE DEF t
<1>3. ASSUME NEW a \in D PROVE e(a) \in Neighbors!Entry /\ ~e(a).up
  <2>1. s.neighbors[a] \in Neighbors!Entry
    BY <1>1 DEF Agree, IsList
  <2>2. CASE a = s.upstream
    BY <2>1, <2>2, EntryWith
  <2>3. CASE a # s.upstream
    BY <1>1, <2>1, <2>3 DEF Agree
  <2> QED BY <2>2, <2>3
<1> HIDE DEF e
<1>4. DOMAIN f = D /\ \A a \in D : f[a] = e(a)
  OBVIOUS
<1> HIDE DEF f
<1>5. Agree(n, f, Neighbors!None, 0)
  BY <1>1, <1>3, <1>4, NodesAreNot DEF Agree, IsList
<1>6. GoodNode(n, t)
  BY <1>2, <1>5, NodeWith
<1> QED BY <1>2, <1>4, <1>6 DEF t

\* remove_neighbor
LEMMA RemovedGood ==
    ASSUME NEW n \in Nodes, NEW s, GoodNode(n, s), NEW a \in Neighbors!Known(s)
    PROVE  LET t == Neighbors!Removed(s, a) IN
           /\ GoodNode(n, t) /\ t.prov = s.prov
           /\ DOMAIN t.neighbors = DOMAIN s.neighbors \ {a}
<1> DEFINE r == IF a = s.upstream THEN Neighbors!WithoutUpstream(s) ELSE s
           D == DOMAIN s.neighbors \ {a}
           f == Neighbors!Restricted(r.neighbors, D)
           t == Neighbors!Removed(s, a)
<1>1. Agree(n, s.neighbors, s.upstream, s.depth) /\ a \in DOMAIN s.neighbors /\ a \in Nodes \ {n}
  BY DEF GoodNode, Agree, IsList, Neighbors!Known
<1>2. /\ GoodNode(n, r) /\ r.upstream # a /\ r.prov = s.prov /\ r.session = s.session
      /\ DOMAIN r.neighbors = DOMAIN s.neighbors
  <2>1. CASE a = s.upstream
    <3>1. n # Gateway
      BY <1>1, <2>1 DEF Agree
    <3> QED BY <1>1, <2>1, <3>1, WithoutUpstreamGood, NodesAreNot
  <2>2. CASE a # s.upstream
    BY <2>2
  <2> QED BY <2>1, <2>2
<1>3. t = [r EXCEPT !.neighbors = f, !.restarted = TRUE]
  BY DEF Neighbors!Removed, Neighbors!Known
<1> HIDE DEF r
<1>4. DOMAIN r = NodeFields /\ Agree(n, r.neighbors, r.upstream, r.depth)
  BY <1>2 DEF GoodNode
<1>5. DOMAIN f = D /\ \A b \in D : f[b] = r.neighbors[b]
  BY DEF Neighbors!Restricted
<1> HIDE DEF f, t
<1>6. /\ DOMAIN t = NodeFields /\ t.neighbors = f /\ t.upstream = r.upstream /\ t.depth = r.depth
      /\ t.prov = r.prov /\ t.session = r.session
  BY <1>3, <1>4 DEF NodeFields
<1>7. Cardinality(D) <= Capacity[n]
  <2> DEFINE k == DOMAIN s.neighbors
  <2>1. k \subseteq Nodes \ {n} /\ Cardinality(k) <= Capacity[n] /\ Capacity[n] \in Nat
    BY <1>1, NeighborsAssumed DEF Agree, IsList, NeighborsAssumption
  <2> HIDE DEF k
  <2>2. Cardinality(k) \in Nat /\ Cardinality(k \ {a}) = Cardinality(k) - 1
    BY <1>1, <2>1, ListLength DEF k
  <2>3. Cardinality(k \ {a}) <= Capacity[n]
    BY <2>1, <2>2
  <2> QED BY <2>3 DEF k
<1>8. Agree(n, f, r.upstream, r.depth)
  BY <1>2, <1>4, <1>5, <1>7 DEF Agree, IsList
<1>9. GoodNode(n, t)
  BY <1>2, <1>6, <1>8, NodeWith
<1> QED BY <1>2, <1>5, <1>6, <1>9 DEF t

\* prov_received_thunder
LEMMA JoinedGood ==
    ASSUME NEW n \in Nodes, NEW s, GoodNode(n, s), NEW a \in DOMAIN s.prov, NEW msg,
           msg.iv \in Nat, Cardinality(DOMAIN s.neighbors \cup {a}) <= Capacity[n]
    PROVE  GoodNode(n, Neighbors!Joined(s, a, msg))
<1> DEFINE p == s.prov[a]
           leads == /\ s.upstream \in {Neighbors!None, a}
                    /\ p.upstream # Neighbors!None
                    /\ p.depth < MaxDepth
           entry == [iv |-> msg.iv, age |-> 0, new |-> TRUE, down |-> FALSE, up |-> leads]
           D == DOMAIN s.neighbors \cup {a}
           f == [b \in D |-> IF b = a THEN entry ELSE s.neighbors[b]]
           u == IF leads THEN a ELSE s.upstream
           d == IF leads THEN p.depth + 1 ELSE s.depth
           q == Neighbors!Restricted(s.prov, DOMAIN s.prov \ {a})
           t == Neighbors!Joined(s, a, msg)
<1>1. /\ DOMAIN s = NodeFields /\ s.session \in Nat
      /\ Agree(n, s.neighbors, s.upstream, s.depth) /\ IsList(n, s.prov, Neighbors!Provisional)
  BY DEF GoodNode
<1>2. a \in Nodes \ {n} /\ p \in Neighbors!Provisional
  BY <1>1 DEF IsList
<1>3. t = [s EXCEPT !.neighbors = f, !.upstream = u, !.depth = d, !.restarted = TRUE, !.prov = q]
  BY DEF Neighbors!Joined, Neighbors!Known
<1>4. entry \in Neighbors!Entry /\ (entry.up => leads)
  <2> HIDE DEF leads
  <2>1. leads \in BOOLEAN
    BY DEF leads
  <2> QED BY <2>1, NodesAreNot DEF Neighbors!Entry
<1>5. leads => p.depth + 1 \in 1 .. MaxDepth
  <2>1. p.depth \in 0 .. MaxDepth
    BY <1>2 DEF Neighbors!Provisional
  <2> HIDE DEF p
  <2> QED BY <2>1, NodesAreNot
<1>6. /\ leads => u = a /\ d \in 1 .. MaxDepth /\ s.upstream \in {Neighbors!None, a}
      /\ ~leads => u = s.upstream /\ d = s.depth
  <2> HIDE DEF p
  <2> QED BY <1>5
<1>7. /\ \A b \in DOMAIN q : q[b] = s.prov[b] /\ b \in DOMAIN s.prov
  BY DEF Neighbors!Restricted
<1> HIDE DEF q
<1>8. IsList(n, q, Neighbors!Provisional)
  BY <1>1, <1>7 DEF IsList
<1> HIDE DEF entry, leads, p, u, d
<1>9. DOMAIN f = D /\ f[a] = entry /\ \A b \in D : b # a => f[b] = s.neighbors[b]
  OBVIOUS
<1> HIDE DEF f, t
<1>10. IsList(n, f, Neighbors!Entry)
  BY <1>1, <1>2, <1>4, <1>9 DEF Agree, IsList
<1>11. /\ u \in Nodes \cup {Neighbors!None} /\ d \in 0 .. MaxDepth
       /\ n = Gateway => u = Gateway /\ d = 0
  <2>1. CASE leads
    <3>1. n = Gateway => s.upstream = Gateway
      BY <1>1 DEF Agree
    <3>2. n # Gateway
      BY <1>2, <1>6, <2>1, <3>1, NodesAreNot
    <3> QED BY <1>2, <1>6, <2>1, <3>2, NodesAreNot
  <2>2. CASE ~leads
    BY <1>1, <1>6, <2>2 DEF Agree
  <2> QED BY <2>1, <2>2
<1>12. n # Gateway => (u # Neighbors!None => u \in DOMAIN f /\ d \in 1 .. MaxDepth)
  BY <1>1, <1>6, <1>9 DEF Agree
<1>13. ASSUME n # Gateway, NEW b \in DOMAIN f, f[b].up PROVE b = u
  <2>1. CASE b = a
    BY <1>4, <1>6, <1>9, <1>13, <2>1
  <2>2. CASE b # a
    <3>1. b \in DOMAIN s.neighbors /\ s.neighbors[b].up
      BY <1>9, <1>13, <2>2
    <3>2. b = s.upstream /\ b # Neighbors!None
      BY <1>1, <1>13, <3>1, NodesAreNot DEF Agree, IsList
    <3> QED BY <1>6, <2>2, <3>2
  <2> QED BY <2>1, <2>2
<1>14. Agree(n, f, u, d)
  BY <1>9, <1>10, <1>11, <1>12, <1>13 DEF Agree
<1>15. /\ DOMAIN t = NodeFields /\ t.neighbors = f /\ t.upstream = u /\ t.depth = d
       /\ t.prov = q /\ t.session = s.session
  BY <1>1, <1>3 DEF NodeFields
<1>16. GoodNode(n, t)
  BY <1>1, <1>8, <1>14, <1>15 DEF GoodNode
<1> QED BY <1>16 DEF t

\* The beacons of a neighbor a of n.
GoodBeacon(b) == b.upstream \in Nodes \cup {Neighbors!None} /\ b.depth \in 0 .. MaxDepth /\ b.iv \in Nat

\* A neighbor becomes the upstream, or is marked as the upstream it is.
LEMMA MarkedGood ==
    ASSUME NEW n \in Nodes, n # Gateway, NEW s, GoodNode(n, s), NEW a \in DOMAIN s.neighbors,
           s.upstream \in {Neighbors!None, a}, NEW d \in 1 .. MaxDepth,
           NEW t, t = [s EXCEPT !.upstream = a, !.depth = d, !.neighbors[a].up = TRUE]
    PROVE  GoodNode(n, t)
<1> DEFINE e == [s.neighbors[a] EXCEPT !.up = TRUE]
           f == [s.neighbors EXCEPT ![a] = e]
<1>1. DOMAIN s = NodeFields /\ Agree(n, s.neighbors, s.upstream, s.depth)
  BY DEF GoodNode
<1>2. t = [s EXCEPT !.upstream = a, !.depth = d, !.neighbors = f]
  OBVIOUS
<1>3. s.neighbors[a] \in Neighbors!Entry /\ a \in Nodes
  BY <1>1 DEF Agree, IsList
<1>4. e \in Neighbors!Entry
  BY <1>3, EntryWith
<1> HIDE DEF e
<1>5. DOMAIN f = DOMAIN s.neighbors /\ f[a] = e /\ \A b \in DOMAIN f : b # a => f[b] = s.neighbors[b]
  OBVIOUS
<1> HIDE DEF f
<1>6. /\ DOMAIN t = NodeFields /\ t.neighbors = f /\ t.upstream = a /\ t.depth = d
      /\ t.prov = s.prov /\ t.session = s.session
  BY <1>1, <1>2 DEF NodeFields
<1>7. IsList(n, f, Neighbors!Entry)
  BY <1>1, <1>4, <1>5 DEF Agree, IsList
<1>8. ASSUME NEW b \in DOMAIN f, f[b].up PROVE b = a
  <2> SUFFICES ASSUME b # a PROVE FALSE
    OBVIOUS
  <2>1. b \in DOMAIN s.neighbors /\ s.neighbors[b].up
    BY <1>5, <1>8
  <2>2. b = s.upstream /\ b # Neighbors!None
    BY <1>1, <2>1, NodesAreNot DEF Agree, IsList
  <2> QED BY <2>2
<1>9. d \in 0 .. MaxDepth
  BY NodesAreNot
<1>10. Agree(n, f, a, d)
  BY <1>1, <1>3, <1>5, <1>7, <1>8, <1>9 DEF Agree
<1> QED BY <1>6, <1>10, NodeWith

LEMMA WithUpstreamGood ==
    ASSUME NEW n \in Nodes, n # Gateway, NEW s, GoodNode(n, s), NEW a \in DOMAIN s.neighbors,
           NEW b, b.depth + 1 \in 1 .. MaxDepth
    PROVE  GoodNode(n, Neighbors!WithUpstream(s, a, b))
<1> DEFINE r == IF s.upstream = Neighbors!None THEN s ELSE Neighbors!WithoutUpstream(s)
<1>1. GoodNode(n, r) /\ a \in DOMAIN r.neighbors /\ r.upstream = Neighbors!None
  BY WithoutUpstreamGood
<1>2. Neighbors!WithUpstream(s, a, b)
        = [r EXCEPT !.upstream = a, !.depth = b.depth + 1, !.neighbors[a].up = TRUE]
  BY DEF Neighbors!WithUpstream
<1> HIDE DEF r
<1> QED BY <1>1, <1>2, MarkedGood

LEMMA FromUpstreamGood ==
    ASSUME NEW n \in Nodes, n # Gateway, NEW s, GoodNode(n, s), s.upstream \in DOMAIN s.neighbors,
           NEW b, GoodBeacon(b)
    PROVE  GoodNode(n, Neighbors!FromUpstream(s, s.upstream, b))
<1> DEFINE a == s.upstream
           t == [s EXCEPT !.neighbors[a].up = TRUE, !.depth = b.depth + 1]
<1>1. CASE b.upstream = Neighbors!None \/ b.depth + 1 > MaxDepth
  BY <1>1, WithoutUpstreamGood DEF Neighbors!FromUpstream
<1>2. CASE ~(b.upstream = Neighbors!None \/ b.depth + 1 > MaxDepth)
  <2>1. b.depth + 1 \in 1 .. MaxDepth
    BY <1>2, NodesAreNot DEF GoodBeacon
  <2>2. Neighbors!FromUpstream(s, s.upstream, b) = t
    BY <1>2 DEF Neighbors!FromUpstream
  <2>3. DOMAIN s = NodeFields
    BY DEF GoodNode
  <2>4. t = [s EXCEPT !.upstream = a, !.depth = b.depth + 1, !.neighbors[a].up = TRUE]
    BY <2>3 DEF NodeFields
  <2> HIDE DEF t
  <2>5. GoodNode(n, t)
    BY <2>1, <2>4, MarkedGood
  <2> QED BY <2>2, <2>5
<1> QED BY <1>1, <1>2

\* process_beacon, case 1-B
LEMMA RefreshedGood ==
    ASSUME NEW n \in Nodes, NEW s, GoodNode(n, s), NEW a \in Neighbors!Known(s), NEW b, GoodBeacon(b)
    PROVE  GoodNode(n, Neighbors!Refreshed(n, s, a, b))
<1> DEFINE from == b.upstream = n
           e == [s.neighbors[a] EXCEPT !.age = 0, !.new = FALSE, !.down = from]
           f == [s.neighbors EXCEPT ![a] = e]
           t == [s EXCEPT !.neighbors[a].age = 0, !.neighbors[a].new = FALSE,
                          !.neighbors[a].down = b.upstream = n]
<1>1. /\ DOMAIN s = NodeFields /\ Agree(n, s.neighbors, s.upstream, s.depth)
      /\ a \in DOMAIN s.neighbors
  BY DEF GoodNode, Neighbors!Known
<1>2. a \in Nodes \ {n} /\ s.neighbors[a] \in Neighbors!Entry
  BY <1>1 DEF Agree, IsList
<1>3. e \in Neighbors!Entry /\ e.up = s.neighbors[a].up
  <2>1. from \in BOOLEAN
    OBVIOUS
  <2> HIDE DEF from
  <2> QED BY <1>2, <2>1, EntryWith
<1>4. t = [s EXCEPT !.neighbors = f]
  BY <1>1, <1>2 DEF NodeFields, Neighbors!Entry
<1> HIDE DEF e
<1>5. DOMAIN f = DOMAIN s.neighbors /\ f[a] = e /\ \A c \in DOMAIN f : c # a => f[c] = s.neighbors[c]
  BY <1>1
<1> HIDE DEF f
<1>6. Neighbors!Refreshed(n, s, a, b)
        = IF a = t.upstream THEN Neighbors!FromUpstream(t, a, b)
          ELSE IF t.upstream = Neighbors!None /\ b.upstream # Neighbors!None /\ b.depth < MaxDepth
          THEN Neighbors!WithUpstream(t, a, b)
          ELSE IF b.upstream # Neighbors!None /\ b.depth + 1 < t.depth
          THEN Neighbors!WithUpstream(t, a, b)
          ELSE t
  <2>1. t.upstream = s.upstream /\ t.depth = s.depth
    BY <1>1, <1>4 DEF NodeFields
  <2> QED BY <2>1 DEF Neighbors!Refreshed
<1> HIDE DEF t
<1>7. /\ DOMAIN t = NodeFields /\ t.neighbors = f /\ t.upstream = s.upstream /\ t.depth = s.depth
      /\ t.prov = s.prov /\ t.session = s.session
  BY <1>1, <1>4 DEF NodeFields
<1>8. Agree(n, f, s.upstream, s.depth)
  BY <1>1, <1>3, <1>5 DEF Agree, IsList
<1>9. GoodNode(n, t) /\ a \in DOMAIN t.neighbors
  BY <1>1, <1>5, <1>7, <1>8, NodeWith
<1>10. Agree(n, t.neighbors, t.upstream, t.depth)
  BY <1>9 DEF GoodNode
<1>11. CASE a = t.upstream
  <2>1. n # Gateway
    BY <1>2, <1>10, <1>11 DEF Agree
  <2> QED BY <1>6, <1>9, <1>11, <2>1, FromUpstreamGood
<1>12. CASE /\ a # t.upstream /\ t.upstream = Neighbors!None
            /\ b.upstream # Neighbors!None /\ b.depth < MaxDepth
  <2>1. n # Gateway /\ b.depth + 1 \in 1 .. MaxDepth
    BY <1>10, <1>12, NodesAreNot DEF Agree, GoodBeacon
  <2> QED BY <1>6, <1>9, <1>12, <2>1, WithUpstreamGood
<1>13. CASE /\ a # t.upstream
            /\ ~(t.upstream = Neighbors!None /\ b.upstream # Neighbors!None /\ b.depth < MaxDepth)
            /\ b.upstream # Neighbors!None /\ b.depth + 1 < t.depth
  <2>1. n # Gateway /\ b.depth + 1 \in 1 .. MaxDepth
    BY <1>10, <1>13, NodesAreNot DEF Agree, GoodBeacon
  <2> QED BY <1>6, <1>9, <1>13, <2>1, WithUpstreamGood
<1>14. CASE /\ a # t.upstream
            /\ ~(t.upstream = Neighbors!None /\ b.upstream # Neighbors!None /\ b.depth < MaxDepth)
            /\ ~(b.upstream # Neighbors!None /\ b.depth + 1 < t.depth)
  BY <1>6, <1>9, <1>14
<1> QED BY <1>11, <1>12, <1>13, <1>14

-----------------------------------------------------------------------------
(* Messages *)

LEMMA MessageKinds ==
    ASSUME NEW m \in Message
    PROVE  /\ m.kind = "beacon" => GoodBeacon(m)
           /\ m.kind \in {"flash", "thunder"} => m.challenge \in Nat
           /\ m.kind \in {"thunder", "evict"} => m.iv \in Nat
BY DEF Message, GoodBeacon

LEMMA MessagesAre ==
    ASSUME NEW n \in Nodes, NEW s, GoodNode(n, s)
    PROVE  /\ Neighbors!Beacon(n, s, TRUE) \in Message /\ Neighbors!Beacon(n, s, FALSE) \in Message
           /\ Neighbors!Evict(s) \in Message
           /\ \A c \in Nat : Neighbors!Thunder(s, c) \in Message /\ Neighbors!Flash(c) \in Message
<1>1. s.upstream \in Nodes \cup {Neighbors!None} /\ s.depth \in 0 .. MaxDepth /\ s.session \in Nat
  BY DEF GoodNode, Agree
<1>2. ASSUME NEW join \in BOOLEAN PROVE Neighbors!Beacon(n, s, join) \in Message
  <2> DEFINE g == n = Gateway
             u == Neighbors!Full(n, s)
             o == ~join /\ Neighbors!Full(n, s) /\ Neighbors!Droppable(s) = {}
             b == [kind |-> "beacon", upstream |-> s.upstream, depth |-> s.depth, join |-> join,
                   gateway |-> g, full |-> u, noJoin |-> o, iv |-> s.session]
  <2>1. g \in BOOLEAN /\ u \in BOOLEAN /\ o \in BOOLEAN
    BY DEF Neighbors!Full
  <2>2. Neighbors!Beacon(n, s, join) = b
    BY DEF Neighbors!Beacon
  <2> HIDE DEF g, u, o
  <2>3. b \in [kind : {"beacon"}, upstream : Nodes \cup {Neighbors!None}, depth : 0 .. MaxDepth,
               join : BOOLEAN, gateway : BOOLEAN, full : BOOLEAN, noJoin : BOOLEAN, iv : Nat]
    BY <1>1, <2>1
  <2> HIDE DEF b
  <2> QED BY <2>2, <2>3 DEF Message
<1>3. Neighbors!Evict(s) \in Message
  BY <1>1 DEF Neighbors!Evict, Message
<1>4. \A c \in Nat : Neighbors!Thunder(s, c) \in Message /\ Neighbors!Flash(c) \in Message
  BY <1>1 DEF Neighbors!Thunder, Neighbors!Flash, Message
<1> QED BY <1>2, <1>3, <1>4

\* A node in order, and messages.
GoodEffect(n, e) == GoodNode(n, e[1]) /\ \A x \in DOMAIN e[2] : e[2][x] \in Seq(Message)

LEMMA EffectIs ==
    ASSUME NEW n, NEW s, GoodNode(n, s), NEW out, \A x \in DOMAIN out : out[x] \in Seq(Message)
    PROVE  GoodEffect(n, <<s, out>>)
BY DEF GoodEffect

LEMMA OneMessage ==
    ASSUME NEW n, NEW s, GoodNode(n, s), NEW a, NEW q \in Seq(Message)
    PROVE  GoodEffect(n, <<s, Neighbors!To(a, q)>>)
<1> DEFINE out == Neighbors!To(a, q)
<1>1. \A x \in DOMAIN out : out[x] \in Seq(Message)
  BY DEF Neighbors!To
<1> HIDE DEF out
<1>2. GoodEffect(n, <<s, out>>)
  BY <1>1, EffectIs
<1> QED BY <1>2 DEF out

LEMMA NoMessage ==
    ASSUME NEW n, NEW s, GoodNode(n, s)
    PROVE  GoodEffect(n, <<s, Neighbors!Nothing>>)
<1>1. \A x \in DOMAIN Neighbors!Nothing : Neighbors!Nothing[x] \in Seq(Message)
  BY DEF Neighbors!Nothing
<1> QED BY <1>1, EffectIs

\* add_prov
LEMMA WithProvGood ==
    ASSUME NEW n \in Nodes, NEW s, GoodNode(n, s), NEW a \in Nodes \ {n}, NEW b, GoodBeacon(b),
           NEW state \in {"WAIT_FLASH", "WAIT_THUNDER"}, NEW c \in Nat
    PROVE  GoodNode(n, Neighbors!WithProv(s, a, state, c, b))
<1> DEFINE e == [state |-> state, challenge |-> c, upstream |-> b.upstream, depth |-> b.depth]
           f == [x \in DOMAIN s.prov \cup {a} |-> IF x = a THEN e ELSE s.prov[x]]
           t == Neighbors!WithProv(s, a, state, c, b)
<1>1. DOMAIN s = NodeFields /\ IsList(n, s.prov, Neighbors!Provisional)
  BY DEF GoodNode
<1>2. e \in Neighbors!Provisional
  BY DEF Neighbors!Provisional, GoodBeacon
<1>3. t = [s EXCEPT !.prov = f]
  BY DEF Neighbors!WithProv
<1> HIDE DEF e
<1>4. IsList(n, f, Neighbors!Provisional)
  BY <1>1, <1>2 DEF IsList
<1> HIDE DEF f, t
<1>5. /\ DOMAIN t = NodeFields /\ t.session = s.session /\ t.neighbors = s.neighbors
      /\ t.upstream = s.upstream /\ t.depth = s.depth /\ t.prov = f
  BY <1>1, <1>3 DEF NodeFields
<1>6. GoodNode(n, t)
  BY <1>4, <1>5, NodeKeeps
<1> QED BY <1>6 DEF t

\* initiate_join, accept_join
LEMMA JoinGood ==
    ASSUME NeighborsInv, NEW n \in Nodes, NEW s, GoodNode(n, s), NEW a \in Nodes \ {n},
           NEW b, GoodBeacon(b), NEW accept, NEW queued
    PROVE  GoodEffect(n, Neighbors!Join(n, s, a, b, accept, queued))
<1> DEFINE j == Neighbors!Join(n, s, a, b, accept, queued)
<1>1. CASE ~Neighbors!ProvRoom(n, s, a)
  BY <1>1, NoMessage DEF Neighbors!Join
<1>2. CASE Neighbors!ProvRoom(n, s, a) /\ ~queued
  <2> DEFINE t == [s EXCEPT !.blank = s.blank + 1]
  <2>1. DOMAIN s = NodeFields /\ IsList(n, s.prov, Neighbors!Provisional)
    BY DEF GoodNode
  <2>2. j = <<t, Neighbors!Nothing>>
    BY <1>2 DEF Neighbors!Join
  <2>3. /\ DOMAIN t = NodeFields /\ t.session = s.session /\ t.neighbors = s.neighbors
        /\ t.upstream = s.upstream /\ t.depth = s.depth /\ t.prov = s.prov
    BY <2>1 DEF NodeFields
  <2> HIDE DEF t, j
  <2>4. GoodNode(n, t)
    BY <2>1, <2>3, NodeKeeps
  <2>5. GoodEffect(n, j)
    BY <2>2, <2>4, NoMessage
  <2> QED BY <2>5 DEF j
<1>3. CASE Neighbors!ProvRoom(n, s, a) /\ queued /\ accept
  <2> DEFINE t == Neighbors!WithProv(s, a, "WAIT_THUNDER", Neighbors!Fresh, b)
             q == <<Neighbors!Flash(Neighbors!Fresh)>>
  <2>1. Neighbors!Fresh \in Nat
    BY FreshIsNew
  <2>2. GoodNode(n, t)
    BY <2>1, WithProvGood
  <2>3. Neighbors!Flash(Neighbors!Fresh) \in Message
    BY <2>1, MessagesAre
  <2>4. q \in Seq(Message)
    BY <2>3
  <2>5. j = <<t, Neighbors!To(a, q)>>
    BY <1>3 DEF Neighbors!Join
  <2> HIDE DEF t, q, j
  <2>6. GoodEffect(n, j)
    BY <2>2, <2>4, <2>5, OneMessage
  <2> QED BY <2>6 DEF j
<1>4. CASE Neighbors!ProvRoom(n, s, a) /\ queued /\ ~accept
  <2> DEFINE t == Neighbors!WithProv(s, a, "WAIT_FLASH", 0, b)
             m == Neighbors!Beacon(n, s, TRUE)
             q == <<m>>
  <2>1. GoodNode(n, t)
    BY WithProvGood
  <2>2. m \in Message
    BY MessagesAre
  <2>3. q \in Seq(Message)
    <3> HIDE DEF m
    <3> QED BY <2>2
  <2>4. j = <<t, Neighbors!To(a, q)>>
    BY <1>4 DEF Neighbors!Join
  <2> HIDE DEF t, q, j
  <2>5. GoodEffect(n, j)
    BY <2>1, <2>3, <2>4, OneMessage
  <2> QED BY <2>5 DEF j
<1> QED BY <1>1, <1>2, <1>3, <1>4

\* process_flash
LEMMA OnFlashGood ==
    ASSUME NeighborsInv, NEW n \in Nodes, NEW s, GoodNode(n, s), NEW a \in Nodes \ {n},
           NEW m \in Message, m.kind = "flash"
    PROVE  GoodEffect(n, Neighbors!OnFlash(n, s, a, m))
<1> DEFINE answer == Neighbors!Thunder(s, m.challenge)
           flash == Neighbors!Flash(Neighbors!Fresh)
           c == Neighbors!Fresh
           e == [s.prov[a] EXCEPT !.state = "WAIT_THUNDER", !.challenge = c]
           f == [s.prov EXCEPT ![a] = e]
           t == [s EXCEPT !.prov = f]
<1>1. c \in Nat /\ m.challenge \in Nat
  BY FreshIsNew, MessageKinds
<1>2. answer \in Message /\ flash \in Message
  BY <1>1, MessagesAre
<1>3. DOMAIN s = NodeFields /\ IsList(n, s.prov, Neighbors!Provisional)
  BY DEF GoodNode
<1>4. CASE a \in DOMAIN s.prov /\ s.prov[a].state = "WAIT_FLASH"
  <2>1. s.prov[a] \in Neighbors!Provisional
    BY <1>3, <1>4 DEF IsList
  <2>2. Neighbors!OnFlash(n, s, a, m)
          = <<[s EXCEPT !.prov[a].state = "WAIT_THUNDER", !.prov[a].challenge = c],
              Neighbors!To(a, <<answer, flash>>)>>
    BY <1>4 DEF Neighbors!OnFlash
  <2> HIDE DEF answer, flash, c
  <2>3. [s EXCEPT !.prov[a].state = "WAIT_THUNDER", !.prov[a].challenge = c] = t
    BY <1>3, <1>4, <2>1 DEF NodeFields, Neighbors!Provisional
  <2>4. e \in Neighbors!Provisional
    BY <1>1, <2>1 DEF Neighbors!Provisional
  <2> HIDE DEF e
  <2>5. IsList(n, f, Neighbors!Provisional)
    BY <1>3, <2>4 DEF IsList
  <2> HIDE DEF f
  <2>6. /\ DOMAIN t = NodeFields /\ t.session = s.session /\ t.neighbors = s.neighbors
        /\ t.upstream = s.upstream /\ t.depth = s.depth /\ t.prov = f
    BY <1>3 DEF NodeFields
  <2> HIDE DEF t
  <2>7. GoodNode(n, t)
    BY <2>5, <2>6, NodeKeeps
  <2> DEFINE q == <<answer, flash>>
  <2>8. q \in Seq(Message)
    BY <1>2
  <2> HIDE DEF q
  <2>9. GoodEffect(n, <<t, Neighbors!To(a, q)>>)
    BY <2>7, <2>8, OneMessage
  <2> QED BY <2>2, <2>3, <2>9 DEF q
<1>5. CASE ~(a \in DOMAIN s.prov /\ s.prov[a].state = "WAIT_FLASH")
  <2> DEFINE q == <<answer>>
  <2>1. Neighbors!OnFlash(n, s, a, m) = <<s, Neighbors!To(a, q)>>
    BY <1>5 DEF Neighbors!OnFlash
  <2> HIDE DEF answer
  <2>2. q \in Seq(Message)
    BY <1>2
  <2> HIDE DEF q
  <2> QED BY <2>1, <2>2, OneMessage
<1> QED BY <1>4, <1>5

\* What may be dropped for another neighbor.
Dropped(s) == IF Neighbors!Droppable(s) = {} THEN {Neighbors!None} ELSE Neighbors!Droppable(s)

\* prov_received_thunder
LEMMA OnThunderGood ==
    ASSUME NeighborsInv, NEW n \in Nodes, NEW s, GoodNode(n, s), NEW a \in Nodes \ {n},
           NEW m \in Message, m.kind = "thunder",
           NEW dropped \in Dropped(s)
    PROVE  GoodEffect(n, Neighbors!OnThunder(n, s, a, m, dropped))
<1> DEFINE o == Neighbors!OnThunder(n, s, a, m, dropped)
<1>1. m.iv \in Nat
  BY MessageKinds
<1>2. /\ DOMAIN s = NodeFields /\ Agree(n, s.neighbors, s.upstream, s.depth)
      /\ IsList(n, s.prov, Neighbors!Provisional) /\ Capacity[n] \in Nat
  BY NeighborsAssumed DEF GoodNode, NeighborsAssumption
<1> DEFINE D == DOMAIN s.neighbors
<1>3. D \subseteq Nodes \ {n} /\ Cardinality(D) <= Capacity[n]
  BY <1>2 DEF Agree, IsList
<1>4. CASE ~Neighbors!Answered(s, a, m)
  BY <1>4, NoMessage DEF Neighbors!OnThunder
<1>5. CASE Neighbors!Answered(s, a, m) /\ (a \in Neighbors!Known(s) \/ ~Neighbors!Full(n, s))
  <2>1. a \in D \/ ~(Cardinality(D) >= Capacity[n])
    BY <1>5, SameCardinality DEF Neighbors!Known, Neighbors!Full
  <2>2. Cardinality(D \cup {a}) <= Capacity[n]
    <3> HIDE DEF D
    <3>1. /\ Cardinality(D) \in Nat
          /\ a \in D => Cardinality(D \cup {a}) = Cardinality(D)
          /\ a \notin D => Cardinality(D \cup {a}) = Cardinality(D) + 1
      BY <1>3, ListLength
    <3> QED BY <1>2, <1>3, <2>1, <3>1
  <2>3. a \in DOMAIN s.prov
    BY <1>5 DEF Neighbors!Answered
  <2>4. GoodNode(n, Neighbors!Joined(s, a, m))
    BY <1>1, <2>2, <2>3, JoinedGood
  <2>5. o = <<Neighbors!Joined(s, a, m), Neighbors!Nothing>>
    BY <1>5 DEF Neighbors!OnThunder
  <2> QED BY <2>4, <2>5, NoMessage
<1>6. CASE Neighbors!Answered(s, a, m) /\ ~(a \in Neighbors!Known(s) \/ ~Neighbors!Full(n,
               s)) /\ dropped = Neighbors!None
  <2> DEFINE t == [s EXCEPT !.on = FALSE]
  <2>1. o = <<t, Neighbors!Nothing>>
    BY <1>6 DEF Neighbors!OnThunder
  <2>2. /\ DOMAIN t = NodeFields /\ t.session = s.session /\ t.neighbors = s.neighbors
        /\ t.upstream = s.upstream /\ t.depth = s.depth /\ t.prov = s.prov
    BY <1>2 DEF NodeFields
  <2> HIDE DEF t, o
  <2>3. GoodNode(n, t)
    BY <1>2, <2>2, NodeKeeps
  <2>4. GoodEffect(n, o)
    BY <2>1, <2>3, NoMessage
  <2> QED BY <2>4 DEF o
<1>7. CASE Neighbors!Answered(s, a, m) /\ ~(a \in Neighbors!Known(s) \/ ~Neighbors!Full(n,
               s)) /\ dropped # Neighbors!None
  <2>1. dropped \in D /\ dropped \in Neighbors!Known(s) /\ a \notin D
    BY <1>7 DEF Dropped, Neighbors!Droppable, Neighbors!Known
  <2> DEFINE r == Neighbors!Removed(s, dropped)
  <2>2. GoodNode(n, r) /\ r.prov = s.prov /\ DOMAIN r.neighbors = D \ {dropped}
    BY <2>1, RemovedGood
  <2>3. Cardinality((D \ {dropped}) \cup {a}) <= Capacity[n]
    <3> HIDE DEF D
    <3> DEFINE E == D \ {dropped}
    <3>1. Cardinality(D) \in Nat /\ Cardinality(E) = Cardinality(D) - 1
      BY <1>3, <2>1, ListLength
    <3>2. E \subseteq Nodes \ {n} /\ a \notin E
      BY <1>3, <2>1
    <3> HIDE DEF E
    <3>3. Cardinality(E \cup {a}) = Cardinality(E) + 1
      BY <3>2, ListLength
    <3>4. Cardinality(E \cup {a}) <= Capacity[n]
      BY <1>2, <1>3, <3>1, <3>3
    <3> QED BY <3>4 DEF E
  <2>4. a \in DOMAIN s.prov
    BY <1>7 DEF Neighbors!Answered
  <2>5. o = <<Neighbors!Joined(r, a, m), Neighbors!To(dropped, <<Neighbors!Evict(s)>>)>>
    BY <1>7 DEF Neighbors!OnThunder
  <2> HIDE DEF r, D, o
  <2>6. GoodNode(n, Neighbors!Joined(r, a, m))
    BY <1>1, <2>2, <2>3, <2>4, JoinedGood
  <2> DEFINE x == Neighbors!Evict(s)
             q == <<x>>
  <2>7. q \in Seq(Message)
    <3>1. x \in Message
      BY MessagesAre
    <3> HIDE DEF x
    <3> QED BY <3>1
  <2> HIDE DEF q
  <2>8. GoodEffect(n, <<Neighbors!Joined(r, a, m), Neighbors!To(dropped, q)>>)
    BY <2>6, <2>7, OneMessage
  <2> QED BY <2>5, <2>8 DEF q, o
<1> QED BY <1>4, <1>5, <1>6, <1>7

\* process_evict
LEMMA OnEvictGood ==
    ASSUME NEW n \in Nodes, NEW s, GoodNode(n, s), NEW a, NEW m
    PROVE  GoodEffect(n, Neighbors!OnEvict(s, a, m))
<1> DEFINE t == IF a \in Neighbors!Known(s) /\ s.neighbors[a].iv = m.iv THEN Neighbors!Removed(s,
                                                           a) ELSE s
<1>1. GoodNode(n, t)
  BY RemovedGood
<1>2. Neighbors!OnEvict(s, a, m) = <<t, Neighbors!Nothing>>
  BY DEF Neighbors!OnEvict
<1> HIDE DEF t
<1> QED BY <1>1, <1>2, NoMessage

\* process_beacon
LEMMA OnBeaconGood ==
    ASSUME NeighborsInv, NEW n \in Nodes, NEW s, GoodNode(n, s), NEW a \in Nodes \ {n},
           NEW m \in Message, m.kind = "beacon", NEW queued
    PROVE  GoodEffect(n, Neighbors!OnBeacon(n, s, a, m, queued))
<1>1. GoodBeacon(m)
  BY MessageKinds
<1>2. \A accept : GoodEffect(n, Neighbors!Join(n, s, a, m, accept, queued))
  BY <1>1, JoinGood
<1>3. a \in Neighbors!Known(s) => GoodNode(n, Neighbors!Refreshed(n, s, a, m))
  BY <1>1, RefreshedGood
<1>4. CASE a \notin Neighbors!Known(s)
  BY <1>2, <1>4, NoMessage DEF Neighbors!OnBeacon
<1>5. CASE a \in Neighbors!Known(s) /\ ~m.join /\ s.neighbors[a].iv = m.iv
  <2> DEFINE t == Neighbors!Refreshed(n, s, a, m)
  <2>1. Neighbors!OnBeacon(n, s, a, m, queued) = <<t, Neighbors!Nothing>>
    BY <1>5 DEF Neighbors!OnBeacon
  <2>2. GoodNode(n, t)
    BY <1>3, <1>5
  <2> HIDE DEF t
  <2> QED BY <2>1, <2>2, NoMessage
<1>6. CASE a \in Neighbors!Known(s) /\ ~(~m.join /\ s.neighbors[a].iv = m.iv)
  BY <1>2, <1>6 DEF Neighbors!OnBeacon
<1> QED BY <1>4, <1>5, <1>6

-----------------------------------------------------------------------------
(* The steps *)

LEMMA DoesGood ==
    ASSUME NeighborsInv, NEW n \in Nodes, NEW e, GoodEffect(n, e),
           NEW before \in [Neighbors!Ports -> Seq(Message)], Neighbors!Does(n, before, e)
    PROVE  /\ node' = [m \in Nodes |-> node'[m]] /\ \A m \in Nodes : GoodNode(m, node'[m])
           /\ channel' \in [Neighbors!Ports -> Seq(Message)]
<1>1. node' = [node EXCEPT ![n] = e[1]]
  BY DEF Neighbors!Does
<1>2. node' = [m \in Nodes |-> node'[m]] /\ \A m \in Nodes : GoodNode(m, node'[m])
  BY <1>1 DEF NeighborsInv, GoodEffect
<1> DEFINE out == e[2]
           s == e[1]
           Extended(l) == IF l[1] = n /\ l[2] \in DOMAIN out /\ Neighbors!Audible(n, s, l[2])
                          THEN before[l] \o out[l[2]] ELSE before[l]
<1>3. channel' = [l \in Neighbors!Ports |-> Extended(l)]
  BY DEF Neighbors!Does, Neighbors!Sent
<1>4. ASSUME NEW l \in Neighbors!Ports PROVE Extended(l) \in Seq(Message)
  <2>1. \A x \in DOMAIN out : out[x] \in Seq(Message)
    BY DEF GoodEffect
  <2>2. before[l] \in Seq(Message)
    OBVIOUS
  <2> DEFINE x == l[2]
             p == before[l]
  <2> HIDE DEF out, s
  <2>3. CASE l[1] = n /\ x \in DOMAIN out /\ Neighbors!Audible(n, s, x)
    <3> DEFINE q == out[x]
    <3>1. q \in Seq(Message)
      BY <2>1, <2>3
    <3>2. Extended(l) = p \o q
      BY <2>3
    <3> HIDE DEF Extended, p, q
    <3>3. p \o q \in Seq(Message)
      BY <2>2, <3>1 DEF p
    <3> QED BY <3>2, <3>3
  <2>4. CASE ~(l[1] = n /\ x \in DOMAIN out /\ Neighbors!Audible(n, s, x))
    BY <2>2, <2>4
  <2> QED BY <2>3, <2>4
<1> HIDE DEF Extended
<1> QED BY <1>2, <1>3, <1>4

LEMMA PortIs ==
    ASSUME NEW l \in Neighbors!Ports
    PROVE  l[1] \in Nodes /\ l[2] \in Nodes /\ l[1] # l[2] /\ l = <<l[1], l[2]>>
BY DEF Neighbors!Ports

\* The message that arrives, and the channels without it.
LEMMA HeadOfChannel ==
    ASSUME NeighborsInv, NEW l \in Neighbors!Ports, channel[l] # <<>>
    PROVE  /\ Head(channel[l]) \in Message
           /\ [channel EXCEPT ![l] = Tail(channel[l])] \in [Neighbors!Ports -> Seq(Message)]
<1>1. channel[l] \in Seq(Message) /\ channel \in [Neighbors!Ports -> Seq(Message)]
  BY DEF NeighborsInv
<1> DEFINE q == channel[l]
           r == Tail(q)
<1>2. Head(q) \in Message /\ r \in Seq(Message)
  BY <1>1
<1> HIDE DEF r
<1>3. [channel EXCEPT ![l] = r] \in [Neighbors!Ports -> Seq(Message)]
  BY <1>1, <1>2
<1> QED BY <1>2, <1>3 DEF r

LEMMA HearStep ==
    ASSUME NeighborsInv, NEW l \in Neighbors!Ports, Neighbors!Receive(l[1], l[2])
    PROVE  NeighborsInv'
<1> DEFINE a == l[1]
           n == l[2]
           msg == Head(channel[l])
           rest == [channel EXCEPT ![l] = Tail(channel[l])]
           s == node[n]
<1>1. a \in Nodes /\ n \in Nodes /\ a # n /\ l = <<a, n>>
  BY PortIs
<1>2. /\ channel[l] # <<>> /\ UNCHANGED hitches
      /\ \/ /\ Neighbors!Running(n) /\ msg.kind = "beacon"
            /\ Neighbors!Does(n, rest, Neighbors!OnBeacon(n, s, a, msg, TRUE))
         \/ /\ Neighbors!Running(n) /\ msg.kind = "flash"
            /\ Neighbors!Does(n, rest, Neighbors!OnFlash(n, s, a, msg))
         \/ /\ Neighbors!Running(n) /\ msg.kind = "thunder"
            /\ \E dropped \in Dropped(s) :
                  Neighbors!Does(n, rest, Neighbors!OnThunder(n, s, a, msg, dropped))
         \/ /\ Neighbors!Running(n) /\ msg.kind = "evict"
            /\ Neighbors!Does(n, rest, Neighbors!OnEvict(s, a, msg))
         \/ ~Neighbors!Running(n) /\ channel' = rest /\ UNCHANGED node
  BY <1>1 DEF Neighbors!Receive, Dropped
<1>3. msg \in Message /\ rest \in [Neighbors!Ports -> Seq(Message)]
  BY <1>2, HeadOfChannel
<1>4. GoodNode(n, s) /\ a \in Nodes \ {n}
  BY <1>1 DEF NeighborsInv
<1> HIDE DEF a, n, msg, rest, s
<1>5. (\E e : GoodEffect(n, e) /\ Neighbors!Does(n, rest, e)) => NeighborsInv'
  <2> SUFFICES ASSUME NEW e, GoodEffect(n, e), Neighbors!Does(n, rest, e) PROVE NeighborsInv'
    OBVIOUS
  <2>1. /\ node' = [m \in Nodes |-> node'[m]] /\ \A m \in Nodes : GoodNode(m, node'[m])
        /\ channel' \in [Neighbors!Ports -> Seq(Message)]
    BY <1>1, <1>3, DoesGood
  <2> QED BY <1>2, <2>1 DEF NeighborsInv
<1>6. CASE /\ Neighbors!Running(n) /\ msg.kind = "beacon"
           /\ Neighbors!Does(n, rest, Neighbors!OnBeacon(n, s, a, msg, TRUE))
  <2>1. GoodEffect(n, Neighbors!OnBeacon(n, s, a, msg, TRUE))
    BY <1>1, <1>3, <1>4, <1>6, OnBeaconGood
  <2> QED BY <1>5, <1>6, <2>1
<1>7. CASE /\ Neighbors!Running(n) /\ msg.kind = "flash"
           /\ Neighbors!Does(n, rest, Neighbors!OnFlash(n, s, a, msg))
  <2>1. GoodEffect(n, Neighbors!OnFlash(n, s, a, msg))
    BY <1>1, <1>3, <1>4, <1>7, OnFlashGood
  <2> QED BY <1>5, <1>7, <2>1
<1>8. CASE /\ Neighbors!Running(n) /\ msg.kind = "thunder"
           /\ \E dropped \in Dropped(s) :
                 Neighbors!Does(n, rest, Neighbors!OnThunder(n, s, a, msg, dropped))
  <2>1. PICK dropped \in Dropped(s) :
                Neighbors!Does(n, rest, Neighbors!OnThunder(n, s, a, msg, dropped))
    BY <1>8
  <2>2. GoodEffect(n, Neighbors!OnThunder(n, s, a, msg, dropped))
    BY <1>1, <1>3, <1>4, <1>8, OnThunderGood
  <2> QED BY <1>5, <2>1, <2>2
<1>9. CASE Neighbors!Running(n) /\ msg.kind = "evict" /\ Neighbors!Does(n, rest, Neighbors!OnEvict(s, a,
               msg))
  <2>1. GoodEffect(n, Neighbors!OnEvict(s, a, msg))
    BY <1>1, <1>3, <1>4, <1>9, OnEvictGood
  <2> QED BY <1>5, <1>9, <2>1
<1>10. CASE ~Neighbors!Running(n) /\ channel' = rest /\ UNCHANGED node
  BY <1>2, <1>3, <1>10 DEF NeighborsInv
<1> QED BY <1>2, <1>6, <1>7, <1>8, <1>9, <1>10

\* Messages to all the others.
LEMMA ManyMessages ==
    ASSUME NEW n, NEW s, GoodNode(n, s), NEW m \in Message
    PROVE  GoodEffect(n, <<s, Neighbors!ToAll(n, <<m>>)>>)
<1> DEFINE out == Neighbors!ToAll(n, <<m>>)
<1>1. \A x \in DOMAIN out : out[x] \in Seq(Message)
  BY DEF Neighbors!ToAll
<1> HIDE DEF out
<1>2. GoodEffect(n, <<s, out>>)
  BY <1>1, EffectIs
<1> QED BY <1>2 DEF out

LEMMA NodeDoes ==
    ASSUME NeighborsInv, NEW n \in Nodes, NEW e, GoodEffect(n, e), Neighbors!Does(n, channel, e),
           hitches' \in 0 .. MaxHitches
    PROVE  NeighborsInv'
<1>1. channel \in [Neighbors!Ports -> Seq(Message)]
  BY DEF NeighborsInv
<1>2. /\ node' = [m \in Nodes |-> node'[m]] /\ \A m \in Nodes : GoodNode(m, node'[m])
      /\ channel' \in [Neighbors!Ports -> Seq(Message)]
  BY <1>1, DoesGood
<1> QED BY <1>2 DEF NeighborsInv

LEMMA BeaconStep ==
    ASSUME NeighborsInv, NEW n \in Nodes, Neighbors!BeaconSender(n)
    PROVE  NeighborsInv'
<1> DEFINE s == node[n]
           mode == IF s.restarted /\ s.upstream # Neighbors!None THEN "parked" ELSE s.mode
           t == [s EXCEPT !.mode = mode, !.restarted = FALSE,
                          !.tuned = IF mode = "scan" THEN ~s.tuned ELSE s.tuned]
           m == Neighbors!Beacon(n, t, FALSE)
<1>1. Neighbors!Does(n, channel, <<t, Neighbors!ToAll(n, <<m>>)>>) /\ UNCHANGED hitches
  BY DEF Neighbors!BeaconSender
<1>2. GoodNode(n, s)
  BY DEF NeighborsInv
<1>3. /\ DOMAIN t = NodeFields /\ t.session = s.session /\ t.neighbors = s.neighbors
      /\ t.upstream = s.upstream /\ t.depth = s.depth /\ t.prov = s.prov
      /\ IsList(n, s.prov, Neighbors!Provisional)
  BY <1>2 DEF GoodNode, NodeFields
<1> HIDE DEF s, t
<1>4. GoodNode(n, t)
  BY <1>2, <1>3, NodeKeeps
<1>5. m \in Message
  BY <1>4, MessagesAre
<1> HIDE DEF m
<1>6. GoodEffect(n, <<t, Neighbors!ToAll(n, <<m>>)>>)
  BY <1>4, <1>5, ManyMessages
<1>7. hitches' \in 0 .. MaxHitches
  BY <1>1 DEF NeighborsInv
<1> QED BY <1>1, <1>6, <1>7, NodeDoes

\* Another state of a node.
LEMMA NodeStep ==
    ASSUME NeighborsInv, NEW n \in Nodes, NEW s, GoodNode(n, s),
           node' = [node EXCEPT ![n] = s], UNCHANGED channel, hitches' \in 0 .. MaxHitches
    PROVE  NeighborsInv'
BY DEF NeighborsInv

LEMMA JoinTimeoutStep ==
    ASSUME NeighborsInv, NEW n \in Nodes, Neighbors!TimedOut(n), hitches' \in 0 .. MaxHitches
    PROVE  NeighborsInv'
<1> DEFINE s == node[n]
<1>1. GoodNode(n, s) /\ UNCHANGED channel
  BY DEF NeighborsInv, Neighbors!TimedOut
<1>2. DOMAIN s = NodeFields /\ IsList(n, s.prov, Neighbors!Provisional)
  BY <1>1 DEF GoodNode
<1>3. ASSUME NEW a \in DOMAIN s.prov,
             node' = [node EXCEPT ![n].prov = Neighbors!Restricted(@, DOMAIN @ \ {a})]
      PROVE  NeighborsInv'
  <2> DEFINE q == Neighbors!Restricted(s.prov, DOMAIN s.prov \ {a})
             t == [s EXCEPT !.prov = q]
  <2>1. node' = [node EXCEPT ![n] = t]
    BY <1>3
  <2>2. IsList(n, q, Neighbors!Provisional)
    BY <1>2 DEF IsList, Neighbors!Restricted
  <2> HIDE DEF q, s
  <2>3. /\ DOMAIN t = NodeFields /\ t.session = s.session /\ t.neighbors = s.neighbors
        /\ t.upstream = s.upstream /\ t.depth = s.depth /\ t.prov = q
    BY <1>2 DEF NodeFields
  <2> HIDE DEF t
  <2>4. GoodNode(n, t)
    BY <1>1, <2>2, <2>3, NodeKeeps
  <2> QED BY <1>1, <2>1, <2>4, NodeStep
<1>4. ASSUME node' = [node EXCEPT ![n].blank = @ - 1]
      PROVE  NeighborsInv'
  <2> DEFINE t == [s EXCEPT !.blank = s.blank - 1]
  <2>1. node' = [node EXCEPT ![n] = t]
    BY <1>4
  <2> HIDE DEF s
  <2>2. /\ DOMAIN t = NodeFields /\ t.session = s.session /\ t.neighbors = s.neighbors
        /\ t.upstream = s.upstream /\ t.depth = s.depth /\ t.prov = s.prov
    BY <1>2 DEF NodeFields
  <2> HIDE DEF t
  <2>3. GoodNode(n, t)
    BY <1>1, <1>2, <2>2, NodeKeeps
  <2> QED BY <1>1, <2>1, <2>3, NodeStep
<1> QED BY <1>3, <1>4 DEF Neighbors!TimedOut

LEMMA EvictStep ==
    ASSUME NeighborsInv, NEW n \in Nodes, NEW a \in Neighbors!Known(node[n]), Neighbors!Evicts(n, a),
           hitches' \in 0 .. MaxHitches
    PROVE  NeighborsInv'
<1> DEFINE s == node[n]
           t == Neighbors!Removed(s, a)
           m == Neighbors!Evict(s)
           q == <<m>>
<1>1. Neighbors!Does(n, channel, <<t, Neighbors!To(a, q)>>)
  BY DEF Neighbors!Evicts
<1>2. GoodNode(n, s)
  BY DEF NeighborsInv
<1>3. GoodNode(n, t)
  BY <1>2, RemovedGood
<1>4. m \in Message
  BY <1>2, MessagesAre
<1> HIDE DEF m
<1>5. q \in Seq(Message)
  BY <1>4
<1> HIDE DEF q, t
<1>6. GoodEffect(n, <<t, Neighbors!To(a, q)>>)
  BY <1>3, <1>5, OneMessage
<1> QED BY <1>1, <1>6, NodeDoes

\* A node without neighbors.
LEMMA EmptyGood ==
    ASSUME NEW n \in Nodes, NEW s, DOMAIN s = NodeFields, s.session \in Nat,
           s.neighbors = <<>>, s.prov = <<>>,
           n = Gateway => s.upstream = Gateway /\ s.depth = 0,
           n # Gateway => s.upstream = Neighbors!None /\ s.depth \in 0 .. MaxDepth
    PROVE  GoodNode(n, s)
<1>1. DOMAIN s.neighbors = {} /\ DOMAIN s.prov = {}
  OBVIOUS
<1>2. Cardinality({}) = 0 /\ Capacity[n] \in Nat /\ 0 \in 0 .. MaxDepth
  BY FS_EmptySet, NeighborsAssumed DEF NeighborsAssumption
<1> QED BY <1>1, <1>2 DEF GoodNode, Agree, IsList

LEMMA ResetStep ==
    ASSUME NeighborsInv, NEW n \in Nodes, Neighbors!ChannelReset(n)
    PROVE  NeighborsInv'
<1> DEFINE s == node[n]
           t == [s EXCEPT !.mode = "scan", !.countdown = 0, !.restarted = TRUE,
                          !.neighbors = <<>>, !.prov = <<>>, !.blank = 0]
           m == Neighbors!Evict(s)
<1>1. Neighbors!Does(n, channel, <<t, Neighbors!ToAll(n,
          <<m>>)>>) /\ s.upstream = Neighbors!None /\ UNCHANGED hitches
  BY DEF Neighbors!ChannelReset
<1>2. GoodNode(n, s) /\ hitches' \in 0 .. MaxHitches
  BY <1>1 DEF NeighborsInv
<1>3. /\ DOMAIN t = NodeFields /\ t.session \in Nat /\ t.neighbors = <<>> /\ t.prov = <<>>
      /\ t.upstream = s.upstream /\ t.depth = s.depth
      /\ Agree(n, s.neighbors, s.upstream, s.depth)
  BY <1>2 DEF GoodNode, NodeFields
<1>4. m \in Message
  BY <1>2, MessagesAre
<1> HIDE DEF m, t
<1>5. GoodNode(n, t)
  <2>1. /\ n = Gateway => t.upstream = Gateway /\ t.depth = 0
        /\ n # Gateway => t.upstream = Neighbors!None /\ t.depth \in 0 .. MaxDepth
    BY <1>1, <1>3 DEF Agree
  <2> QED BY <1>3, <2>1, EmptyGood
<1>6. GoodEffect(n, <<t, Neighbors!ToAll(n, <<m>>)>>)
  BY <1>4, <1>5, ManyMessages
<1> QED BY <1>1, <1>2, <1>6, NodeDoes

\* Time passes for a node whose entries are not too old.
LEMMA GrownGood ==
    ASSUME NEW n \in Nodes, NEW s, GoodNode(n, s),
           \A a \in Neighbors!Known(s) : ~(s.neighbors[a].age >= MaxAge)
    PROVE  GoodNode(n, Neighbors!Older(s))
<1> DEFINE D == DOMAIN s.neighbors
           f == [a \in D |-> [s.neighbors[a] EXCEPT !.age = s.neighbors[a].age + 1]]
           t == Neighbors!Older(s)
<1>1. DOMAIN s = NodeFields /\ Agree(n, s.neighbors, s.upstream, s.depth)
  BY DEF GoodNode
<1>2. /\ DOMAIN t = NodeFields /\ t.session = s.session /\ t.neighbors = f
      /\ t.upstream = s.upstream /\ t.depth = s.depth /\ t.prov = s.prov
  <2> DEFINE c == IF s.countdown > 1 /\ s.upstream = Neighbors!None
                  THEN s.countdown - 1 ELSE s.countdown
  <2>1. t = [s EXCEPT !.neighbors = f, !.countdown = c]
    BY DEF Neighbors!Older, Neighbors!Known
  <2> HIDE DEF c, f, t
  <2> QED BY <1>1, <2>1 DEF NodeFields
<1> HIDE DEF t
<1>3. ASSUME NEW a \in D PROVE f[a] \in Neighbors!Entry /\ f[a].up = s.neighbors[a].up
  <2> DEFINE e == s.neighbors[a]
  <2>1. e \in Neighbors!Entry /\ ~(e.age >= MaxAge)
    BY <1>1 DEF Agree, IsList, Neighbors!Known
  <2>2. f[a] = [e EXCEPT !.age = e.age + 1]
    OBVIOUS
  <2> HIDE DEF e, f
  <2>3. e.age + 1 \in 0 .. MaxAge
    BY <2>1, NodesAreNot DEF Neighbors!Entry
  <2>4. f[a] \in Neighbors!Entry /\ f[a].up = e.up
    BY <2>1, <2>2, <2>3 DEF Neighbors!Entry
  <2> QED BY <2>4 DEF e
<1>4. DOMAIN f = D
  OBVIOUS
<1> HIDE DEF f
<1>5. Agree(n, f, s.upstream, s.depth)
  BY <1>1, <1>3, <1>4 DEF Agree, IsList
<1>6. GoodNode(n, t)
  BY <1>2, <1>5, NodeWith
<1> QED BY <1>6 DEF t

LEMMA RoundStep == NeighborsInv /\ Neighbors!NextRound => NeighborsInv'
<1> SUFFICES ASSUME NeighborsInv, Neighbors!NextRound PROVE NeighborsInv'
  OBVIOUS
<1>1. /\ node' = [n \in Nodes |-> IF Neighbors!Running(n) THEN Neighbors!Older(node[n]) ELSE node[n]]
      /\ UNCHANGED <<channel, hitches>>
      /\ \A n \in Nodes : Neighbors!Running(n) =>
            \A a \in Neighbors!Known(node[n]) : ~(node[n].neighbors[a].age >= MaxAge)
  BY DEF Neighbors!NextRound, Neighbors!TooOld
<1>2. \A n \in Nodes : Neighbors!Running(n) => GoodNode(n, Neighbors!Older(node[n]))
  BY <1>1, GrownGood DEF NeighborsInv
<1>3. node' = [n \in Nodes |-> node'[n]] /\ \A n \in Nodes : GoodNode(n, node'[n])
  BY <1>1, <1>2 DEF NeighborsInv
<1> QED BY <1>1, <1>3 DEF NeighborsInv

LEMMA BootedGood ==
    ASSUME NEW n \in Nodes, NEW c \in Nat
    PROVE  GoodNode(n, Neighbors!Booted(n, c))
<1> DEFINE s == Neighbors!Booted(n, c)
<1>1. /\ DOMAIN s = NodeFields /\ s.session = c /\ s.neighbors = <<>> /\ s.prov = <<>>
      /\ s.upstream = IF n = Gateway THEN Gateway ELSE Neighbors!None
      /\ s.depth = 0
  BY DEF Neighbors!Booted, NodeFields
<1> HIDE DEF s
<1>2. 0 \in 0 .. MaxDepth
  BY NodesAreNot
<1>3. GoodNode(n, s)
  BY <1>1, <1>2, EmptyGood
<1> QED BY <1>3 DEF s

LEMMA HitchStep ==
    ASSUME NeighborsInv, Neighbors!Hitch
    PROVE  NeighborsInv'
<1>1. hitches' \in 0 .. MaxHitches
  BY NeighborsAssumed DEF Neighbors!Hitch, NeighborsInv, NeighborsAssumption
<1>2. ASSUME NEW l \in Neighbors!Ports, channel[l] # <<>>, channel' = [channel EXCEPT ![l] = Tail(@)],
             UNCHANGED node
      PROVE  NeighborsInv'
  <2>1. channel' \in [Neighbors!Ports -> Seq(Message)]
    BY <1>2, HeadOfChannel
  <2> QED BY <1>1, <1>2, <2>1 DEF NeighborsInv
<1>3. ASSUME NEW l \in Neighbors!Ports, channel[l] # <<>>, Head(channel[l]).kind = "beacon",
             Neighbors!Does(l[2], [channel EXCEPT ![l] = Tail(@)],
                  Neighbors!OnBeacon(l[2], node[l[2]], l[1], Head(channel[l]), FALSE))
      PROVE  NeighborsInv'
  <2> DEFINE n == l[2]
             a == l[1]
             m == Head(channel[l])
             rest == [channel EXCEPT ![l] = Tail(channel[l])]
             e == Neighbors!OnBeacon(n, node[n], a, m, FALSE)
  <2>1. a \in Nodes \ {n} /\ n \in Nodes
    BY PortIs
  <2>2. m \in Message /\ m.kind = "beacon" /\ rest \in [Neighbors!Ports -> Seq(Message)]
    BY <1>3, HeadOfChannel
  <2>3. GoodNode(n, node[n])
    BY <2>1 DEF NeighborsInv
  <2>4. Neighbors!Does(n, rest, e)
    BY <1>3
  <2> HIDE DEF a, m, n, rest
  <2>5. GoodEffect(n, e)
    BY <2>1, <2>2, <2>3, OnBeaconGood
  <2> HIDE DEF e
  <2>6. /\ node' = [k \in Nodes |-> node'[k]] /\ \A k \in Nodes : GoodNode(k, node'[k])
        /\ channel' \in [Neighbors!Ports -> Seq(Message)]
    BY <2>1, <2>2, <2>4, <2>5, DoesGood
  <2> QED BY <1>1, <2>6 DEF NeighborsInv
<1>4. ASSUME NEW n \in Nodes, Neighbors!TimedOut(n) PROVE NeighborsInv'
  BY <1>1, <1>4, JoinTimeoutStep
<1>5. ASSUME NEW n \in Nodes, NEW a \in Neighbors!Known(node[n]), Neighbors!Evicts(n,
                                                             a) PROVE NeighborsInv'
  BY <1>1, <1>5, EvictStep
<1>6. ASSUME NEW n \in Nodes, node' = [node EXCEPT ![n] = Neighbors!Booted(n, @.session + 1)],
             channel' = [l \in Neighbors!Ports |-> IF n \in {l[1], l[2]} THEN <<>> ELSE channel[l]]
      PROVE  NeighborsInv'
  <2>1. node[n].session + 1 \in Nat
    BY DEF NeighborsInv, GoodNode
  <2>2. GoodNode(n, Neighbors!Booted(n, node[n].session + 1))
    BY <2>1, BootedGood
  <2>3. node' = [k \in Nodes |-> node'[k]] /\ \A k \in Nodes : GoodNode(k, node'[k])
    BY <1>6, <2>2 DEF NeighborsInv
  <2>4. channel' \in [Neighbors!Ports -> Seq(Message)]
    BY <1>6 DEF NeighborsInv
  <2> QED BY <1>1, <2>3, <2>4 DEF NeighborsInv
<1>7. ASSUME NEW n \in Nodes, node' = [node EXCEPT ![n].on = FALSE], UNCHANGED channel
      PROVE  NeighborsInv'
  <2> DEFINE s == node[n]
             t == [s EXCEPT !.on = FALSE]
  <2>1. node' = [node EXCEPT ![n] = t] /\ GoodNode(n, s)
    BY <1>7 DEF NeighborsInv
  <2> HIDE DEF s
  <2>2. /\ DOMAIN t = NodeFields /\ t.session = s.session /\ t.neighbors = s.neighbors
        /\ t.upstream = s.upstream /\ t.depth = s.depth /\ t.prov = s.prov
        /\ IsList(n, s.prov, Neighbors!Provisional)
    BY <2>1 DEF NodeFields, GoodNode
  <2> HIDE DEF t
  <2>3. GoodNode(n, t)
    BY <2>1, <2>2, NodeKeeps
  <2> QED BY <1>1, <1>7, <2>1, <2>3, NodeStep
<1> QED BY <1>2, <1>3, <1>4, <1>5, <1>6, <1>7 DEF Neighbors!Hitch

LEMMA NeighborsStep == NeighborsInv /\ [Neighbors!Next]_neighborVars => NeighborsInv'
<1> SUFFICES ASSUME NeighborsInv, [Neighbors!Next]_neighborVars PROVE NeighborsInv'
  OBVIOUS
<1>1. UNCHANGED hitches => hitches' \in 0 .. MaxHitches
  BY DEF NeighborsInv
<1>2. ASSUME NEW n \in Nodes,
                 Neighbors!JoinTimeout(n) \/ Neighbors!NeighborMonitor(n) PROVE NeighborsInv'
  BY <1>1, <1>2, JoinTimeoutStep, EvictStep DEF Neighbors!JoinTimeout, Neighbors!NeighborMonitor
<1>3. CASE UNCHANGED neighborVars
  BY <1>3 DEF neighborVars, NeighborsInv
<1> QED BY <1>2, <1>3, HearStep, BeaconStep, ResetStep, RoundStep, HitchStep DEF Neighbors!Next,
    Neighbors!Progress

LEMMA NeighborsStart == Neighbors!Init => NeighborsInv
<1> SUFFICES ASSUME Neighbors!Init PROVE NeighborsInv
  OBVIOUS
<1>1. \A n \in Nodes : GoodNode(n, Neighbors!Booted(n, 1))
  BY BootedGood
<1>2. 0 \in 0 .. MaxHitches
  BY NeighborsAssumed DEF NeighborsAssumption
<1> QED BY <1>1, <1>2 DEF Neighbors!Init, NeighborsInv

LEMMA NeighborsInvGives == NeighborsInv => Neighbors!NeighborsSound
<1> SUFFICES ASSUME NeighborsInv PROVE Neighbors!NeighborsSound
  OBVIOUS
<1>1. \A n \in Nodes : /\ Agree(n, node[n].neighbors, node[n].upstream, node[n].depth)
                       /\ IsList(n, node[n].prov, Neighbors!Provisional)
  BY DEF NeighborsInv, GoodNode
<1>2. Neighbors!TypeOK
  BY <1>1, SameCardinality DEF Neighbors!TypeOK, NeighborsInv, Agree, IsList
<1>3. Neighbors!UpstreamIsNeighbor
  BY <1>1 DEF Neighbors!UpstreamIsNeighbor, Agree, Neighbors!Known
<1> QED BY <1>2, <1>3 DEF Neighbors!NeighborsSound

-----------------------------------------------------------------------------
(* IP packets in fragments *)

LEMMA FragmentsAssumed == FragmentsAssumption
BY ServicesAssumption

Id == [from : Stations, starts : Nat, number : Nat]
\* What tells messages apart in a replay cache comes from who sent it and how many were before.
Labeled(x) == x.source = Address[x.id.from] /\ x.tag = x.id.number % TagSpace
Msg == {m \in [id : Id, source : {Address[n] : n \in Stations}, tag : Nat,
               dest : {Packets[p].dest : p \in DOMAIN Packets}, ttl : Nat \ {0}, stale : BOOLEAN] :
           Labeled(m)}
SeenEntry == {e \in [id : Id, source : {Address[n] : n \in Stations}, tag : Nat] : Labeled(e)}
CacheEntry ==
    [source : {Address[n] : n \in Stations} \cup {Fragments!Zero}, tag : Nat, age : 0 .. CacheAge]
Stream == [from : Stations, tag : Nat, age : 0 .. StreamAge, content : Seq(Msg)]
Station == [queue : Seq(Msg), offset : 0 .. Fragmented - 1, streams : Seq(Stream), tag : Nat,
            cache : [1 .. CacheSlots -> CacheEntry],
            starts : Nat, number : Nat, seen : SUBSET SeenEntry]

\* A message begun, and not yet whole.
InPart(r) == Len(r.content) \in 1 .. Fragmented - 1
\* The entry is unused, or its message was put together or sent before.
WasSeen(s, e) ==
    e.source = Fragments!Zero \/ \E x \in s.seen : x.source = e.source /\ x.tag = e.tag

GoodStation(s) ==
    /\ s \in Station
    /\ s.tag = s.number % TagSpace
    /\ \A i \in DOMAIN s.streams : InPart(s.streams[i])
    /\ \A i \in 1 .. CacheSlots : WasSeen(s, s.cache[i])

FragmentsInv ==
    /\ DOMAIN station = Stations /\ \A n \in Stations : GoodStation(station[n])
    /\ created \subseteq DOMAIN Packets
    /\ mishaps \in 0 .. MaxMishaps
    /\ Fragments!HandedWhole /\ Fragments!RefusesOnlySeen

-----------------------------------------------------------------------------
(* Division and remainders *)

LEMMA Division ==
    ASSUME NEW a \in Int, NEW t \in Int, t > 0
    PROVE  /\ a \div t \in Int /\ a % t \in 0 .. t - 1
           /\ a = t * (a \div t) + (a % t)
<1>1. a = t * (a \div t) + (a % t)
  BY Z3
<1>2. a \div t \in Int /\ a % t \in 0 .. t - 1
  OBVIOUS
<1> QED BY <1>1, <1>2

LEMMA Multiples ==
    ASSUME NEW t \in Int, t > 0, NEW p \in Int, NEW q \in Int, p < q
    PROVE  t * p + t <= t * q
<1>1. t * (q - p) >= t * 1
  OBVIOUS
<1> QED BY <1>1

LEMMA Quotient ==
    ASSUME NEW a \in Int, NEW t \in Int, t > 0, NEW q \in Int, NEW r \in 0 .. t - 1, a = t * q + r
    PROVE  a \div t = q /\ a % t = r
<1>1. a \div t \in Int /\ a % t \in 0 .. t - 1 /\ a = t * (a \div t) + (a % t)
  BY Division
<1>2. ~(a \div t < q)
  BY <1>1, Multiples
<1>3. ~(a \div t > q)
  BY <1>1, Multiples
<1> QED BY <1>1, <1>2, <1>3

\* Numbers with the same remainder are the divisor apart.
LEMMA SameRemainder ==
    ASSUME NEW a \in Int, NEW b \in Int, NEW t \in Int, t > 0, a % t = b % t, a # b
    PROVE  a + t <= b \/ b + t <= a
<1> DEFINE p == a \div t
           q == b \div t
           r == a % t
<1>1. p \in Int /\ q \in Int /\ r \in Int /\ a = t * p + r /\ b = t * q + r
  BY Division
<1> HIDE DEF p, q, r
<1>2. CASE p < q
  BY <1>1, <1>2, Multiples
<1>3. CASE q < p
  BY <1>1, <1>3, Multiples
<1>4. p # q
  BY <1>1
<1> QED BY <1>1, <1>2, <1>3, <1>4

\* The next number.
LEMMA OneMore ==
    ASSUME NEW a \in Int, NEW t \in Int, t > 0
    PROVE  /\ (a + 1) \div t = IF a % t = t - 1 THEN a \div t + 1 ELSE a \div t
           /\ (a + 1) % t = IF a % t = t - 1 THEN 0 ELSE (a % t) + 1
<1>1. a \div t \in Int /\ a % t \in 0 .. t - 1 /\ a = t * (a \div t) + (a % t)
  BY Division
<1>2. CASE a % t = t - 1
  <2>1. a + 1 = t * (a \div t + 1) + 0
    BY <1>1, <1>2
  <2>2. a \div t + 1 \in Int /\ 0 \in 0 .. t - 1 /\ a + 1 \in Int
    BY <1>1
  <2> QED BY <1>2, <2>1, <2>2, Quotient
<1>3. CASE a % t # t - 1
  <2>1. a + 1 = t * (a \div t) + ((a % t) + 1)
    BY <1>1
  <2>2. (a % t) + 1 \in 0 .. t - 1 /\ a + 1 \in Int
    BY <1>1, <1>3
  <2> QED BY <1>1, <1>3, <2>1, <2>2, Quotient
<1> QED BY <1>2, <1>3

-----------------------------------------------------------------------------
(* Stations *)

LEMMA UpdatedFunction ==
    ASSUME NEW S, NEW T, NEW f \in [S -> T], NEW x, NEW y \in T
    PROVE  [f EXCEPT ![x] = y] \in [S -> T]
OBVIOUS

\* What a message puts into the replay cache was seen from then on.
LEMMA NotedGood ==
    ASSUME NEW s, GoodStation(s), NEW msg \in Msg
    PROVE  /\ GoodStation(Fragments!AddToReplayCache(s, msg))
           /\ Fragments!AddToReplayCache(s, msg).queue = s.queue
           /\ Fragments!AddToReplayCache(s, msg).offset = s.offset
<1> DEFINE t == Fragments!AddToReplayCache(s, msg)
           e == [source |-> msg.source, tag |-> msg.tag, age |-> 0]
           x == [id |-> msg.id, source |-> msg.source, tag |-> msg.tag]
<1>1. PICK place : t = [s EXCEPT !.cache[place] = e, !.seen = @ \cup {x}]
  BY DEF Fragments!AddToReplayCache
<1>2. e \in CacheEntry /\ e.source = x.source /\ e.tag = x.tag
  <2>1. CacheAge \in Nat => 0 \in 0 .. CacheAge
    OBVIOUS
  <2> QED BY <2>1, FragmentsAssumed DEF Msg, CacheEntry, FragmentsAssumption
<1>3. s \in Station
  BY DEF GoodStation
<1>4. /\ t.queue = s.queue /\ t.offset = s.offset /\ t.streams = s.streams /\ t.tag = s.tag
      /\ t.cache = [s.cache EXCEPT ![place] = e] /\ t.starts = s.starts /\ t.number = s.number
      /\ t.seen = s.seen \cup {x}
      /\ t = [queue |-> s.queue, offset |-> s.offset, streams |-> s.streams, tag |-> s.tag,
              cache |-> t.cache, starts |-> s.starts, number |-> s.number, seen |-> t.seen]
  BY <1>1, <1>3 DEF Station
<1>5. x \in SeenEntry
  BY DEF Msg, SeenEntry, Labeled
<1> HIDE DEF t, e, x
<1>6. t.cache \in [1 .. CacheSlots -> CacheEntry]
  BY <1>2, <1>3, <1>4, UpdatedFunction DEF Station
<1>7. t.seen \in SUBSET SeenEntry
  BY <1>3, <1>4, <1>5 DEF Station
<1>8. t \in Station
  BY <1>3, <1>4, <1>6, <1>7 DEF Station
<1>9. \A i \in 1 .. CacheSlots : WasSeen(t, t.cache[i])
  <2> TAKE i \in 1 .. CacheSlots
  <2>1. t.cache[i] = s.cache[i] \/ t.cache[i] = e
    BY <1>3, <1>4 DEF Station
  <2>2. CASE t.cache[i] = s.cache[i]
    <3>1. WasSeen(s, s.cache[i])
      BY DEF GoodStation
    <3> QED BY <1>4, <2>2, <3>1 DEF WasSeen
  <2>3. CASE t.cache[i] = e
    BY <1>2, <1>4, <2>3 DEF WasSeen
  <2> QED BY <2>1, <2>2, <2>3
<1>10. GoodStation(t)
  BY <1>4, <1>8, <1>9 DEF GoodStation
<1> QED BY <1>4, <1>10 DEF t

\* Other changes of a station: its queue, its position in it, and its streams.
LEMMA StationWith ==
    ASSUME NEW s, GoodStation(s), NEW t, t \in Station,
           t.cache = s.cache, t.seen = s.seen, t.tag = s.tag, t.number = s.number,
           \A i \in DOMAIN t.streams : InPart(t.streams[i])
    PROVE  GoodStation(t)
BY DEF GoodStation, WasSeen

LEMMA QueueChanges ==
    ASSUME NEW s, GoodStation(s), NEW q \in Seq(Msg), NEW o \in 0 .. Fragmented - 1
    PROVE  GoodStation([s EXCEPT !.queue = q, !.offset = o])
<1> DEFINE t == [s EXCEPT !.queue = q, !.offset = o]
<1>1. /\ t \in Station /\ t.cache = s.cache /\ t.seen = s.seen /\ t.streams = s.streams
      /\ t.tag = s.tag /\ t.number = s.number
  BY DEF GoodStation, Station
<1> HIDE DEF t
<1>2. GoodStation(t)
  BY <1>1, StationWith DEF GoodStation
<1> QED BY <1>2 DEF t

LEMMA StreamsChange ==
    ASSUME NEW s, GoodStation(s), NEW r \in Seq(Stream), \A i \in DOMAIN r : InPart(r[i])
    PROVE  GoodStation([s EXCEPT !.streams = r])
<1> DEFINE t == [s EXCEPT !.streams = r]
<1>1. /\ t \in Station /\ t.cache = s.cache /\ t.seen = s.seen /\ t.streams = r
      /\ t.tag = s.tag /\ t.number = s.number
  BY DEF GoodStation, Station
<1> HIDE DEF t
<1>2. GoodStation(t)
  BY <1>1, StationWith
<1> QED BY <1>2 DEF t

LEMMA Fields ==
    ASSUME NEW s, GoodStation(s)
    PROVE  /\ s.queue \in Seq(Msg) /\ s.offset \in 0 .. Fragmented - 1 /\ s.tag \in Nat
           /\ s.streams \in Seq(Stream) /\ s.cache \in [1 .. CacheSlots -> CacheEntry]
BY DEF GoodStation, Station

\* One member less.
LEMMA RemoveAtIs ==
    ASSUME NEW S, NEW q \in Seq(S), NEW i \in DOMAIN q
    PROVE  /\ Fragments!RemoveAt(q, i) \in Seq(S)
           /\ \A k \in DOMAIN Fragments!RemoveAt(q, i) :
                 \E l \in DOMAIN q : Fragments!RemoveAt(q, i)[k] = q[l]
<1> DEFINE a == SubSeq(q, 1, i - 1)
           b == SubSeq(q, i + 1, Len(q))
<1>1. Len(q) \in Nat /\ i \in 1 .. Len(q) /\ \A k \in 1 .. Len(q) : q[k] \in S
  OBVIOUS
<1>2. /\ a \in Seq(S) /\ Len(a) = i - 1 /\ \A k \in 1 .. i - 1 : a[k] = q[k]
  <2>1. \A k \in 1 .. i - 1 : q[k] \in S
    BY <1>1
  <2>2. i - 1 \in Int /\ (1 <= i - 1 \/ i - 1 = 0) /\ (i - 1) - 1 + 1 = i - 1
    BY <1>1
  <2>3. a \in Seq(S) /\ Len(a) = i - 1 /\ \A k \in 1 .. i - 1 : a[k] = q[1 + k - 1]
    BY <2>1, <2>2, SubSeqProperties
  <2>4. \A k \in 1 .. i - 1 : 1 + k - 1 = k
    OBVIOUS
  <2> HIDE DEF a
  <2> QED BY <2>3, <2>4
<1>3. /\ b \in Seq(S) /\ Len(b) = Len(q) - i /\ \A k \in 1 .. Len(q) - i : b[k] = q[i + k]
  <2>1. \A k \in i + 1 .. Len(q) : q[k] \in S
    BY <1>1
  <2>2. i + 1 \in Int /\ Len(q) \in Int /\ Len(q) - (i + 1) + 1 = Len(q) - i
        /\ (i + 1 <= Len(q) \/ Len(q) - i = 0)
    BY <1>1
  <2>3. b \in Seq(S) /\ Len(b) = Len(q) - i
        /\ \A k \in 1 .. Len(q) - i : b[k] = q[(i + 1) + k - 1]
    BY <2>1, <2>2, SubSeqProperties
  <2>4. \A k \in 1 .. Len(q) - i : (i + 1) + k - 1 = i + k
    BY <1>1
  <2> HIDE DEF b
  <2> QED BY <2>3, <2>4
<1> HIDE DEF a, b
<1>4. /\ a \o b \in Seq(S) /\ Len(a \o b) = Len(a) + Len(b)
      /\ \A k \in 1 .. Len(a) + Len(b) : (a \o b)[k] = IF k <= Len(a) THEN a[k] ELSE b[k - Len(a)]
  BY <1>2, <1>3, ConcatProperties
<1>5. ASSUME NEW k \in DOMAIN (a \o b)
      PROVE  \E l \in DOMAIN q : (a \o b)[k] = q[l]
  <2>1. k \in 1 .. Len(a) + Len(b)
    BY <1>4
  <2>2. CASE k <= Len(a)
    <3>1. k \in 1 .. i - 1 /\ k \in DOMAIN q
      BY <1>1, <1>2, <2>1, <2>2
    <3> QED BY <1>2, <1>4, <2>1, <2>2, <3>1
  <2>3. CASE ~(k <= Len(a))
    <3>1. k - Len(a) \in 1 .. Len(q) - i /\ i + (k - Len(a)) \in DOMAIN q
      BY <1>1, <1>2, <1>3, <2>1, <2>3
    <3>2. (a \o b)[k] = q[i + (k - Len(a))]
      BY <1>3, <1>4, <2>1, <2>3, <3>1
    <3> QED BY <3>1, <3>2
  <2> QED BY <2>2, <2>3
<1>6. Fragments!RemoveAt(q, i) = a \o b
  BY DEF Fragments!RemoveAt, a, b
<1> QED BY <1>4, <1>5, <1>6

-----------------------------------------------------------------------------
(* Receiving *)

LEMMA AppendedIs ==
    ASSUME NEW s, GoodStation(s), NEW from \in Stations, NEW msg \in Msg, NEW offset
    PROVE  LET content == Fragments!Appended(s, from, msg, offset) IN
           /\ content \in Seq(Msg)
           /\ content # <<>> => content[1] \in Msg /\ Len(content) \in Nat \ {0}
<1> DEFINE content == Fragments!Appended(s, from, msg, offset)
           known == Fragments!StreamOf(s, from, msg.tag)
           begun == IF known = {} THEN <<>> ELSE s.streams[CHOOSE i \in known : TRUE].content
<1>1. begun \in Seq(Msg)
  <2>1. CASE known = {}
    BY <2>1
  <2>2. CASE known # {}
    <3>1. (CHOOSE i \in known : TRUE) \in DOMAIN s.streams
      BY <2>2 DEF Fragments!StreamOf
    <3>2. \A i \in DOMAIN s.streams : s.streams[i].content \in Seq(Msg)
      <4> TAKE i \in DOMAIN s.streams
      <4>1. s.streams[i] \in Stream
        BY Fields
      <4> QED BY <4>1 DEF Stream
    <3> QED BY <2>2, <3>1, <3>2
  <2> QED BY <2>1, <2>2
<1>2. content = IF offset = Len(begun) THEN Append(begun, msg) ELSE <<>>
  BY DEF Fragments!Appended
<1> HIDE DEF begun, content
<1>3. content \in Seq(Msg)
  BY <1>1, <1>2
<1>4. ASSUME content # <<>> PROVE content[1] \in Msg /\ Len(content) \in Nat \ {0}
  BY <1>3, <1>4
<1> QED BY <1>3, <1>4 DEF content

LEMMA AcceptedGood ==
    ASSUME NEW s, GoodStation(s), NEW msg \in Msg
    PROVE  GoodStation(Fragments!Accepted(s, msg))
<1>1. CASE msg.dest = Fragments!All /\ Fragments!Aged(msg) > 0
  <2> DEFINE next == [msg EXCEPT !.ttl = Fragments!Aged(msg)]
             q == Append(s.queue, next)
  <2>1. Fragments!Aged(msg) \in Nat \ {0}
    BY <1>1 DEF Fragments!Aged, Msg
  <2>2. next \in Msg
    BY <2>1 DEF Msg, Labeled
  <2> HIDE DEF next
  <2>3. q \in Seq(Msg) /\ s.offset \in 0 .. Fragmented - 1 /\ s.tag \in Nat /\ s \in Station
    BY <2>2, Fields DEF GoodStation
  <2>4. Fragments!Accepted(s, msg) = [s EXCEPT !.queue = q, !.offset = s.offset]
    <3>1. Fragments!Accepted(s, msg) = [s EXCEPT !.queue = q]
      BY <1>1 DEF Fragments!Accepted, next
    <3> HIDE DEF q
    <3>2. [s EXCEPT !.queue = q] = [s EXCEPT !.queue = q, !.offset = s.offset]
      BY <2>3 DEF Station
    <3> QED BY <3>1, <3>2
  <2> HIDE DEF q
  <2>5. GoodStation([s EXCEPT !.queue = q, !.offset = s.offset])
    BY <2>3, QueueChanges
  <2> QED BY <2>4, <2>5
<1>2. CASE ~(msg.dest = Fragments!All /\ Fragments!Aged(msg) > 0)
  BY <1>2 DEF Fragments!Accepted
<1> QED BY <1>1, <1>2

LEMMA ProcessedGood ==
    ASSUME NEW s, GoodStation(s), NEW from \in Stations, NEW msg \in Msg, NEW offset
    PROVE  GoodStation(Fragments!Processed(s, from, msg, offset))
<1> DEFINE content == Fragments!Appended(s, from, msg, offset)
           known == Fragments!StreamOf(s, from, msg.tag)
           chosen == CHOOSE i \in known : TRUE
           first == content[1]
           rest == IF known = {} THEN s.streams ELSE Fragments!RemoveAt(s.streams, chosen)
           without == [s EXCEPT !.streams = rest]
           marked == Fragments!AddToReplayCache(without, first)
           stream == [from |-> from, tag |-> msg.tag, age |-> 0, content |-> content]
<1>1. content \in Seq(Msg) /\ (content # <<>> => first \in Msg /\ Len(content) \in Nat \ {0})
  BY AppendedIs
<1>2. Fragments!Processed(s, from, msg, offset)
        = CASE content = <<>> -> s
            [] content # <<>> /\ Fragments!Outcome(s, content) = "fragment" ->
                  IF known = {} THEN [s EXCEPT !.streams = <<stream>> \o @]
                  ELSE [s EXCEPT !.streams[chosen].content = content]
            [] content # <<>> /\ Fragments!Outcome(s, content) \in {"known", "forged"} -> marked
            [] content # <<>> /\ Fragments!Outcome(s, content) = "handed" -> Fragments!Accepted(marked,
             first)
  BY DEF Fragments!Processed
<1>3. known # {} => chosen \in DOMAIN s.streams
  BY DEF Fragments!StreamOf
<1>4. /\ s.streams \in Seq(Stream) /\ \A i \in DOMAIN s.streams : InPart(s.streams[i])
      /\ s \in Station
  BY Fields DEF GoodStation
<1> HIDE DEF content, known, chosen
<1>5. CASE content = <<>>
  BY <1>2, <1>5
<1>6. CASE content # <<>> /\ Len(content) < Fragmented /\ Fragments!Outcome(s, content) = "fragment"
  <2>1. Len(content) \in 1 .. Fragmented - 1
    BY <1>1, <1>6, FragmentsAssumed DEF FragmentsAssumption
  <2>2. 0 \in 0 .. StreamAge /\ msg.tag \in Nat
    BY FragmentsAssumed DEF FragmentsAssumption, Msg
  <2>3. CASE known = {}
    <3>1. stream \in Stream /\ InPart(stream)
      BY <1>1, <2>1, <2>2 DEF Stream, InPart
    <3> DEFINE more == <<stream>> \o s.streams
    <3> HIDE DEF stream
    <3>2. <<stream>> \in Seq(Stream) /\ Len(<<stream>>) = 1 /\ <<stream>>[1] = stream
      BY <3>1
    <3>3. /\ more \in Seq(Stream) /\ Len(more) = 1 + Len(s.streams) /\ Len(s.streams) \in Nat
          /\ \A i \in 1 .. 1 + Len(s.streams) :
                more[i] = IF i <= 1 THEN <<stream>>[i] ELSE s.streams[i - 1]
      BY <1>4, <3>2, ConcatProperties
    <3> HIDE DEF more
    <3>4. ASSUME NEW i \in DOMAIN more PROVE InPart(more[i])
      <4>1. i \in 1 .. 1 + Len(s.streams)
        BY <3>3
      <4>2. CASE i = 1
        BY <3>1, <3>2, <3>3, <4>1, <4>2
      <4>3. CASE i # 1
        <5>1. i - 1 \in DOMAIN s.streams /\ more[i] = s.streams[i - 1]
          BY <1>4, <3>3, <4>1, <4>3
        <5> QED BY <1>4, <5>1
      <4> QED BY <4>2, <4>3
    <3>5. GoodStation([s EXCEPT !.streams = more])
      BY <3>3, <3>4, StreamsChange
    <3>6. Fragments!Processed(s, from, msg, offset) = [s EXCEPT !.streams = more]
      BY <1>2, <1>6, <2>3 DEF more
    <3> QED BY <3>5, <3>6
  <2>4. CASE known # {}
    <3> DEFINE r == [s.streams EXCEPT ![chosen] = [@ EXCEPT !.content = content]]
               x == [s.streams[chosen] EXCEPT !.content = content]
    <3>1. s.streams[chosen] \in Stream
      BY <1>3, <1>4, <2>4
    <3>2. x \in Stream /\ x.content = content
      BY <1>1, <3>1 DEF Stream
    <3>3. r \in Seq(Stream) /\ DOMAIN r = DOMAIN s.streams
          /\ \A i \in DOMAIN r : r[i] = IF i = chosen THEN x ELSE s.streams[i]
      <4> HIDE DEF x
      <4>1. r = [s.streams EXCEPT ![chosen] = x]
        BY DEF x
      <4> HIDE DEF r
      <4> QED BY <1>3, <1>4, <2>4, <3>2, <4>1
    <3> HIDE DEF r, x
    <3>4. \A i \in DOMAIN r : InPart(r[i])
      BY <1>4, <2>1, <3>2, <3>3 DEF InPart
    <3>5. GoodStation([s EXCEPT !.streams = r])
      BY <3>3, <3>4, StreamsChange
    <3>6. Fragments!Processed(s, from, msg, offset) = [s EXCEPT !.streams = r]
      BY <1>2, <1>6, <2>4 DEF r
    <3> QED BY <3>5, <3>6
  <2> QED BY <2>3, <2>4
<1>7. CASE content # <<>> /\ Fragments!Outcome(s, content) \in {"known", "forged", "handed"}
  <2>1. rest \in Seq(Stream) /\ \A i \in DOMAIN rest : InPart(rest[i])
    <3>1. CASE known = {}
      BY <1>4, <3>1
    <3>2. CASE known # {}
      <4> DEFINE r == Fragments!RemoveAt(s.streams, chosen)
      <4>1. r \in Seq(Stream) /\ \A k \in DOMAIN r : \E l \in DOMAIN s.streams : r[k] = s.streams[l]
        BY <1>3, <1>4, <3>2, RemoveAtIs
      <4> HIDE DEF r
      <4>2. \A k \in DOMAIN r : InPart(r[k])
        BY <1>4, <4>1
      <4> QED BY <3>2, <4>1, <4>2 DEF r
    <3> QED BY <3>1, <3>2
  <2> HIDE DEF rest
  <2>2. GoodStation(without)
    BY <2>1, StreamsChange
  <2> HIDE DEF without
  <2>3. first \in Msg
    BY <1>1, <1>7
  <2> HIDE DEF first
  <2>4. GoodStation(marked)
    BY <2>2, <2>3, NotedGood
  <2> HIDE DEF marked
  <2>5. GoodStation(Fragments!Accepted(marked, first))
    BY <2>3, <2>4, AcceptedGood
  <2>6. Fragments!Processed(s, from, msg, offset) \in {marked, Fragments!Accepted(marked, first)}
    <3>1. CASE Fragments!Outcome(s, content) \in {"known", "forged"}
      BY <1>2, <1>7, <3>1
    <3>2. CASE Fragments!Outcome(s, content) = "handed"
      BY <1>2, <1>7, <3>2
    <3> QED BY <1>7, <3>1, <3>2
  <2> QED BY <2>4, <2>5, <2>6
<1>8. /\ Fragments!Outcome(s, content) \in {"fragment", "known", "forged", "handed"}
      /\ Fragments!Outcome(s, content) = "fragment" => Len(content) < Fragmented
  BY DEF Fragments!Outcome
<1> QED BY <1>5, <1>6, <1>7, <1>8

-----------------------------------------------------------------------------
(* The steps *)

LEMMA AfterFragmentGood ==
    ASSUME NEW s, GoodStation(s), s.queue # <<>>
    PROVE  GoodStation(Fragments!AfterFragment(s, Head(s.queue)))
<1> DEFINE msg == Head(s.queue)
           marked == IF s.offset = 0 THEN Fragments!AddToReplayCache(s, msg) ELSE s
<1>1. s.queue \in Seq(Msg) /\ msg \in Msg /\ Tail(s.queue) \in Seq(Msg)
  BY Fields
<1> HIDE DEF msg
<1>2. GoodStation(marked) /\ marked.queue = s.queue /\ marked.offset = s.offset
  BY <1>1, NotedGood
<1> HIDE DEF marked
<1>3. /\ marked \in Station /\ marked.tag \in Nat /\ s.offset \in 0 .. Fragmented - 1
      /\ marked.queue \in Seq(Msg)
  BY <1>2, Fields DEF GoodStation
<1>4. CASE s.offset + 1 < Fragmented
  <2>1. Fragments!AfterFragment(s, msg) = [marked EXCEPT !.offset = marked.offset + 1]
    BY <1>4 DEF Fragments!AfterFragment, marked
  <2>2. [marked EXCEPT !.offset = marked.offset + 1]
          = [marked EXCEPT !.queue = marked.queue, !.offset = marked.offset + 1]
    BY <1>3 DEF Station
  <2>3. marked.offset + 1 \in 0 .. Fragmented - 1
    BY <1>2, <1>3, <1>4, FragmentsAssumed DEF FragmentsAssumption
  <2>4. GoodStation([marked EXCEPT !.queue = marked.queue, !.offset = marked.offset + 1])
    BY <1>2, <1>3, <2>3, QueueChanges
  <2> QED BY <2>1, <2>2, <2>4 DEF msg
<1>5. CASE ~(s.offset + 1 < Fragmented)
  <2>1. Fragments!AfterFragment(s, msg) = [marked EXCEPT !.offset = 0, !.queue = Tail(marked.queue)]
    BY <1>5 DEF Fragments!AfterFragment, marked
  <2>2. [marked EXCEPT !.offset = 0, !.queue = Tail(marked.queue)]
          = [marked EXCEPT !.queue = Tail(marked.queue), !.offset = 0]
    BY <1>3 DEF Station
  <2>3. 0 \in 0 .. Fragmented - 1 /\ Tail(marked.queue) \in Seq(Msg)
    BY <1>1, <1>2, FragmentsAssumed DEF FragmentsAssumption
  <2>4. GoodStation([marked EXCEPT !.queue = Tail(marked.queue), !.offset = 0])
    BY <1>2, <1>3, <2>3, QueueChanges
  <2> QED BY <2>1, <2>2, <2>4 DEF msg
<1> QED BY <1>4, <1>5

\* Two messages of a node with the same tag.
LEMMA TagsComeRound ==
    ASSUME NEW e \in SeenEntry, NEW f \in Msg, e.id # f.id,
           e.source = f.source, e.tag = f.tag, f.source # Fragments!Zero
    PROVE  Fragments!CameRound(e.id, f.id)
<1>1. /\ e.id \in Id /\ f.id \in Id
      /\ Address[e.id.from] = f.source /\ Address[f.id.from] = f.source
      /\ e.id.number % TagSpace = f.id.number % TagSpace
  BY DEF SeenEntry, Msg, Labeled
<1>2. e.id.from = f.id.from
  BY <1>1, FragmentsAssumed DEF FragmentsAssumption, Id
<1>3. CASE e.id.starts # f.id.starts
  BY <1>2, <1>3 DEF Fragments!CameRound
<1>4. CASE e.id.starts = f.id.starts
  <2> DEFINE a == e.id.number
             b == f.id.number
  <2>1. a # b /\ a \in Nat /\ b \in Nat /\ TagSpace \in Nat \ {0}
    BY <1>1, <1>2, <1>4, FragmentsAssumed DEF Id, FragmentsAssumption
  <2>2. a % TagSpace = b % TagSpace
    BY <1>1
  <2> HIDE DEF a, b
  <2>3. a + TagSpace <= b \/ b + TagSpace <= a
    BY <2>1, <2>2, SameRemainder
  <2> QED BY <1>2, <2>3 DEF Fragments!CameRound, a, b
<1> QED BY <1>3, <1>4

LEMMA FragmentStep ==
    ASSUME FragmentsInv, NEW n \in Stations, station[n].queue # <<>>,
           NEW reached \in SUBSET Fragments!Hearers(n, Head(station[n].queue)), Fragments!Fragment(n,
                                                                    reached)
    PROVE  /\ DOMAIN station' = Stations /\ \A m \in Stations : GoodStation(station'[m])
           /\ Fragments!HandedWhole' /\ Fragments!RefusesOnlySeen'
<1> DEFINE s == station[n]
           msg == Head(s.queue)
           content(m) == Fragments!Appended(station[m], n, msg, s.offset)
           Ends(m, outcome) == content(m) # <<>> /\ Fragments!Outcome(station[m], content(m)) = outcome
<1>1. GoodStation(s) /\ msg \in Msg
  BY Fields DEF FragmentsInv
<1>2. reached \subseteq Stations
  BY DEF Fragments!Hearers
<1>3. station' = [m \in Stations |->
                    IF m = n THEN Fragments!AfterFragment(s, msg)
                    ELSE IF m \in reached THEN Fragments!Processed(station[m], n, msg, s.offset)
                    ELSE station[m]]
  BY DEF Fragments!Fragment
<1>4. handed' = handed \cup {<<m, content(m)>> : m \in {k \in reached : Ends(k, "handed")}}
  BY DEF Fragments!Fragment
<1>5. unseen' = unseen \cup
         {[msg |-> content(m)[1], seen |-> station[m].seen] : m \in {k \in reached :
             Ends(k, "known") /\ \A e \in station[k].seen : e.id # content(k)[1].id}}
  BY DEF Fragments!Fragment
<1>6. GoodStation(Fragments!AfterFragment(s, msg))
  BY <1>1, AfterFragmentGood
<1> HIDE DEF msg
<1>7. \A m \in Stations : GoodStation(station[m])
  BY DEF FragmentsInv
<1>8. \A m \in Stations : GoodStation(Fragments!Processed(station[m], n, msg, s.offset))
  BY <1>1, <1>7, ProcessedGood
<1>9. DOMAIN station' = Stations /\ \A m \in Stations : GoodStation(station'[m])
  <2> HIDE DEF s
  <2> QED BY <1>3, <1>6, <1>7, <1>8
<1>10. Fragments!HandedWhole'
  <2>1. ASSUME NEW m \in reached, Ends(m, "handed")
        PROVE  \A i \in DOMAIN content(m) : content(m)[i].id = content(m)[1].id
    <3> HIDE DEF content
    <3>1. Fragments!Outcome(station[m], content(m)) = "handed"
      BY <2>1
    <3>2. Fragments!Verified(content(m))
      BY <3>1 DEF Fragments!Outcome
    <3> QED BY <3>2 DEF Fragments!Verified
  <2> HIDE DEF content, Ends
  <2>2. ASSUME NEW h \in handed'
        PROVE  \A i \in DOMAIN h[2] : h[2][i].id = h[2][1].id
    <3>1. CASE h \in handed
      BY <3>1 DEF FragmentsInv, Fragments!HandedWhole
    <3>2. CASE h \notin handed
      <4>1. PICK m \in reached : Ends(m, "handed") /\ h = <<m, content(m)>>
        BY <1>4, <3>2
      <4>2. h[2] = content(m)
        BY <4>1
      <4> QED BY <2>1, <4>1, <4>2
    <3> QED BY <3>1, <3>2
  <2> QED BY <2>2 DEF Fragments!HandedWhole
<1>11. Fragments!RefusesOnlySeen'
  <2>1. ASSUME NEW m \in reached, Ends(m, "known"), content(m)[1].source # Fragments!Zero,
               \A e \in station[m].seen : e.id # content(m)[1].id
        PROVE  \E e \in station[m].seen :
                  Fragments!CameRound(e.id, content(m)[1].id) /\ e.tag = content(m)[1].tag
    <3> DEFINE f == content(m)[1]
    <3>1. Fragments!Outcome(station[m], content(m)) = "known" /\ GoodStation(station[m])
      BY <1>2, <1>7, <2>1
    <3>2. f \in Msg
      <4> HIDE DEF s
      <4> QED BY <1>1, <2>1, <3>1, AppendedIs
    <3>3. Fragments!InReplayCache(station[m], f.source, f.tag)
      <4> HIDE DEF content
      <4> QED BY <3>1 DEF Fragments!Outcome
    <3> HIDE DEF content
    <3>4. PICK i \in 1 .. CacheSlots :
             station[m].cache[i].source = f.source /\ station[m].cache[i].tag = f.tag
      BY <3>3 DEF Fragments!InReplayCache
    <3>5. PICK e \in station[m].seen : e.source = f.source /\ e.tag = f.tag
      <4>1. WasSeen(station[m], station[m].cache[i])
        BY <3>1 DEF GoodStation
      <4> QED BY <2>1, <3>4, <4>1 DEF WasSeen
    <3>6. e \in SeenEntry /\ e.id # f.id
      BY <2>1, <3>1, <3>5 DEF GoodStation, Station
    <3> HIDE DEF f
    <3>7. Fragments!CameRound(e.id, f.id)
      BY <2>1, <3>2, <3>5, <3>6, TagsComeRound DEF f
    <3> QED BY <3>5, <3>7 DEF f
  <2> HIDE DEF content, Ends
  <2>2. ASSUME NEW u \in unseen', u.msg.source # Fragments!Zero
        PROVE  \E e \in u.seen : Fragments!CameRound(e.id, u.msg.id) /\ e.tag = u.msg.tag
    <3>1. CASE u \in unseen
      BY <2>2, <3>1 DEF FragmentsInv, Fragments!RefusesOnlySeen
    <3>2. CASE u \notin unseen
      <4>1. PICK m \in reached : /\ Ends(m, "known")
                                 /\ u = [msg |-> content(m)[1], seen |-> station[m].seen]
                                 /\ \A e \in station[m].seen : e.id # content(m)[1].id
        BY <1>5, <3>2
      <4>2. u.msg = content(m)[1] /\ u.seen = station[m].seen
        BY <4>1
      <4> QED BY <2>1, <2>2, <4>1, <4>2
    <3> QED BY <3>1, <3>2
  <2> QED BY <2>2 DEF Fragments!RefusesOnlySeen
<1> QED BY <1>9, <1>10, <1>11

-----------------------------------------------------------------------------
\* A set of numbers that is not empty has a least one.
LEMMA LeastMember ==
    ASSUME NEW S \in SUBSET Nat, S # {}
    PROVE  \E x \in S : \A y \in S : x <= y
<1>1. PICK x \in S : \A y \in S : ~(<<y, x>> \in OpToRel(<, Nat))
  BY NatLessThanWellFounded, WFMin
<1>2. ASSUME NEW y \in S PROVE ~(y < x)
  BY <1>1, Zenon DEF OpToRel
<1> QED
  BY <1>2

LEMMA OlderGood ==
    ASSUME NEW s, GoodStation(s)
    PROVE  GoodStation(Fragments!Older(s))
<1> DEFINE aging == {i \in DOMAIN s.streams : s.streams[i].age + 1 > StreamAge}
           first == IF aging = {} THEN Len(s.streams) + 1
                    ELSE CHOOSE i \in aging : \A k \in aging : i <= k
           x(i) == [s.streams[i] EXCEPT !.age = s.streams[i].age + 1]
           aged == [i \in DOMAIN s.streams |-> IF i < first THEN x(i) ELSE s.streams[i]]
           r == IF aging = {} THEN aged ELSE Fragments!RemoveAt(aged, first)
           Cell(e) == IF e.age >= CacheAge THEN e
                      ELSE [e EXCEPT !.age = e.age + 1,
                                     !.source = IF e.age + 1 = CacheAge THEN Fragments!Zero ELSE e.source]
           c == [i \in 1 .. CacheSlots |-> Cell(s.cache[i])]
           t == [s EXCEPT !.streams = r, !.cache = c]
<1>1. Fragments!Older(s) = t
  BY DEF Fragments!Older
<1>2. /\ s.streams \in Seq(Stream) /\ \A i \in DOMAIN s.streams : InPart(s.streams[i])
      /\ s \in Station /\ s.cache \in [1 .. CacheSlots -> CacheEntry]
      /\ DOMAIN s.streams = 1 .. Len(s.streams) /\ Len(s.streams) \in Nat
  BY Fields DEF GoodStation
<1>3. /\ \A i \in DOMAIN s.streams : i < first => i \notin aging
      /\ aging # {} => first \in DOMAIN s.streams
  <2>1. CASE aging = {}
    BY <2>1
  <2>2. CASE aging # {}
    <3>1. aging \in SUBSET Nat
      BY <1>2
    <3>2. \E i \in aging : \A k \in aging : i <= k
      <4> HIDE DEF aging
      <4> QED BY <2>2, <3>1, LeastMember
    <3>3. first \in aging /\ \A k \in aging : first <= k
      <4> HIDE DEF aging
      <4> QED BY <2>2, <3>2
    <3> HIDE DEF first
    <3> QED BY <1>2, <3>3
  <2> QED BY <2>1, <2>2
<1>4. ASSUME NEW i \in DOMAIN s.streams
      PROVE  aged[i] \in Stream /\ InPart(aged[i])
  <2>1. s.streams[i] \in Stream /\ InPart(s.streams[i])
    BY <1>2
  <2>2. CASE i < first
    <3>1. s.streams[i].age + 1 \in 0 .. StreamAge
      <4>1. s.streams[i].age \in 0 .. StreamAge /\ ~(s.streams[i].age + 1 > StreamAge)
        <5> HIDE DEF first
        <5> QED BY <1>3, <2>1, <2>2 DEF Stream
      <4> QED BY <4>1, FragmentsAssumed DEF FragmentsAssumption
    <3>2. x(i) \in Stream /\ x(i).content = s.streams[i].content
      BY <2>1, <3>1 DEF Stream
    <3>3. aged[i] = x(i)
      <4> HIDE DEF first, x
      <4> QED BY <2>2
    <3> HIDE DEF x, aged
    <3> QED BY <2>1, <3>2, <3>3 DEF InPart
  <2>3. CASE ~(i < first)
    <3>1. aged[i] = s.streams[i]
      <4> HIDE DEF first, x
      <4> QED BY <2>3
    <3> QED BY <2>1, <3>1
  <2> QED BY <2>2, <2>3
<1>5. aged \in Seq(Stream) /\ DOMAIN aged = DOMAIN s.streams
  <2>1. aged \in [1 .. Len(s.streams) -> Stream]
    <3>1. DOMAIN aged = DOMAIN s.streams /\ aged = [i \in DOMAIN aged |-> aged[i]]
      <4> HIDE DEF first, x
      <4> QED OBVIOUS
    <3> HIDE DEF aged
    <3> QED BY <1>2, <1>4, <3>1
  <2> HIDE DEF aged
  <2> QED BY <1>2, <2>1
<1> HIDE DEF aged
<1>6. r \in Seq(Stream) /\ \A i \in DOMAIN r : InPart(r[i])
  <2>1. CASE aging = {}
    BY <1>4, <1>5, <2>1
  <2>2. CASE aging # {}
    <3> DEFINE a == Fragments!RemoveAt(aged, first)
    <3>1. a \in Seq(Stream) /\ \A k \in DOMAIN a : \E l \in DOMAIN aged : a[k] = aged[l]
      <4>1. first \in DOMAIN aged
        BY <1>3, <1>5, <2>2
      <4> HIDE DEF first, aging
      <4> QED BY <1>5, <4>1, RemoveAtIs
    <3>2. r = a
      <4> HIDE DEF first, aging
      <4> QED BY <2>2
    <3> HIDE DEF a, r, first, aging
    <3>3. \A k \in DOMAIN a : InPart(a[k])
      BY <1>4, <1>5, <3>1
    <3> QED BY <3>1, <3>2, <3>3
  <2> QED BY <2>1, <2>2
<1> HIDE DEF r, first, aging
<1>7. ASSUME NEW e \in CacheEntry
      PROVE  Cell(e) \in CacheEntry /\ (Cell(e).source = Fragments!Zero \/ Cell(e).source = e.source)
             /\ Cell(e).tag = e.tag
  <2>1. e.age \in 0 .. CacheAge
    BY DEF CacheEntry
  <2>2. CASE e.age >= CacheAge
    BY <2>2
  <2>3. CASE ~(e.age >= CacheAge)
    <3> DEFINE a == e.age + 1
               o == IF e.age + 1 = CacheAge THEN Fragments!Zero ELSE e.source
    <3>1. a \in 0 .. CacheAge
      BY <2>1, <2>3, FragmentsAssumed DEF FragmentsAssumption
    <3>2. o \in {Fragments!Zero, e.source} /\ o \in {Address[n] : n \in Stations} \cup {Fragments!Zero}
      BY DEF CacheEntry
    <3>3. Cell(e) = [e EXCEPT !.age = a, !.source = o]
      BY <2>3
    <3> HIDE DEF a, o, Cell
    <3> QED BY <3>1, <3>2, <3>3 DEF CacheEntry
  <2> QED BY <2>2, <2>3
<1> HIDE DEF Cell
<1>8. c \in [1 .. CacheSlots -> CacheEntry]
  BY <1>2, <1>7
<1>9. ASSUME NEW i \in 1 .. CacheSlots
      PROVE  c[i].source = Fragments!Zero \/ \E v \in s.seen : v.source = c[i].source /\ v.tag = c[i].tag
  <2>1. s.cache[i] \in CacheEntry /\ c[i] = Cell(s.cache[i])
    BY <1>2
  <2> DEFINE e == s.cache[i]
             d == c[i]
  <2>2. e.source = Fragments!Zero \/ \E v \in s.seen : v.source = e.source /\ v.tag = e.tag
    BY DEF GoodStation, WasSeen
  <2>3. (d.source = Fragments!Zero \/ d.source = e.source) /\ d.tag = e.tag
    BY <1>7, <2>1
  <2> HIDE DEF d, e
  <2>4. d.source = Fragments!Zero \/ \E v \in s.seen : v.source = d.source /\ v.tag = d.tag
    BY <2>2, <2>3
  <2> QED BY <2>4 DEF d
<1> HIDE DEF c
<1>10. /\ t \in Station /\ t.streams = r /\ t.cache = c /\ t.seen = s.seen
       /\ t.tag = s.tag /\ t.number = s.number
  BY <1>2, <1>6, <1>8 DEF Station
<1> HIDE DEF t
<1>11. GoodStation(t)
  BY <1>6, <1>9, <1>10 DEF GoodStation, WasSeen
<1> QED BY <1>1, <1>11

LEMMA OvertakenGood ==
    ASSUME NEW s, GoodStation(s), NEW n \in Stations, NEW m \in Stations
    PROVE  GoodStation(Fragments!Overtaken(s, n, m))
<1>1. CASE n = m
  <2> DEFINE q == [i \in DOMAIN s.queue |-> [s.queue[i] EXCEPT !.stale = TRUE]]
  <2>1. s.queue \in Seq(Msg) /\ s.offset \in 0 .. Fragmented - 1 /\ s.tag \in Nat /\ s \in Station
    BY Fields DEF GoodStation
  <2>2. \A i \in DOMAIN s.queue : q[i] \in Msg
    <3> TAKE i \in DOMAIN s.queue
    <3>1. s.queue[i] \in Msg
      BY <2>1
    <3> QED BY <3>1 DEF Msg, Labeled
  <2>3. q \in Seq(Msg)
    <3>1. DOMAIN q = DOMAIN s.queue /\ q = [i \in DOMAIN q |-> q[i]]
      OBVIOUS
    <3> HIDE DEF q
    <3>2. q \in [1 .. Len(s.queue) -> Msg] /\ Len(s.queue) \in Nat
      BY <2>1, <2>2, <3>1
    <3> QED BY <3>2
  <2>4. Fragments!Overtaken(s, n, m) = [s EXCEPT !.queue = q]
    BY <1>1 DEF Fragments!Overtaken
  <2> HIDE DEF q
  <2>5. [s EXCEPT !.queue = q] = [s EXCEPT !.queue = q, !.offset = s.offset]
    BY <2>1 DEF Station
  <2>6. GoodStation([s EXCEPT !.queue = q, !.offset = s.offset])
    BY <2>1, <2>3, QueueChanges
  <2> QED BY <2>4, <2>5, <2>6
<1>2. CASE n # m
  <2> DEFINE x(i) == [s.streams[i] EXCEPT !.content[1].stale = TRUE]
             r == [i \in DOMAIN s.streams |-> IF s.streams[i].from = n THEN x(i) ELSE s.streams[i]]
  <2>1. s.streams \in Seq(Stream) /\ \A i \in DOMAIN s.streams : InPart(s.streams[i])
    BY Fields DEF GoodStation
  <2>2. ASSUME NEW i \in DOMAIN s.streams
        PROVE  r[i] \in Stream /\ InPart(r[i])
    <3>1. s.streams[i] \in Stream /\ InPart(s.streams[i])
      BY <2>1
    <3>2. CASE s.streams[i].from = n
      <4> DEFINE o == s.streams[i].content
                 f == [o[1] EXCEPT !.stale = TRUE]
                 w == [o EXCEPT ![1] = f]
      <4>1. o \in Seq(Msg) /\ Len(o) \in 1 .. Fragmented - 1
        BY <3>1 DEF Stream, InPart
      <4>2. 1 \in DOMAIN o /\ o[1] \in Msg
        <5> HIDE DEF o
        <5> QED BY <4>1, FragmentsAssumed DEF FragmentsAssumption
      <4>3. f \in Msg
        <5> HIDE DEF o
        <5> QED BY <4>2 DEF Msg, Labeled
      <4>4. w \in Seq(Msg) /\ Len(w) = Len(o)
        <5> HIDE DEF f, o
        <5> QED BY <4>1, <4>2, <4>3
      <4>5. r[i] = [s.streams[i] EXCEPT !.content = w]
        <5>1. x(i) = [s.streams[i] EXCEPT !.content = w]
          OBVIOUS
        <5> HIDE DEF x, w
        <5> QED BY <3>2, <5>1
      <4> HIDE DEF r, w, o
      <4>6. r[i] \in Stream /\ r[i].content = w
        BY <3>1, <4>4, <4>5 DEF Stream
      <4> QED BY <4>1, <4>4, <4>6 DEF InPart
    <3>3. CASE s.streams[i].from # n
      <4>1. r[i] = s.streams[i]
        <5> HIDE DEF x
        <5> QED BY <3>3
      <4> QED BY <3>1, <4>1
    <3> QED BY <3>2, <3>3
  <2>3. r \in Seq(Stream) /\ DOMAIN r = DOMAIN s.streams
    <3>1. DOMAIN r = DOMAIN s.streams /\ r = [i \in DOMAIN r |-> r[i]]
      <4> HIDE DEF x
      <4> QED OBVIOUS
    <3> HIDE DEF r
    <3>2. r \in [1 .. Len(s.streams) -> Stream] /\ Len(s.streams) \in Nat
      BY <2>1, <2>2, <3>1
    <3> QED BY <3>1, <3>2
  <2>4. Fragments!Overtaken(s, n, m) = [s EXCEPT !.streams = r]
    BY <1>2 DEF Fragments!Overtaken
  <2> HIDE DEF r
  <2>5. GoodStation([s EXCEPT !.streams = r])
    BY <2>2, <2>3, StreamsChange
  <2> QED BY <2>4, <2>5
<1> QED BY <1>1, <1>2

\* A station that queued a message is a station, whatever the sets of its fields.
LEMMA Queued ==
    ASSUME NEW Sq, NEW So, NEW Ss, NEW St, NEW Sc, NEW Sb, NEW Sn, NEW Sr,
           NEW s \in [queue : Sq, offset : So, streams : Ss, tag : St, cache : Sc,
                      starts : Sb, number : Sn, seen : Sr],
           NEW q \in Sq, NEW g \in St, NEW k \in Sn
    PROVE  LET t == [s EXCEPT !.queue = q, !.tag = g, !.number = k]
           IN  /\ t \in [queue : Sq, offset : So, streams : Ss, tag : St, cache : Sc,
                         starts : Sb, number : Sn, seen : Sr]
               /\ t.cache = s.cache /\ t.seen = s.seen /\ t.streams = s.streams
               /\ t.tag = g /\ t.number = k
<1> DEFINE R == [queue : Sq, offset : So, streams : Ss, tag : St, cache : Sc,
                 starts : Sb, number : Sn, seen : Sr]
           u == [s EXCEPT !.queue = q]
           v == [u EXCEPT !.tag = g]
           w == [v EXCEPT !.number = k]
<1>1. w = [s EXCEPT !.queue = q, !.tag = g, !.number = k]
  OBVIOUS
<1>2. u \in R /\ u.cache = s.cache /\ u.seen = s.seen /\ u.streams = s.streams
  OBVIOUS
<1> HIDE DEF u
<1>3. /\ v \in R /\ v.cache = u.cache /\ v.seen = u.seen /\ v.streams = u.streams
      /\ v.tag = g
  BY <1>2
<1> HIDE DEF v
<1>4. /\ w \in R /\ w.cache = v.cache /\ w.seen = v.seen /\ w.streams = v.streams
      /\ w.tag = v.tag /\ w.number = k
  BY <1>3
<1> HIDE DEF w
<1> QED BY <1>1, <1>2, <1>3, <1>4

AfterQueuing(s, q, g, k) == [s EXCEPT !.queue = q, !.tag = g, !.number = k]

SameRest(t, s) == t.cache = s.cache /\ t.seen = s.seen /\ t.streams = s.streams
Counted(t, g, k) == t.tag = g /\ t.number = k

LEMMA QueuedStation ==
    \A s \in Station : \A q \in Seq(Msg), g \in Nat, k \in Nat :
       /\ AfterQueuing(s, q, g, k) \in Station
       /\ SameRest(AfterQueuing(s, q, g, k), s)
       /\ Counted(AfterQueuing(s, q, g, k), g, k)
<1> SUFFICES ASSUME NEW s \in Station, NEW q \in Seq(Msg), NEW g \in Nat, NEW k \in Nat
             PROVE  /\ AfterQueuing(s, q, g, k) \in Station
                    /\ SameRest(AfterQueuing(s, q, g, k), s)
                    /\ Counted(AfterQueuing(s, q, g, k), g, k)
  OBVIOUS
<1> DEFINE t == [s EXCEPT !.queue = q, !.tag = g, !.number = k]
<1>1. s \in [queue : Seq(Msg), offset : 0 .. Fragmented - 1, streams : Seq(Stream), tag : Nat,
             cache : [1 .. CacheSlots -> CacheEntry],
             starts : Nat, number : Nat, seen : SUBSET SeenEntry]
  BY DEF Station
<1>2. /\ t \in [queue : Seq(Msg), offset : 0 .. Fragmented - 1, streams : Seq(Stream), tag : Nat,
                cache : [1 .. CacheSlots -> CacheEntry],
                starts : Nat, number : Nat, seen : SUBSET SeenEntry]
      /\ t.cache = s.cache /\ t.seen = s.seen /\ t.streams = s.streams
      /\ t.tag = g /\ t.number = k
  BY <1>1, Queued, ZenonT(60)
<1>3. t = AfterQueuing(s, q, g, k)
  BY DEF AfterQueuing
<1> HIDE DEF t
<1>4. t \in Station /\ SameRest(t, s) /\ Counted(t, g, k)
  BY <1>2 DEF Station, SameRest, Counted
<1> QED BY <1>3, <1>4, Zenon

\* The same of a station all of whose fields are given.
LEMMA Begun ==
    ASSUME NEW Sq, NEW So, NEW Ss, NEW St, NEW Sc, NEW Sb, NEW Sn, NEW Sr,
           NEW q \in Sq, NEW o \in So, NEW r \in Ss, NEW g \in St, NEW c \in Sc,
           NEW b \in Sb, NEW k \in Sn, NEW e \in Sr
    PROVE  [queue |-> q, offset |-> o, streams |-> r, tag |-> g, cache |-> c,
            starts |-> b, number |-> k, seen |-> e]
             \in [queue : Sq, offset : So, streams : Ss, tag : St, cache : Sc,
                  starts : Sb, number : Sn, seen : Sr]
OBVIOUS

LEMMA SendStep ==
    ASSUME FragmentsInv, NEW p \in DOMAIN Packets, Fragments!SendPacket(p)
    PROVE  FragmentsInv'
<1> DEFINE n == Packets[p].from
           s == station[n]
           id == [from |-> n, starts |-> s.starts, number |-> s.number]
           msg == [id |-> id, source |-> Address[n], tag |-> s.tag, dest |-> Packets[p].dest,
                   ttl |-> FirstTtl, stale |-> FALSE]
           q == Append(s.queue, msg)
           g == (s.tag + 1) % TagSpace
           t == [s EXCEPT !.queue = q, !.tag = g, !.number = s.number + 1]
<1>1. n \in Stations
  BY FragmentsAssumed DEF FragmentsAssumption
<1>2. GoodStation(s)
  BY <1>1 DEF FragmentsInv
<1>3. /\ created' = created \cup {p} /\ station' = [station EXCEPT ![n] = t]
      /\ UNCHANGED <<handed, unseen, mishaps>>
  BY DEF Fragments!SendPacket
<1> HIDE DEF s
<1>4. /\ s.queue \in Seq(Msg) /\ s.offset \in 0 .. Fragmented - 1 /\ s.tag \in Nat /\ s \in Station
      /\ s.starts \in Nat /\ s.number \in Nat
  BY <1>2, Fields DEF GoodStation, Station
<1>4a. s.tag = s.number % TagSpace
  BY <1>2 DEF GoodStation
<1>5. msg \in Msg
  <2>1. id \in Id /\ id.from = n /\ id.number = s.number
    BY <1>1, <1>4 DEF Id
  <2> HIDE DEF id
  <2>2. Labeled(msg)
    BY <1>4a, <2>1 DEF Labeled
  <2> QED BY <1>1, <1>4, <2>1, <2>2, FragmentsAssumed DEF Msg, FragmentsAssumption
<1> HIDE DEF msg, n
<1>6. g \in Nat /\ g = (s.number + 1) % TagSpace
  <2> DEFINE k == s.number
             a == k % TagSpace
  <2>1. k \in Int /\ TagSpace \in Int /\ TagSpace > 0 /\ s.tag = a
    BY <1>4, <1>4a, FragmentsAssumed DEF FragmentsAssumption
  <2>2. g = (a + 1) % TagSpace
    BY <2>1
  <2> HIDE DEF k, g
  <2>3. a \in 0 .. TagSpace - 1 /\ (k + 1) % TagSpace = IF a = TagSpace - 1 THEN 0 ELSE a + 1
    BY <2>1, Division, OneMore
  <2> HIDE DEF a
  <2>4. (a + 1) % TagSpace = IF a = TagSpace - 1 THEN 0 ELSE a + 1
    <3>1. CASE a = TagSpace - 1
      <4>1. a + 1 = TagSpace * 1 + 0 /\ 0 \in 0 .. TagSpace - 1 /\ 1 \in Int
        BY <2>1, <3>1
      <4> QED BY <2>1, <2>3, <3>1, <4>1, Quotient
    <3>2. CASE a # TagSpace - 1
      <4>1. a + 1 = TagSpace * 0 + (a + 1) /\ a + 1 \in 0 .. TagSpace - 1 /\ 0 \in Int
        BY <2>1, <2>3, <3>2
      <4> QED BY <2>1, <2>3, <3>2, <4>1, Quotient
    <3> QED BY <3>1, <3>2
  <2>5. g \in Nat
    BY <2>1, <2>2, <2>3, <2>4
  <2> QED BY <2>2, <2>3, <2>4, <2>5 DEF k
<1>7. q \in Seq(Msg)
  BY <1>4, <1>5
<1> HIDE DEF q, g
<1>8. GoodStation(t)
  <2> DEFINE k == s.number + 1
  <2>1. k \in Nat
    BY <1>4
  <2> HIDE DEF k
  <2>2. t = AfterQueuing(s, q, g, k)
    BY DEF k, AfterQueuing
  <2> HIDE DEF t
  <2>3. t \in Station /\ SameRest(t, s) /\ Counted(t, g, k)
    <3>1. s \in Station /\ g \in Nat
      BY <1>4, <1>6
    <3> QED BY <1>7, <2>1, <2>2, <3>1, QueuedStation, Zenon
  <2>4. /\ t.cache = s.cache /\ t.seen = s.seen /\ t.streams = s.streams
        /\ t.tag = g /\ t.number = k
    BY <2>3 DEF SameRest, Counted
  <2> QED BY <1>2, <1>6, <2>3, <2>4 DEF GoodStation, WasSeen, k
<1> HIDE DEF t
<1>9. DOMAIN station' = Stations /\ \A m \in Stations : GoodStation(station'[m])
  BY <1>1, <1>3, <1>8 DEF FragmentsInv
<1> QED BY <1>3, <1>9 DEF FragmentsInv, Fragments!HandedWhole, Fragments!RefusesOnlySeen

LEMMA StationsKept ==
    ASSUME FragmentsInv, mishaps' \in 0 .. MaxMishaps, UNCHANGED <<created, handed, unseen>>,
           DOMAIN station' = Stations, \A m \in Stations : GoodStation(station'[m])
    PROVE  FragmentsInv'
BY DEF FragmentsInv, Fragments!HandedWhole, Fragments!RefusesOnlySeen

LEMMA TimeoutStep ==
    ASSUME FragmentsInv, NEW n \in Stations, Fragments!TimeoutThread(n)
    PROVE  FragmentsInv'
<1>1. station' = [station EXCEPT ![n] = Fragments!Older(station[n])] /\ UNCHANGED <<created, handed,
                                                                unseen, mishaps>>
  BY DEF Fragments!TimeoutThread
<1>2. \A m \in Stations : GoodStation(station[m])
  BY DEF FragmentsInv
<1>3. GoodStation(Fragments!Older(station[n]))
  BY <1>2, OlderGood
<1>4. DOMAIN station' = Stations /\ \A m \in Stations : GoodStation(station'[m])
  BY <1>1, <1>2, <1>3 DEF FragmentsInv
<1> QED BY <1>1, <1>4, StationsKept DEF FragmentsInv

LEMMA StartedGood ==
    ASSUME NEW starts \in Nat
    PROVE  GoodStation(Fragments!Started(starts))
<1> DEFINE e == [source |-> Fragments!Zero, tag |-> 0, age |-> 0]
           s == Fragments!Started(starts)
<1>1. 0 \in 0 .. CacheAge /\ 0 \in 0 .. Fragmented - 1
  BY FragmentsAssumed DEF FragmentsAssumption
<1>1a. 0 % TagSpace = 0
  <2>1. TagSpace \in Int /\ TagSpace > 0 /\ 0 = TagSpace * 0 + 0 /\ 0 \in 0 .. TagSpace - 1
    BY FragmentsAssumed DEF FragmentsAssumption
  <2> QED BY <2>1, Quotient
<1>2. e \in CacheEntry /\ e.source = Fragments!Zero
  BY <1>1 DEF CacheEntry
<1>3. s = [queue |-> <<>>, offset |-> 0, streams |-> <<>>, tag |-> 0,
           cache |-> [i \in 1 .. CacheSlots |-> e], starts |-> starts, number |-> 0, seen |-> {}]
  BY DEF Fragments!Started
<1> DEFINE c == [i \in 1 .. CacheSlots |-> e]
<1> HIDE DEF e, s
<1>4. /\ s \in Station /\ s.streams = <<>> /\ s.tag = 0 /\ s.number = 0
      /\ \A i \in 1 .. CacheSlots : s.cache[i] = e
  <2>1. c \in [1 .. CacheSlots -> CacheEntry] /\ \A i \in 1 .. CacheSlots : c[i] = e
    BY <1>2
  <2> HIDE DEF c
  <2>2. <<>> \in Seq(Msg) /\ <<>> \in Seq(Stream) /\ {} \in SUBSET SeenEntry
    OBVIOUS
  <2>3. s = [queue |-> <<>>, offset |-> 0, streams |-> <<>>, tag |-> 0, cache |-> c,
             starts |-> starts, number |-> 0, seen |-> {}]
    BY <1>3 DEF c
  <2>4. s \in Station
    <3>1. 0 \in Nat
      OBVIOUS
    <3> QED BY <1>1, <2>1, <2>2, <2>3, <3>1, Begun, ZenonT(60) DEF Station
  <2> QED BY <2>1, <2>3, <2>4
<1>5. GoodStation(s)
  <2>1. \A i \in 1 .. CacheSlots : WasSeen(s, s.cache[i])
    BY <1>2, <1>4 DEF WasSeen
  <2>2. s.tag = s.number % TagSpace
    <3>1. s.tag = 0 /\ s.number = 0
      BY <1>4
    <3>2. s.number % TagSpace = 0 % TagSpace
      BY <3>1, Zenon
    <3> QED BY <1>1a, <3>1, <3>2, Zenon
  <2>3. \A i \in DOMAIN s.streams : InPart(s.streams[i])
    BY <1>4
  <2> QED BY <1>4, <2>1, <2>2, <2>3 DEF GoodStation
<1> QED BY <1>5 DEF s

LEMMA MishapStep ==
    ASSUME FragmentsInv, Fragments!Mishap
    PROVE  FragmentsInv'
<1>1. mishaps' \in 0 .. MaxMishaps /\ UNCHANGED created
  BY FragmentsAssumed DEF Fragments!Mishap, FragmentsInv, FragmentsAssumption
<1>2. PICK n \in Stations :
        \/ /\ station[n].queue # <<>>
           /\ \E m \in Fragments!Hearers(n, Head(station[n].queue)) :
                 Fragments!Fragment(n, Fragments!Hearers(n, Head(station[n].queue)) \ {m})
        \/ /\ station[n].queue # <<>>
           /\ station' = [station EXCEPT ![n].queue = Tail(@), ![n].offset = 0]
           /\ UNCHANGED <<handed, unseen>>
        \/ /\ station[n].queue # <<>>
           /\ station' = [m \in Stations |-> Fragments!Overtaken(station[m], n, m)]
           /\ UNCHANGED <<handed, unseen>>
        \/ /\ station' = [station EXCEPT ![n] = Fragments!Started(station[n].starts + 1)]
           /\ UNCHANGED <<handed, unseen>>
  BY DEF Fragments!Mishap
<1>3. \A m \in Stations : GoodStation(station[m])
  BY DEF FragmentsInv
<1>4. CASE /\ station[n].queue # <<>>
           /\ \E m \in Fragments!Hearers(n, Head(station[n].queue)) :
                 Fragments!Fragment(n, Fragments!Hearers(n, Head(station[n].queue)) \ {m})
  <2> DEFINE hearers == Fragments!Hearers(n, Head(station[n].queue))
  <2>1. PICK m \in hearers : Fragments!Fragment(n, hearers \ {m})
    BY <1>4
  <2>2. hearers \ {m} \in SUBSET hearers
    OBVIOUS
  <2>3. /\ DOMAIN station' = Stations /\ \A k \in Stations : GoodStation(station'[k])
        /\ Fragments!HandedWhole' /\ Fragments!RefusesOnlySeen'
    BY <1>4, <2>1, <2>2, FragmentStep
  <2> QED BY <1>1, <2>3 DEF FragmentsInv
<1>5. CASE /\ station[n].queue # <<>>
           /\ station' = [station EXCEPT ![n].queue = Tail(@), ![n].offset = 0]
           /\ UNCHANGED <<handed, unseen>>
  <2> DEFINE s == station[n]
             t == [s EXCEPT !.queue = Tail(s.queue), !.offset = 0]
  <2>1. /\ s.queue \in Seq(Msg) /\ s.queue # <<>> /\ s.tag \in Nat /\ s \in Station
        /\ GoodStation(s)
    BY <1>3, <1>5, Fields DEF GoodStation
  <2>2. station' = [station EXCEPT ![n] = t]
    BY <1>5 DEF FragmentsInv
  <2> HIDE DEF s
  <2>3. Tail(s.queue) \in Seq(Msg) /\ 0 \in 0 .. Fragmented - 1
    BY <2>1, FragmentsAssumed DEF FragmentsAssumption
  <2>4. t = [s EXCEPT !.queue = Tail(s.queue), !.offset = 0]
    BY <2>1 DEF Station
  <2>5. GoodStation([s EXCEPT !.queue = Tail(s.queue), !.offset = 0])
    BY <2>1, <2>3, QueueChanges
  <2>6. GoodStation(t)
    BY <2>4, <2>5
  <2> HIDE DEF t
  <2>7. DOMAIN station' = Stations /\ \A m \in Stations : GoodStation(station'[m])
    BY <1>3, <2>2, <2>6 DEF FragmentsInv
  <2> QED BY <1>1, <1>5, <2>7, StationsKept
<1>6. CASE /\ station[n].queue # <<>>
           /\ station' = [m \in Stations |-> Fragments!Overtaken(station[m], n, m)]
           /\ UNCHANGED <<handed, unseen>>
  <2>1. \A m \in Stations : GoodStation(Fragments!Overtaken(station[m], n, m))
    BY <1>3, OvertakenGood
  <2>2. DOMAIN station' = Stations /\ \A m \in Stations : GoodStation(station'[m])
    BY <1>6, <2>1
  <2> QED BY <1>1, <1>6, <2>2, StationsKept
<1>7. CASE /\ station' = [station EXCEPT ![n] = Fragments!Started(station[n].starts + 1)]
           /\ UNCHANGED <<handed, unseen>>
  <2>1. station[n].starts + 1 \in Nat
    BY <1>3 DEF GoodStation, Station
  <2>2. GoodStation(Fragments!Started(station[n].starts + 1))
    BY <2>1, StartedGood
  <2>3. DOMAIN station' = Stations /\ \A m \in Stations : GoodStation(station'[m])
    BY <1>3, <1>7, <2>2 DEF FragmentsInv
  <2> QED BY <1>1, <1>7, <2>3, StationsKept
<1> QED BY <1>2, <1>4, <1>5, <1>6, <1>7

LEMMA FragmentsStep == FragmentsInv /\ [Fragments!Next]_fragmentVars => FragmentsInv'
<1> SUFFICES ASSUME FragmentsInv, [Fragments!Next]_fragmentVars PROVE FragmentsInv'
  OBVIOUS
<1>1. ASSUME NEW n \in Stations, Fragments!TxThread(n) PROVE FragmentsInv'
  <2> DEFINE hearers == Fragments!Hearers(n, Head(station[n].queue))
  <2>1. station[n].queue # <<>> /\ Fragments!Fragment(n, hearers) /\ UNCHANGED <<created, mishaps>>
    BY <1>1 DEF Fragments!TxThread
  <2>2. hearers \in SUBSET hearers
    OBVIOUS
  <2>3. /\ DOMAIN station' = Stations /\ \A k \in Stations : GoodStation(station'[k])
        /\ Fragments!HandedWhole' /\ Fragments!RefusesOnlySeen'
    BY <2>1, <2>2, FragmentStep
  <2> QED BY <2>1, <2>3 DEF FragmentsInv
<1>2. CASE UNCHANGED fragmentVars
  BY <1>2 DEF fragmentVars, FragmentsInv, Fragments!HandedWhole, Fragments!RefusesOnlySeen
<1> QED BY <1>1, <1>2, SendStep, TimeoutStep, MishapStep DEF Fragments!Next

LEMMA FragmentsStart == Fragments!Init => FragmentsInv
<1> SUFFICES ASSUME Fragments!Init PROVE FragmentsInv
  OBVIOUS
<1>1. station = [n \in Stations |-> Fragments!Started(0)]
  BY DEF Fragments!Init
<1>2. 0 \in 0 .. MaxMishaps /\ GoodStation(Fragments!Started(0))
  BY StartedGood, FragmentsAssumed DEF FragmentsAssumption
<1> QED BY <1>1, <1>2 DEF FragmentsInv, Fragments!Init, Fragments!HandedWhole,
    Fragments!RefusesOnlySeen

LEMMA FragmentsInvGives == FragmentsInv => Fragments!FragmentsSound
<1> SUFFICES ASSUME FragmentsInv PROVE Fragments!FragmentsSound
  OBVIOUS
<1>1. ASSUME NEW n \in Stations
      PROVE  /\ station[n].offset < Fragmented
             /\ station[n].tag \in 0 .. TagSpace - 1
             /\ \A i \in DOMAIN station[n].streams :
                   /\ station[n].streams[i].age \in 0 .. StreamAge
                   /\ Len(station[n].streams[i].content) < Fragmented
             /\ DOMAIN station[n].cache = 1 .. CacheSlots
             /\ \A i \in 1 .. CacheSlots : station[n].cache[i].age \in 0 .. CacheAge
             /\ \A i \in DOMAIN station[n].queue : station[n].queue[i].ttl > 0
  <2> DEFINE s == station[n]
  <2>1. GoodStation(s)
    BY DEF FragmentsInv
  <2> HIDE DEF s
  <2>2. /\ s.queue \in Seq(Msg) /\ s.offset \in 0 .. Fragmented - 1
        /\ s.streams \in Seq(Stream) /\ s.cache \in [1 .. CacheSlots -> CacheEntry]
    BY <2>1, Fields
  <2>3. s.offset < Fragmented /\ s.tag \in 0 .. TagSpace - 1
    <3>1. s.number \in Int /\ s.tag = s.number % TagSpace
      BY <2>1 DEF GoodStation, Station
    <3>2. TagSpace \in Int /\ TagSpace > 0
      BY FragmentsAssumed DEF FragmentsAssumption
    <3>3. s.tag \in 0 .. TagSpace - 1
      BY <3>1, <3>2, Division
    <3> QED BY <2>2, <3>3, FragmentsAssumed DEF FragmentsAssumption
  <2>4. ASSUME NEW i \in DOMAIN s.streams
        PROVE  s.streams[i].age \in 0 .. StreamAge /\ Len(s.streams[i].content) < Fragmented
    <3>1. s.streams[i] \in Stream /\ InPart(s.streams[i])
      BY <2>1, <2>2 DEF GoodStation
    <3> QED BY <3>1, FragmentsAssumed DEF Stream, InPart, FragmentsAssumption
  <2>5. ASSUME NEW i \in 1 .. CacheSlots PROVE s.cache[i].age \in 0 .. CacheAge
    <3>1. s.cache[i] \in CacheEntry
      BY <2>2
    <3> QED BY <3>1 DEF CacheEntry
  <2>6. ASSUME NEW i \in DOMAIN s.queue PROVE s.queue[i].ttl > 0
    <3>1. s.queue[i] \in Msg
      BY <2>2
    <3> QED BY <3>1 DEF Msg
  <2> QED BY <2>2, <2>3, <2>4, <2>5, <2>6 DEF s
<1>2. Fragments!TypeOK
  BY <1>1 DEF Fragments!TypeOK, FragmentsInv
<1> QED BY <1>2 DEF Fragments!FragmentsSound, FragmentsInv

-----------------------------------------------------------------------------
(* The parts as they are put together *)

\* A step is one of the part in focus, and the other parts rest.
LEMMA PartsStep ==
    ASSUME [Next]_vars
    PROVE  /\ focus' = focus /\ [Mac!Next]_macVars
           /\ [Neighbors!Next]_neighborVars /\ [Fragments!Next]_fragmentVars
  BY DEF vars, On, OthersRest,
         Next, MacNext, NeighborsNext, FragmentsNext, AddressesNext, DhcpNext, ArpNext,
         BridgingNext, TimeSyncNext, ClockNext, DnsNext, ConfigNext, TftpNext, KeyValueNext

MacFocus == focus = "mac" => MacInv

LEMMA MacFocusHolds == (Init => MacFocus) /\ (MacFocus /\ [Next]_vars => MacFocus')
<1>1. Init => MacFocus
  BY ServicesAssumption, InitialState DEF Init, MacFocus
<1>2. MacFocus /\ [Next]_vars => MacFocus'
  BY ServicesAssumption, EveryStep, PartsStep DEF MacFocus
<1> QED
  BY <1>1, <1>2

\* The queues and caches hold what they can hold, the replay counter refuses only frames that
\* were taken before, and no frame is transmitted more often than the configuration or the
\* wrap of the counter allow, for all sizes, tries and failures (wcom_mac.c 209-360,
\* 747-906, wcom_mac_sec.c 43-120).
THEOREM MacLosesNothing == Spec => []MacSound
<1>1. MacFocus => MacSound
  BY ServicesAssumption, MacInvGives DEF MacFocus, MacSound
<1> QED
  BY <1>1, MacFocusHolds, PTL DEF Spec

\* The MAC implements the link: each frame is handed over at most once and in order, and is
\* reported as sent only when the radio of the neighbor heard it, for all sizes of the queues
\* and caches, numbers of tries, repetitions, reboots and forgotten neighbors.
THEOREM MacIsLink == Spec => ImplementsLink
<1>1. Init => Mac!LinkOf!LinkInit
  BY DEF Init, Mac!Init, Mac!LinkOf!LinkInit
<1>2. MacFocus /\ [Next]_vars => [Mac!LinkOf!LinkNext]_<<sent, heard, delivered, report>>
  <2>1. ASSUME focus # "mac", [Next]_vars PROVE UNCHANGED <<sent, heard, delivered, report>>
    BY <2>1 DEF macVars, vars, On, OthersRest,
         Next, MacNext, NeighborsNext, FragmentsNext, AddressesNext, DhcpNext, ArpNext,
         BridgingNext, TimeSyncNext, ClockNext, DnsNext, ConfigNext, TftpNext, KeyValueNext
  <2> QED
    BY <2>1, ServicesAssumption, LinkStep, PartsStep DEF MacFocus
<1> QED
  BY <1>1, <1>2, MacFocusHolds, PTL
     DEF Spec, ImplementsLink, Mac!ImplementsLink, Mac!LinkOf!LinkSpec

NeighborsFocus == focus = "neighbors" => NeighborsInv

\* The list of neighbors, the provisional list and the upstream of every node agree: an
\* upstream is a neighbor and the only one marked as such, the depth is that of a node below
\* the gateway, and no list is longer than its limit, for every set of nodes, through lost and
\* late messages, full queues, reboots and evictions (wcom_neighbors.c 300-1500).
THEOREM NeighborsAreSound == Spec => []NeighborsSound
<1>1. Init => NeighborsFocus
  BY NeighborsStart DEF Init, NeighborsFocus
<1>2. NeighborsFocus /\ [Next]_vars => NeighborsFocus'
  BY NeighborsStep, PartsStep DEF NeighborsFocus
<1>3. NeighborsFocus => NeighborsSound
  BY NeighborsInvGives DEF NeighborsFocus, NeighborsSound
<1> QED
  BY <1>1, <1>2, <1>3, PTL DEF Spec

FragmentsFocus == focus = "fragments" => FragmentsInv

\* What a station hands over is one message as it was signed, its replay cache refuses only
\* what it sent or put together before and new messages whose tag has come round since (or
\* whose origin has restarted), and queues and streams stay within their bounds, for every
\* network, number of fragments and of tags, size and age of the caches, and any number of
\* restarts (wcom_ipv4.c 330-1180).
THEOREM FragmentsAreSound == Spec => []FragmentsSound
<1>1. Init => FragmentsFocus
  BY FragmentsStart DEF Init, FragmentsFocus
<1>2. FragmentsFocus /\ [Next]_vars => FragmentsFocus'
  BY FragmentsStep, PartsStep DEF FragmentsFocus
<1>3. FragmentsFocus => FragmentsSound
  BY FragmentsInvGives DEF FragmentsFocus, FragmentsSound
<1> QED
  BY <1>1, <1>2, <1>3, PTL DEF Spec

\* What NodeProofs shows of the parts that a node keeps by itself holds here too: taken one at
\* a time, as the runs do it, the clock, the settings, the files and the key values take no
\* step and have no beginning that they have not in Node.
LEMMA NodeIsPart == Spec => NodeSpec
<1>1. Init => NodeInit
  BY DEF Init
<1>2. [Next]_vars => [NodeNext]_nodeVars
  BY DEF NodeNext, nodeVars, vars, On, OthersRest,
         Next, MacNext, NeighborsNext, FragmentsNext, AddressesNext, DhcpNext, ArpNext,
         BridgingNext, TimeSyncNext, ClockNext, DnsNext, ConfigNext, TftpNext, KeyValueNext
<1> QED
  BY <1>1, <1>2, PTL DEF Spec, NodeSpec

-----------------------------------------------------------------------------
(* The gateway *)

(* Addresses of the nodes *)

Node == [configured : BOOLEAN, token : Nat, ip : Addresses!Addresses, manual : BOOLEAN]
BridgeEntry == [addr : Members \cup {Addresses!NoOne}, ip : Addresses!Addresses, due : BOOLEAN,
                valid : BOOLEAN,
                manual : BOOLEAN, request : BOOLEAN]
Gate == [token : Nat, configured : BOOLEAN, dhcp : Addresses!Slots \cup {Addresses!Idle},
         bridge : [Addresses!Slots -> BridgeEntry]]
Requests == [at : {Addresses!TheGateway}, kind : {"request"}, from : Members, manual : BOOLEAN]
Configs == [at : Members \cup {Addresses!All}, kind : {"config"}, addr : Members,
            ip : Addresses!Addresses, token : Nat]
Tokens == [at : {Addresses!All}, kind : {"token"}, token : Nat]
Record == [addr : Members, ip : Addresses!Addresses]

AddressTypes ==
    /\ member \in [Members -> Node] /\ gate \in Gate
    /\ database \in Seq(Record)
    /\ leases \in [Addresses!Slots -> Pool \cup {Addresses!NoIp}]
    /\ air \subseteq Requests \cup Configs \cup Tokens
    /\ disruptions \in 0 .. MaxDisruptions

\* The table and the device database have at most one entry of a node.
TableInv ==
    /\ \A i, j \in Addresses!Slots : i # j /\ gate.bridge[i].addr # Addresses!NoOne =>
                              gate.bridge[i].addr # gate.bridge[j].addr
    /\ \A i \in Addresses!Slots : gate.bridge[i].addr = Addresses!NoOne =>
          ~gate.bridge[i].request /\ ~gate.bridge[i].valid /\ gate.dhcp # i
    /\ \A i, j \in DOMAIN database : i # j => database[i].addr # database[j].addr

\* The server has leased an address once, and an entry that is valid holds the one of its lease.
LeasesInv ==
    /\ \A i, j \in Addresses!Slots : i # j /\ leases[i] # Addresses!NoIp => leases[i] # leases[j]
    /\ \A i \in Addresses!Slots : gate.bridge[i].valid =>
          leases[i] # Addresses!NoIp /\ gate.bridge[i].ip = leases[i]

\* m was given the address of the lease of its entry.
Given(m, ip) ==
    \E i \in Addresses!Slots : gate.bridge[i].addr = m /\ gate.bridge[i].valid /\ leases[i] = ip

\* A node without a manual address that has a session uses the address of its lease.
NodesInv ==
    \A m \in Members :
        /\ member[m].token <= gate.token
        /\ member[m].manual => m \in DOMAIN ManualIp
        /\ Addresses!InSession(m) => IF member[m].manual THEN member[m].ip = ManualIp[m]
                                               ELSE Given(m, member[m].ip)

\* What is on its way was sent since its node started.
MessageOK(msg) ==
    /\ msg \in Requests => msg.manual = member[msg.from].manual
    /\ msg \in Configs =>
          /\ msg.token <= gate.token
          /\ ~member[msg.addr].manual /\ msg.token = gate.token => Given(msg.addr, msg.ip)
MessagesInv == \A msg \in air : MessageOK(msg)

AddressesInv == AddressTypes /\ TableInv /\ LeasesInv /\ NodesInv /\ MessagesInv

-----------------------------------------------------------------------------
LEMMA SlotsAreNumbers == ASSUME AddressesAssumption PROVE Addresses!Idle \notin Addresses!Slots
  BY DEF AddressesAssumption, Addresses!Idle, Addresses!Slots

\* Every kind of message is told by its kind.
LEMMA KindsDiffer ==
    ASSUME AddressesInv, NEW msg \in air
    PROVE  /\ msg.kind = "request" => msg \in Requests
           /\ msg.kind = "config" => msg \in Configs
           /\ msg.kind = "token" => msg \in Tokens
           /\ msg \in Requests \cup Configs \cup Tokens
  BY DEF AddressesInv, AddressTypes, Requests, Configs, Tokens

\* What was given to n stays given.
StaysGiven(n) ==
    \A i \in Addresses!Slots : gate.bridge[i].valid /\ gate.bridge[i].addr = n =>
        gate'.bridge[i].valid /\ gate'.bridge[i].addr = n /\ leases'[i] = leases[i]

LEMMA GivenLasts ==
    ASSUME NEW n, NEW ip, StaysGiven(n), Given(n, ip)
    PROVE  Given(n, ip)'
  BY DEF StaysGiven, Given

\* A step of the gateway that takes nothing back from nodes without a manual address.
LEMMA GatewayStep ==
    ASSUME AddressesInv, gate'.token = gate.token, member' = member,
           \A n \in Members : ~member[n].manual => StaysGiven(n),
           \A msg \in air' : msg \in air \/ MessageOK(msg)'
    PROVE  NodesInv' /\ MessagesInv'
<1>1. ASSUME NEW n \in Members, ~member[n].manual, NEW ip, Given(n, ip) PROVE Given(n, ip)'
  BY <1>1, GivenLasts
<1>2. NodesInv'
  BY <1>1 DEF AddressesInv, NodesInv, Addresses!InSession
<1>3. ASSUME NEW msg \in air PROVE MessageOK(msg)'
  <2>1. MessageOK(msg)
    BY DEF AddressesInv, MessagesInv
  <2>2. msg \in Configs => msg.addr \in Members
    BY DEF Configs
  <2> QED
    BY <1>1, <2>1, <2>2 DEF MessageOK
<1> QED
  BY <1>2, <1>3 DEF MessagesInv

LEMMA AddressesInit == ASSUME AddressesAssumption, Addresses!Init PROVE AddressesInv
<1>1. /\ Addresses!NoIp \in Addresses!Addresses
      /\ \A m \in DOMAIN ManualIp : ManualIp[m] \in Addresses!Addresses
  BY DEF Addresses!Addresses
<1>2. Addresses!EmptyBridge \in BridgeEntry
  BY <1>1 DEF Addresses!EmptyBridge, BridgeEntry
<1>3. gate = [token |-> 1, configured |-> FALSE, dhcp |-> Addresses!Idle,
              bridge |-> [i \in Addresses!Slots |-> Addresses!EmptyBridge]]
  BY DEF Addresses!Init, Addresses!GatewayStarted
<1>4. AddressTypes
  <2>1. member \in [Members -> Node]
    <3>1. \A m \in Members : Addresses!Unconfigured(m \in DOMAIN ManualIp) \in Node
      BY <1>1 DEF Addresses!Unconfigured, Node
    <3> QED
      BY <3>1 DEF Addresses!Init
  <2>2. gate \in Gate
    BY <1>2, <1>3 DEF Gate
  <2>3. /\ leases \in [Addresses!Slots -> Pool \cup {Addresses!NoIp}]
        /\ air = {} /\ database \in Seq(Record)
    BY DEF Addresses!Init
  <2>4. disruptions \in 0 .. MaxDisruptions
    BY DEF Addresses!Init, AddressesAssumption
  <2> QED
    BY <2>1, <2>2, <2>3, <2>4 DEF AddressTypes
<1>5. TableInv /\ LeasesInv
  BY <1>3, SlotsAreNumbers DEF Addresses!Init, TableInv, LeasesInv, Addresses!EmptyBridge
<1>6. NodesInv /\ MessagesInv
  <2>1. \A m \in Members : /\ ~member[m].configured /\ member[m].token = 0
                           /\ member[m].manual => m \in DOMAIN ManualIp
    BY DEF Addresses!Init, Addresses!Unconfigured
  <2> QED
    BY <1>3, <2>1 DEF Addresses!Init, NodesInv, MessagesInv, Addresses!InSession
<1> QED
  BY <1>4, <1>5, <1>6 DEF AddressesInv

LEMMA AskStep ==
    ASSUME AddressesAssumption, AddressesInv, NEW m \in Members, Addresses!ClientThread(m)
    PROVE  AddressesInv'
<1>1. Addresses!Request(m) \in Requests
  BY DEF Addresses!Request, Requests, AddressesInv, AddressTypes, Node
<1>2. \A msg : msg = Addresses!Request(m) => MessageOK(msg)'
  BY DEF Addresses!ClientThread, MessageOK, Addresses!Request, Configs
<1>3. NodesInv' /\ MessagesInv'
  <2>1. /\ UNCHANGED <<member, gate, leases>>
        /\ \A msg \in air' : msg \in air \/ msg = Addresses!Request(m)
    BY DEF Addresses!ClientThread
  <2>2. \A n \in Members : StaysGiven(n)
    BY <2>1 DEF StaysGiven
  <2> QED
    BY <1>2, <2>1, <2>2, GatewayStep
<1> QED
  BY <1>1, <1>3 DEF Addresses!ClientThread, AddressesInv, AddressTypes, TableInv, LeasesInv

\* What a node makes of a message.
LEMMA ReceivesIs ==
    ASSUME AddressesAssumption, AddressesInv, NEW msg \in air, msg.at # Addresses!TheGateway,
               NEW m \in Members
    PROVE  LET after == Addresses!Receives(m, msg) IN
           /\ after \in Node /\ after.manual = member[m].manual /\ after.token <= gate.token
           /\ after.configured /\ after.token = gate.token =>
                 IF after.manual THEN after.ip = ManualIp[m] ELSE Given(m, after.ip)
<1> DEFINE after == Addresses!Receives(m, msg)
<1>1. member[m] \in Node /\ member[m].token <= gate.token /\ gate.token \in Nat
      /\ (member[m].manual => m \in DOMAIN ManualIp)
  BY DEF AddressesInv, AddressTypes, NodesInv, Gate
<1>2. Addresses!InSession(m) =>
            IF member[m].manual THEN member[m].ip = ManualIp[m] ELSE Given(m, member[m].ip)
  BY DEF AddressesInv, NodesInv
<1>3. MessageOK(msg) /\ msg \in Configs \cup Tokens
  BY KindsDiffer DEF AddressesInv, MessagesInv, Requests
<1>4. CASE msg.kind = "token"
  <2>1. after = [member[m] EXCEPT !.configured = @ /\ ~Addresses!TokenChanged(m, msg)]
    BY <1>4 DEF Addresses!Receives
  <2>2. /\ after \in Node /\ after.manual = member[m].manual /\ after.token = member[m].token
        /\ after.ip = member[m].ip /\ (after.configured => member[m].configured)
    BY <1>1, <2>1 DEF Node, Addresses!TokenChanged
  <2> QED
    BY <1>1, <1>2, <2>2 DEF Addresses!InSession
<1>5. CASE msg.kind # "token" /\ Addresses!IsForMe(m, msg)
  <2>1. msg \in Configs /\ msg.addr = m
    BY <1>3, <1>5 DEF Tokens, Addresses!IsForMe
  <2>2. after = [member[m] EXCEPT !.configured = TRUE, !.token = msg.token,
                                !.ip = IF member[m].manual THEN ManualIp[m] ELSE msg.ip]
    BY <1>5 DEF Addresses!Receives
  <2>3. (IF member[m].manual THEN ManualIp[m] ELSE msg.ip) \in Addresses!Addresses
    BY <1>1, <2>1 DEF Addresses!Addresses, Configs
  <2>4. /\ after \in Node /\ after.manual = member[m].manual /\ after.token = msg.token
        /\ after.ip = IF member[m].manual THEN ManualIp[m] ELSE msg.ip
    BY <1>1, <2>1, <2>2, <2>3 DEF Node, Configs
  <2>5. msg.token <= gate.token /\ (~member[m].manual /\ msg.token = gate.token => Given(m, msg.ip))
    BY <1>3, <2>1 DEF MessageOK
  <2> QED
    BY <2>4, <2>5
<1>6. CASE msg.kind # "token" /\ ~Addresses!IsForMe(m, msg)
  BY <1>1, <1>2, <1>6 DEF Addresses!Receives, Addresses!InSession
<1> QED
  BY <1>4, <1>5, <1>6

\* A message arrives at nodes: only what is about a node changes it.
LEMMA MessageStep ==
    ASSUME AddressesAssumption, AddressesInv, NEW msg \in air, NEW deaf, Addresses!Arrives(msg, deaf),
           disruptions' \in 0 .. MaxDisruptions
    PROVE  AddressesInv'
<1>1. /\ msg.at # Addresses!TheGateway /\ UNCHANGED <<gate, database, leases>> /\ air' \subseteq air
      /\ member' = [m \in Members |-> IF msg.at \in {m, Addresses!All} /\ m \notin deaf
                                      THEN Addresses!Receives(m, msg) ELSE member[m]]
  BY DEF Addresses!Arrives
<1>2. ASSUME NEW m \in Members
      PROVE  /\ member'[m] \in Node /\ member'[m].manual = member[m].manual
             /\ member'[m].token <= gate.token
             /\ member'[m].configured /\ member'[m].token = gate.token =>
                   IF member'[m].manual THEN member'[m].ip = ManualIp[m] ELSE Given(m, member'[m].ip)
  <2>1. CASE msg.at \in {m, Addresses!All} /\ m \notin deaf
    BY <1>1, <2>1, ReceivesIs
  <2>2. CASE ~(msg.at \in {m, Addresses!All} /\ m \notin deaf)
    BY <1>1, <2>2 DEF AddressesInv, AddressTypes, NodesInv, Addresses!InSession
  <2> QED
    BY <2>1, <2>2
<1>3. \A n, ip : Given(n, ip)' <=> Given(n, ip)
  BY <1>1 DEF Given
<1>4. AddressTypes'
  BY <1>1, <1>2 DEF AddressesInv, AddressTypes
<1>5. NodesInv'
  BY <1>1, <1>2, <1>3 DEF AddressesInv, NodesInv, Addresses!InSession
<1>6. ASSUME NEW other \in air PROVE MessageOK(other)'
  <2>1. MessageOK(other) /\ (other \in Requests => other.from \in Members)
                        /\ (other \in Configs => other.addr \in Members)
    BY DEF AddressesInv, MessagesInv, Requests, Configs
  <2> QED
    BY <1>1, <1>2, <1>3, <2>1 DEF MessageOK
<1> QED
  BY <1>1, <1>4, <1>5, <1>6 DEF AddressesInv, TableInv, LeasesInv, MessagesInv

LEMMA TokenStep ==
    ASSUME AddressesAssumption, AddressesInv, Addresses!TokenThread
    PROVE  AddressesInv'
<1>1. Addresses!TokenMsg \in Tokens
  BY DEF Addresses!TokenMsg, Tokens, AddressesInv, AddressTypes, Gate
<1>2. \A msg : msg = Addresses!TokenMsg => MessageOK(msg)'
  BY DEF MessageOK, Addresses!TokenMsg, Configs, Requests
<1>3. NodesInv' /\ MessagesInv'
  <2>1. /\ UNCHANGED <<member, gate, leases>>
        /\ \A msg \in air' : msg \in air \/ msg = Addresses!TokenMsg
    BY DEF Addresses!TokenThread
  <2>2. \A n \in Members : StaysGiven(n)
    BY <2>1 DEF StaysGiven
  <2> QED
    BY <1>2, <2>1, <2>2, GatewayStep
<1> QED
  BY <1>1, <1>3 DEF Addresses!TokenThread, AddressesInv, AddressTypes, TableInv, LeasesInv

LEMMA PoolRequestStep ==
    ASSUME AddressesAssumption, AddressesInv,
               \/ Addresses!LocalLease \/ \E i \in Addresses!Slots : Addresses!PoolRequest(i)
    PROVE  AddressesInv'
<1>1. /\ gate'.bridge = gate.bridge /\ gate'.token = gate.token /\ gate' \in Gate
      /\ UNCHANGED <<member, database, leases, air, disruptions>>
  BY DEF Addresses!LocalLease, Addresses!PoolRequest, AddressesInv, AddressTypes, Gate
<1>2. NodesInv' /\ MessagesInv'
  BY <1>1, GatewayStep DEF StaysGiven
<1>3. \A i \in Addresses!Slots : gate'.dhcp = i => gate.dhcp = i \/ gate.bridge[i].request
  BY DEF Addresses!LocalLease, Addresses!PoolRequest, AddressesInv, AddressTypes, Gate
<1>4. TableInv' /\ LeasesInv'
  BY <1>1, <1>3 DEF AddressesInv, TableInv, LeasesInv
<1> QED
  BY <1>1, <1>2, <1>4 DEF AddressesInv, AddressTypes

\* The entry that the DHCP thread works on gets the address of its lease; of an entry that is
\* valid this is the one it has.
LEMMA PoolDoneStep ==
    ASSUME AddressesAssumption, AddressesInv, Addresses!PoolDone
    PROVE  AddressesInv'
<1> DEFINE i == gate.dhcp
<1>1. i \in Addresses!Slots /\ gate.bridge[i] \in BridgeEntry /\ gate.bridge[i].addr # Addresses!NoOne
  BY DEF Addresses!PoolDone, AddressesInv, AddressTypes, Gate, TableInv
<1>2. PICK ip \in Addresses!Offers(i, gate.bridge[i].ip) :
          /\ gate' = [gate EXCEPT !.bridge[i] = Addresses!Filled(@, ip), !.dhcp = Addresses!Idle]
          /\ leases' = [leases EXCEPT ![i] = ip]
  BY DEF Addresses!PoolDone
<1>3. /\ ip \in Pool /\ ip # Addresses!NoIp
      /\ \A k \in Addresses!Slots : k # i => leases[k] # ip
      /\ gate.bridge[i].valid => ip = leases[i]
  <2>1. \A k \in Addresses!Slots : leases[k] # Addresses!NoIp =>
              leases[k] \in Addresses!Leased /\ leases[k] \in Pool
    BY DEF Addresses!Leased, AddressesInv, AddressTypes
  <2>2. \A k \in Addresses!Slots : k # i /\ leases[k] # Addresses!NoIp => leases[k] # leases[i]
    BY <1>1 DEF AddressesInv, LeasesInv
  <2>3. Addresses!NoIp \notin Pool
    BY DEF AddressesAssumption
  <2>4. gate.bridge[i].valid => leases[i] # Addresses!NoIp /\ gate.bridge[i].ip = leases[i]
    BY <1>1 DEF AddressesInv, LeasesInv
  <2>5. CASE gate.bridge[i].ip \in Pool /\ gate.bridge[i].ip \notin Addresses!Leased \ {leases[i]}
    <3>1. ip = gate.bridge[i].ip
      BY <1>2, <2>5 DEF Addresses!Offers
    <3> QED
      BY <2>1, <2>2, <2>3, <2>4, <2>5, <3>1
  <2>6. CASE ~(gate.bridge[i].ip \in Pool /\ gate.bridge[i].ip \notin Addresses!Leased \ {leases[i]})
             /\ leases[i] # Addresses!NoIp
    <3>1. ip = leases[i]
      BY <1>2, <2>6 DEF Addresses!Offers
    <3> QED
      BY <1>1, <2>1, <2>2, <2>3, <2>4, <2>6, <3>1
  <2>7. CASE ~(gate.bridge[i].ip \in Pool /\ gate.bridge[i].ip \notin Addresses!Leased \ {leases[i]})
             /\ leases[i] = Addresses!NoIp
    <3>1. ip \in Pool \ Addresses!Leased
      BY <1>2, <2>7 DEF Addresses!Offers
    <3> QED
      BY <2>1, <2>3, <2>4, <2>7, <3>1
  <2> QED
    BY <2>5, <2>6, <2>7
<1>4. Addresses!Filled(gate.bridge[i], ip) \in BridgeEntry
  BY <1>1, <1>3 DEF Addresses!Filled, BridgeEntry, Addresses!Addresses
<1>5. /\ gate' \in Gate /\ gate'.token = gate.token /\ gate'.dhcp = Addresses!Idle
      /\ \A k \in Addresses!Slots : k # i => gate'.bridge[k] = gate.bridge[k]
      /\ gate'.bridge[i] = Addresses!Filled(gate.bridge[i], ip)
  BY <1>1, <1>2, <1>4 DEF AddressesInv, AddressTypes, Gate
<1>6. /\ gate'.bridge[i].addr = gate.bridge[i].addr /\ gate'.bridge[i].ip = ip
      /\ gate'.bridge[i].valid
  BY <1>1, <1>5 DEF Addresses!Filled, BridgeEntry
<1>7. /\ leases' \in [Addresses!Slots -> Pool \cup {Addresses!NoIp}] /\ leases'[i] = ip
      /\ \A k \in Addresses!Slots : k # i => leases'[k] = leases[k]
  BY <1>1, <1>2, <1>3 DEF AddressesInv, AddressTypes
<1>8. UNCHANGED <<member, database, air, disruptions>>
  BY DEF Addresses!PoolDone
<1>9. NodesInv' /\ MessagesInv'
  <2>1. ASSUME NEW n, NEW k \in Addresses!Slots, gate.bridge[k].valid, gate.bridge[k].addr = n
        PROVE  gate'.bridge[k].valid /\ gate'.bridge[k].addr = n /\ leases'[k] = leases[k]
    BY <1>3, <1>5, <1>6, <1>7, <2>1
  <2> QED
    BY <1>5, <1>8, <2>1, GatewayStep DEF StaysGiven
<1>10. TableInv'
  BY <1>1, <1>5, <1>6, <1>8, SlotsAreNumbers DEF AddressesInv, TableInv
<1>11. LeasesInv'
  BY <1>1, <1>3, <1>5, <1>6, <1>7 DEF AddressesInv, LeasesInv
<1> QED
  BY <1>5, <1>7, <1>8, <1>9, <1>10, <1>11 DEF AddressesInv, AddressTypes

\* The entry that a request is about is the one of its node, or a free one if it has none.
LEMMA EntryIs ==
    ASSUME AddressesAssumption, AddressesInv, NEW m \in Members, NEW i \in Addresses!EntriesFor(m)
    PROVE  /\ i \in Addresses!Slots /\ gate.bridge[i] \in BridgeEntry
           /\ gate.bridge[i].addr = m \/ gate.bridge[i].addr = Addresses!NoOne
           /\ \A k \in Addresses!Slots : k # i => gate.bridge[k].addr # m
<1> DEFINE of(a) == {k \in Addresses!Slots : gate.bridge[k].addr = a}
<1>1. i \in IF of(m) # {} THEN of(m) ELSE of(Addresses!NoOne)
  BY DEF Addresses!EntriesFor
<1>2. i \in Addresses!Slots /\ gate.bridge[i] \in BridgeEntry
  BY <1>1 DEF AddressesInv, AddressTypes, Gate
<1>3. CASE i \in of(m)
  BY <1>2, <1>3 DEF AddressesInv, TableInv, AddressesAssumption
<1>4. CASE of(m) = {} /\ i \in of(Addresses!NoOne)
  BY <1>2, <1>4
<1> QED
  BY <1>1, <1>2, <1>3, <1>4

LEMMA RecordedIs ==
    ASSUME AddressesInv, NEW m \in Members, NEW ip \in Addresses!Addresses
    PROVE  /\ Addresses!Recorded(database, m, ip) \in Seq(Record)
           /\ \A i, j \in DOMAIN Addresses!Recorded(database, m, ip) :
                 i # j =>
                       Addresses!Recorded(database, m, ip)[i].addr # Addresses!Recorded(database, m, ip)[j].addr
<1> DEFINE db == Addresses!Recorded(database, m, ip)
           r == [addr |-> m, ip |-> ip]
<1>1. /\ database \in Seq(Record) /\ r \in Record
      /\ \A i, j \in DOMAIN database : i # j => database[i].addr # database[j].addr
  BY DEF AddressesInv, AddressTypes, Record, TableInv
<1>0. /\ Len(database) \in Nat /\ DOMAIN database = 1 .. Len(database)
      /\ \A i \in 1 .. Len(database) : database[i] \in Record
  BY <1>1
<1>2. CASE \E i \in DOMAIN database : database[i].addr = m
  <2>1. db = [i \in 1 .. Len(database) |-> IF database[i].addr = m THEN r ELSE database[i]]
    BY <1>0, <1>2 DEF Addresses!Recorded
  <2>2. db \in Seq(Record)
    BY <1>0, <1>1, <2>1
  <2>3. \A i \in DOMAIN db : i \in DOMAIN database /\ db[i].addr = database[i].addr
    BY <1>0, <2>1
  <2> QED
    BY <1>1, <2>2, <2>3
<1>3. CASE ~\E i \in DOMAIN database : database[i].addr = m
  <2>1. db = Append(database, r)
    BY <1>3 DEF Addresses!Recorded
  <2>2. /\ db \in Seq(Record) /\ DOMAIN db = 1 .. Len(database) + 1
        /\ db[Len(database) + 1] = r /\ \A i \in 1 .. Len(database) : db[i] = database[i]
    BY <1>0, <1>1, <2>1
  <2>3. \A i \in DOMAIN db : (i \in DOMAIN database /\ db[i] = database[i]) \/ db[i].addr = m
    BY <1>0, <2>2
  <2> QED
    BY <1>0, <1>1, <1>3, <2>2, <2>3
<1> QED
  BY <1>2, <1>3

\* An entry that a request of m has changed.
LEMMA ChangedEntry ==
    ASSUME AddressesAssumption, AddressesInv, NEW m \in Members, NEW i \in Addresses!EntriesFor(m),
           NEW e \in BridgeEntry, e.addr = m, ~e.valid, gate' = [gate EXCEPT !.bridge[i] = e]
    PROVE  /\ gate' \in Gate /\ gate'.token = gate.token /\ gate'.dhcp = gate.dhcp
           /\ gate'.bridge[i] = e /\ \A k \in Addresses!Slots : k # i =>
                 gate'.bridge[k] = gate.bridge[k]
           /\ database' = database => TableInv'
           /\ leases' = leases => LeasesInv'
<1>1. /\ i \in Addresses!Slots /\ gate.bridge[i] \in BridgeEntry
      /\ \A k \in Addresses!Slots : k # i => gate.bridge[k].addr # m
  BY EntryIs
<1>2. /\ gate' \in Gate /\ gate'.token = gate.token /\ gate'.dhcp = gate.dhcp
      /\ gate'.bridge[i] = e /\ \A k \in Addresses!Slots : k # i => gate'.bridge[k] = gate.bridge[k]
  BY <1>1 DEF AddressesInv, AddressTypes, Gate
<1>3. m # Addresses!NoOne
  BY DEF AddressesAssumption
<1>4. database' = database => TableInv'
  BY <1>1, <1>2, <1>3 DEF AddressesInv, TableInv
<1>5. leases' = leases => LeasesInv'
  BY <1>1, <1>2 DEF AddressesInv, LeasesInv
<1> QED
  BY <1>2, <1>4, <1>5

\* Only the node without a manual address whose entry is changed could lose what it was given.
LEMMA OthersKeep ==
    ASSUME AddressesAssumption, AddressesInv, NEW m \in Members, NEW i \in Addresses!EntriesFor(m),
           NEW e \in BridgeEntry, e.addr = m, ~e.valid, gate' = [gate EXCEPT !.bridge[i] = e],
           leases' = leases, NEW n \in Members, n # m \/ ~gate.bridge[i].valid
    PROVE  StaysGiven(n)
<1>1. /\ i \in Addresses!Slots
      /\ gate.bridge[i].addr = m \/ gate.bridge[i].addr = Addresses!NoOne
      /\ n # Addresses!NoOne
  BY EntryIs DEF AddressesAssumption
<1>2. \A k \in Addresses!Slots : k # i => gate'.bridge[k] = gate.bridge[k]
  BY ChangedEntry
<1> QED
  BY <1>1, <1>2 DEF StaysGiven

LEMMA RequestStep ==
    ASSUME AddressesAssumption, AddressesInv, NEW msg \in air, Addresses!OnRequest(msg)
    PROVE  AddressesInv'
<1> DEFINE m == msg.from
<1>1. /\ msg \in Requests /\ m \in Members /\ msg.manual = member[m].manual
      /\ UNCHANGED <<member, leases, disruptions>>
      /\ member[m].manual => m \in DOMAIN ManualIp
  BY KindsDiffer DEF Addresses!OnRequest, Requests, AddressesInv, MessagesInv, MessageOK, NodesInv
<1>2. CASE air' = air \ {msg} /\ UNCHANGED <<gate, database>>
  <2>1. \A n \in Members : StaysGiven(n)
    BY <1>1, <1>2 DEF StaysGiven
  <2>2. NodesInv' /\ MessagesInv'
    BY <1>1, <1>2, <2>1, GatewayStep
  <2> QED
    BY <1>1, <1>2, <2>2 DEF AddressesInv, AddressTypes, TableInv, LeasesInv
<1>3. ASSUME NEW i \in Addresses!EntriesFor(m), msg.manual,
             gate' = [gate EXCEPT !.bridge[i] =
                         [@ EXCEPT !.addr = m, !.ip = ManualIp[m], !.manual = TRUE,
                                   !.valid = FALSE, !.request = FALSE, !.due = FALSE]],
             database' = Addresses!Recorded(database, m, ManualIp[m]),
             air' = (air \ {msg}) \cup {Addresses!Config(m, m, ManualIp[m])}
      PROVE  AddressesInv'
  <2> DEFINE e == [gate.bridge[i] EXCEPT !.addr = m, !.ip = ManualIp[m], !.manual = TRUE,
                                         !.valid = FALSE, !.request = FALSE, !.due = FALSE]
  <2>1. gate.bridge[i] \in BridgeEntry /\ i \in Addresses!Slots
    BY <1>1, <1>3, EntryIs
  <2>2. ManualIp[m] \in Addresses!Addresses
    BY <1>1, <1>3 DEF Addresses!Addresses
  <2>3. e \in BridgeEntry /\ e.addr = m /\ ~e.valid
    BY <1>1, <2>1, <2>2 DEF BridgeEntry
  <2>4. gate' = [gate EXCEPT !.bridge[i] = e]
    BY <1>3, <2>1 DEF AddressesInv, AddressTypes, Gate
  <2> HIDE DEF e
  <2>5. gate' \in Gate /\ gate'.token = gate.token /\ LeasesInv'
    BY <1>1, <1>3, <2>3, <2>4, ChangedEntry
  <2>6. TableInv'
    <3>1. /\ i \in Addresses!Slots /\ gate'.dhcp = gate.dhcp /\ gate'.bridge[i] = e
          /\ \A k \in Addresses!Slots : k # i =>
                gate'.bridge[k] = gate.bridge[k] /\ gate.bridge[k].addr # m
      BY <1>1, <1>3, <2>3, <2>4, ChangedEntry, EntryIs
    <3>2. m # Addresses!NoOne
      BY <1>1 DEF AddressesAssumption
    <3>3. \A a, b \in DOMAIN database' : a # b => database'[a].addr # database'[b].addr
      BY <1>1, <1>3, <2>2, RecordedIs
    <3> QED
      BY <2>3, <3>1, <3>2, <3>3 DEF AddressesInv, TableInv
  <2>7. ASSUME NEW n \in Members, ~member[n].manual PROVE StaysGiven(n)
    BY <1>1, <1>3, <2>3, <2>4, <2>7, OthersKeep
  <2>8. Addresses!Config(m, m, ManualIp[m]) \in Configs /\ \A x : x = Addresses!Config(m, m,
                                        ManualIp[m]) => MessageOK(x)'
    <3>1. gate.token \in Nat /\ Addresses!Config(m, m, ManualIp[m]) \in Configs
      BY <1>1, <2>2 DEF Addresses!Config, Configs, AddressesInv, AddressTypes, Gate
    <3>2. Addresses!Config(m, m, ManualIp[m]).addr = m /\ Addresses!Config(m, m,
                                          ManualIp[m]).token = gate.token
          /\ Addresses!Config(m, m, ManualIp[m]) \notin Requests
      BY DEF Addresses!Config, Requests
    <3>3. member' = member /\ member'[m].manual
      BY <1>1, <1>3
    <3> QED
      BY <2>5, <3>1, <3>2, <3>3 DEF MessageOK
  <2>9. NodesInv' /\ MessagesInv'
    BY <1>1, <1>3, <2>5, <2>7, <2>8, GatewayStep
  <2>10. database' \in Seq(Record)
    BY <1>1, <1>3, <2>2, RecordedIs
  <2>11. air' \subseteq Requests \cup Configs \cup Tokens
    BY <1>3, <2>8 DEF AddressesInv, AddressTypes
  <2> QED
    BY <1>1, <2>5, <2>6, <2>9, <2>10, <2>11 DEF AddressesInv, AddressTypes
<1>4. ASSUME NEW i \in Addresses!EntriesFor(m), ~gate.bridge[i].valid,
             gate' = [gate EXCEPT !.bridge[i] =
                         [@ EXCEPT !.addr = m, !.manual = FALSE, !.request = TRUE, !.due = TRUE]],
             air' = air \ {msg}, database' = database
      PROVE  AddressesInv'
  <2> DEFINE e == [gate.bridge[i] EXCEPT !.addr = m, !.manual = FALSE, !.request = TRUE, !.due = TRUE]
  <2>1. gate.bridge[i] \in BridgeEntry /\ i \in Addresses!Slots
    BY <1>1, <1>4, EntryIs
  <2>2. e \in BridgeEntry /\ e.addr = m /\ ~e.valid
    BY <1>1, <1>4, <2>1 DEF BridgeEntry
  <2>3. gate' = [gate EXCEPT !.bridge[i] = e]
    BY <1>4, <2>1 DEF AddressesInv, AddressTypes, Gate
  <2> HIDE DEF e
  <2>4. gate' \in Gate /\ gate'.token = gate.token /\ LeasesInv' /\ TableInv'
    BY <1>1, <1>4, <2>2, <2>3, ChangedEntry
  <2>5. \A n \in Members : StaysGiven(n)
    BY <1>1, <1>4, <2>2, <2>3, OthersKeep
  <2>6. NodesInv' /\ MessagesInv'
    BY <1>1, <1>4, <2>4, <2>5, GatewayStep
  <2> QED
    BY <1>1, <1>4, <2>4, <2>6 DEF AddressesInv, AddressTypes
<1>5. ASSUME NEW i \in Addresses!EntriesFor(m), gate.bridge[i].valid,
             database' = Addresses!Recorded(database, m, gate.bridge[i].ip),
             air' = (air \ {msg}) \cup {Addresses!Config(Addresses!All, m, gate.bridge[i].ip)},
                                                                                       gate' = gate
      PROVE  AddressesInv'
  <2> DEFINE c == Addresses!Config(Addresses!All, m, gate.bridge[i].ip)
  <2>1. gate.bridge[i] \in BridgeEntry /\ i \in Addresses!Slots /\ gate.bridge[i].addr = m
        /\ gate.bridge[i].ip \in Addresses!Addresses /\ gate.bridge[i].ip = leases[i]
    BY <1>1, <1>5, EntryIs DEF AddressesInv, TableInv, LeasesInv, BridgeEntry
  <2>2. gate.token \in Nat /\ c \in Configs
    BY <1>1, <2>1 DEF Addresses!Config, Configs, AddressesInv, AddressTypes, Gate
  <2>3. c.addr = m /\ c.token = gate.token /\ c.ip = gate.bridge[i].ip /\ c \notin Requests
    BY DEF Addresses!Config, Requests
  <2> HIDE DEF c
  <2>4. \A ip : ip = c.ip => Given(m, ip)'
    BY <1>1, <1>5, <2>1, <2>3 DEF Given
  <2>5. \A x : x = c => MessageOK(x)'
    BY <1>5, <2>2, <2>3, <2>4 DEF MessageOK
  <2>6. \A n \in Members : StaysGiven(n)
    BY <1>1, <1>5 DEF StaysGiven
  <2>7. NodesInv' /\ MessagesInv'
    BY <1>1, <1>5, <2>5, <2>6, GatewayStep DEF c
  <2>8. /\ database' \in Seq(Record)
        /\ \A a, b \in DOMAIN database' : a # b => database'[a].addr # database'[b].addr
    BY <1>1, <1>5, <2>1, RecordedIs
  <2>9. air' \subseteq Requests \cup Configs \cup Tokens
    BY <1>5, <2>2 DEF AddressesInv, AddressTypes, c
  <2> QED
    BY <1>1, <1>5, <2>7, <2>8, <2>9 DEF AddressesInv, AddressTypes, TableInv, LeasesInv
<1> QED
  BY <1>1, <1>2, <1>3, <1>4, <1>5 DEF Addresses!OnRequest

\* A message is lost, a node restarts, a lease runs out or the gateway restarts.
LEMMA DisruptionStep ==
    ASSUME AddressesAssumption, AddressesInv, Addresses!Disruption
    PROVE  AddressesInv'
<1>1. disruptions' \in 0 .. MaxDisruptions
  BY DEF Addresses!Disruption, AddressesInv, AddressTypes, AddressesAssumption
<1>2. ASSUME NEW msg \in air, NEW deaf, Addresses!Arrives(msg, deaf) PROVE AddressesInv'
  BY <1>1, <1>2, MessageStep
<1>3. ASSUME NEW msg \in air, air' = air \ {msg}, UNCHANGED <<member, gate, database, leases>>
      PROVE  AddressesInv'
  <2>1. NodesInv' /\ MessagesInv'
    BY <1>3, GatewayStep DEF StaysGiven
  <2> QED
    BY <1>1, <1>3, <2>1 DEF AddressesInv, AddressTypes, TableInv, LeasesInv
<1>4. ASSUME NEW m \in Members, NEW manual \in BOOLEAN, manual => member[m].manual,
             member' = [member EXCEPT ![m] = Addresses!Unconfigured(manual)],
             air' = {msg \in air : ~Addresses!Concerns(m, msg)},
             UNCHANGED <<gate, database, leases>>
      PROVE  AddressesInv'
  <2>1. /\ Addresses!Unconfigured(manual) \in Node /\ ~Addresses!Unconfigured(manual).configured
        /\ Addresses!Unconfigured(manual).token = 0 /\ Addresses!Unconfigured(manual).manual = manual
    BY DEF Addresses!Unconfigured, Node, Addresses!Addresses
  <2>2. /\ member' \in [Members -> Node] /\ member'[m] = Addresses!Unconfigured(manual)
        /\ \A n \in Members : n # m => member'[n] = member[n]
    BY <1>4, <2>1 DEF AddressesInv, AddressTypes
  <2>3. \A n, ip : Given(n, ip)' <=> Given(n, ip)
    BY <1>4 DEF Given
  <2>4. gate.token \in Nat
    BY DEF AddressesInv, AddressTypes, Gate
  <2>5. NodesInv'
    BY <1>4, <2>1, <2>2, <2>3, <2>4 DEF AddressesInv, NodesInv, Addresses!InSession
  <2>6. ASSUME NEW msg \in air' PROVE MessageOK(msg)'
    <3>1. /\ msg \in air /\ MessageOK(msg) /\ ~Addresses!Concerns(m, msg)
      BY <1>4 DEF AddressesInv, MessagesInv
    <3>2. msg \in Requests => msg.from \in Members /\ msg.from # m
      BY <3>1 DEF Requests, Addresses!Concerns
    <3>3. msg \in Configs => msg.addr \in Members /\ msg.addr # m
      BY <3>1 DEF Configs, Addresses!Concerns
    <3> QED
      BY <1>4, <2>2, <2>3, <3>1, <3>2, <3>3 DEF MessageOK
  <2> QED
    BY <1>1, <1>4, <2>2, <2>5, <2>6 DEF AddressesInv, AddressTypes, TableInv, LeasesInv, MessagesInv
<1>5. ASSUME NEW i \in Addresses!Slots, gate' = [gate EXCEPT !.bridge[i].due = TRUE],
             UNCHANGED <<member, database, leases, air>>
      PROVE  AddressesInv'
  <2>1. /\ gate' \in Gate /\ gate'.token = gate.token /\ gate'.dhcp = gate.dhcp
        /\ \A k \in Addresses!Slots : /\ gate'.bridge[k].addr = gate.bridge[k].addr
                            /\ gate'.bridge[k].ip = gate.bridge[k].ip
                            /\ gate'.bridge[k].valid = gate.bridge[k].valid
                            /\ gate'.bridge[k].request = gate.bridge[k].request
    BY <1>5 DEF AddressesInv, AddressTypes, Gate, BridgeEntry
  <2>2. \A n \in Members : StaysGiven(n)
    BY <1>5, <2>1 DEF StaysGiven
  <2>3. NodesInv' /\ MessagesInv'
    BY <1>5, <2>1, <2>2, GatewayStep
  <2> QED
    BY <1>1, <1>5, <2>1, <2>3 DEF AddressesInv, AddressTypes, TableInv, LeasesInv
<1>6. ASSUME gate' = Addresses!GatewayStarted(gate.token + 1, database), air' = {},
             UNCHANGED <<member, database, leases>>
      PROVE  AddressesInv'
  <2>1. /\ Addresses!EmptyBridge \in BridgeEntry /\ Addresses!EmptyBridge.addr = Addresses!NoOne
        /\ ~Addresses!EmptyBridge.request /\ ~Addresses!EmptyBridge.valid
    BY DEF Addresses!EmptyBridge, BridgeEntry, Addresses!Addresses
  <2>2. gate.token \in Nat /\ database \in Seq(Record)
    BY DEF AddressesInv, AddressTypes, Gate
  <2>3. \A i \in DOMAIN database : database[i] \in Record
    BY <2>2
  <2> DEFINE entry(i) == IF i \in DOMAIN database
                         THEN [Addresses!EmptyBridge EXCEPT !.addr = database[i].addr,
                                                                              !.ip = database[i].ip,
                                                  !.request = TRUE]
                         ELSE Addresses!EmptyBridge
  <2>4. ASSUME NEW i \in Addresses!Slots
        PROVE  /\ entry(i) \in BridgeEntry /\ ~entry(i).valid
               /\ i \in DOMAIN database =>
                     entry(i).addr = database[i].addr /\ entry(i).addr # Addresses!NoOne
               /\ i \notin DOMAIN database => entry(i).addr = Addresses!NoOne /\ ~entry(i).request
    <3>1. CASE i \in DOMAIN database
      <4>1. /\ database[i].addr \in Members /\ database[i].addr # Addresses!NoOne
            /\ database[i].ip \in Addresses!Addresses
        BY <2>3, <3>1 DEF Record, AddressesAssumption
      <4> QED
        BY <2>1, <3>1, <4>1 DEF BridgeEntry
    <3> QED
      BY <2>1, <3>1
  <2>5. /\ gate'.token = gate.token + 1 /\ ~gate'.configured /\ gate'.dhcp = Addresses!Idle
        /\ gate'.bridge = [i \in Addresses!Slots |-> entry(i)]
        /\ gate' = [token |-> gate.token + 1, configured |-> FALSE, dhcp |-> Addresses!Idle,
                    bridge |-> [i \in Addresses!Slots |-> entry(i)]]
    BY <1>6 DEF Addresses!GatewayStarted
  <2> HIDE DEF entry
  <2>6. gate' \in Gate
    BY <2>2, <2>4, <2>5 DEF Gate
  <2>7. TableInv'
    BY <1>6, <2>4, <2>5, SlotsAreNumbers DEF AddressesInv, TableInv
  <2>8. LeasesInv'
    BY <1>6, <2>4, <2>5 DEF AddressesInv, LeasesInv
  <2>9. NodesInv'
    <3>1. ASSUME NEW m \in Members PROVE member[m].token \in Nat /\ member[m].token <= gate.token
      BY DEF AddressesInv, AddressTypes, NodesInv, Node
    <3> QED
      BY <1>6, <2>2, <2>5, <3>1 DEF AddressesInv, NodesInv, Addresses!InSession
  <2> QED
    BY <1>1, <1>6, <2>6, <2>7, <2>8, <2>9 DEF AddressesInv, AddressTypes, MessagesInv
<1> QED
  BY <1>2, <1>3, <1>4, <1>5, <1>6 DEF Addresses!Disruption

LEMMA AddressesStep ==
    ASSUME AddressesAssumption, AddressesInv, [Addresses!Next]_addressVars
    PROVE  AddressesInv'
<1>1. ASSUME NEW msg \in air, Addresses!ReceiverThread(msg) PROVE AddressesInv'
  BY <1>1, MessageStep DEF Addresses!ReceiverThread, AddressesInv, AddressTypes
<1>2. CASE UNCHANGED addressVars
  BY <1>2 DEF addressVars, AddressesInv, AddressTypes, TableInv, LeasesInv, NodesInv, MessagesInv,
              MessageOK, Given, Addresses!InSession
<1> QED
  BY <1>1, <1>2, AskStep, RequestStep, TokenStep, PoolRequestStep, PoolDoneStep, DisruptionStep
     DEF Addresses!Next, Addresses!AddressStep, Addresses!DhcpThreads

LEMMA AddressesInvGives ==
    ASSUME AddressesAssumption, AddressesInv
    PROVE  Addresses!AddressingSound
<1>1. Addresses!TypeOK
  <2>1. \A m \in Members : member[m].ip \in Addresses!Addresses /\ member[m].token \in 0 .. gate.token
    BY DEF AddressesInv, AddressTypes, NodesInv, Node, Gate
  <2>2. \A i \in DOMAIN database : database[i] \in Record
    BY DEF AddressesInv, AddressTypes
  <2> QED
    BY <2>1, <2>2 DEF AddressesInv, AddressTypes, Gate, BridgeEntry, Record, Addresses!TypeOK
<1>2. ASSUME NEW m \in Members, NEW n \in Members, m # n, Addresses!InSession(m), Addresses!InSession(n)
      PROVE  member[m].ip # member[n].ip
  <2>1. \A a \in {m, n} : IF member[a].manual
                         THEN a \in DOMAIN ManualIp /\ member[a].ip = ManualIp[a]
                         ELSE Given(a, member[a].ip)
    BY <1>2 DEF AddressesInv, NodesInv
  <2>2. \A a \in {m, n} : ~member[a].manual =>
           \E i \in Addresses!Slots :
               /\ gate.bridge[i].addr = a /\ a # Addresses!NoOne /\ leases[i] = member[a].ip
               /\ leases[i] # Addresses!NoIp /\ leases[i] \in Pool
    BY <2>1 DEF Given, AddressesInv, LeasesInv, AddressTypes, AddressesAssumption
  <2> QED
    BY <1>2, <2>1, <2>2 DEF AddressesAssumption, AddressesInv, LeasesInv
<1> QED
  BY <1>1, <1>2 DEF Addresses!AddressingSound, Addresses!AddressesDiffer

-----------------------------------------------------------------------------
(* Leases *)

PCs == {Dhcp!None, "created", "backoff", "offer", "yield", "ack", "configured"}
DhcpTypes == {Dhcp!None, "DISCOVER", "OFFER", "REQUEST", "ACK", "NAK"}
LeaseAddresses == ServerPool \cup {Dhcp!None}
Buffers == [type : DhcpTypes, xid : Nat, ip : LeaseAddresses]
DhcpClients == [pc : PCs, owner : Dhcp!Owners, xid : Nat, ip : LeaseAddresses,
                buffer : Buffers, held : BOOLEAN]
DhcpPackets == [to : {"server", "client"}, type : DhcpTypes, owner : Dhcp!Owners, xid : Nat,
                ip : LeaseAddresses]
LeaseTables == [Dhcp!Owners -> LeaseAddresses]

-----------------------------------------------------------------------------
(* The inductive invariant, its parts for leases b and transactions up to x *)

\* An address that the server has leased to o, or none.
Leased(ip, o, b) == ip = Dhcp!None \/ ip = b[o]

\* An acknowledgment in the buffer that is about the transaction of the client is about
\* the lease of its owner, and so is the configuration made of it.
ClientOK(c, b, x) ==
    /\ c \in DhcpClients /\ c.xid <= x
    /\ c.pc # Dhcp!None => c.xid # 0
    /\ c.buffer.type = "ACK" /\ c.buffer.xid = c.xid => Leased(c.buffer.ip, c.owner, b)
    /\ c.pc = "configured" => Leased(c.ip, c.owner, b)

\* A message on its way.  Its transaction says whom it is about.
PacketOK(msg, b, x) ==
    /\ msg \in DhcpPackets /\ msg.xid \in 1 .. x
    /\ msg.type = "ACK" => Leased(msg.ip, msg.owner, b)
SamePacket(msg, c) == msg.xid = c.xid => msg.owner = c.owner
SameClient(c, d) == c.xid = d.xid /\ c.xid # 0 => c.owner = d.owner

ClientsInv ==
    /\ client \in [Dhcp!Threads -> DhcpClients]
    /\ \A t \in Dhcp!Threads : ClientOK(client[t], bindings, xids)
    /\ \A t \in Dhcp!Threads : client[t].owner \in Dhcp!OwnersOf(t) \cup {Dhcp!Own}
    /\ \A t, u \in Dhcp!Threads : SameClient(client[t], client[u])
WireInv ==
    /\ \A msg \in wire : PacketOK(msg, bindings, xids)
    /\ \A msg \in wire, t \in Dhcp!Threads : SamePacket(msg, client[t])
LeaseInv ==
    /\ wanted \subseteq Dhcp!Owners
    /\ address \in LeaseTables /\ bindings \in LeaseTables
    /\ Dhcp!AddressesAreLeased
BoundsInv == xids \in Nat /\ renewals \in 0 .. MaxRenewals /\ lapses \in 0 .. MaxLapses

DhcpInv == ClientsInv /\ WireInv /\ LeaseInv /\ BoundsInv

LEMMA DhcpInvGives == DhcpInv => Dhcp!AddressingSound
  BY DEF DhcpInv, ClientsInv, WireInv, LeaseInv, BoundsInv, ClientOK, PacketOK, DhcpClients,
         PCs, LeaseAddresses, LeaseTables, Dhcp!AddressingSound, Dhcp!TypeOK

-----------------------------------------------------------------------------
(* The parts *)

\* The server takes no lease back and transactions go up: what was in order stays so.
LEMMA OrderLasts ==
    ASSUME NEW b, NEW d, \A o \in Dhcp!Owners : b[o] = Dhcp!None \/ b[o] = d[o],
           NEW x \in Nat, NEW y \in Nat, x <= y
    PROVE  /\ \A c : ClientOK(c, b, x) => ClientOK(c, d, y)
           /\ \A msg : PacketOK(msg, b, x) => PacketOK(msg, d, y)
  BY DEF ClientOK, PacketOK, Leased, DhcpClients, DhcpPackets

\* A thread without a client is in order.
LEMMA NoClientOK ==
    ASSUME NEW b, NEW x \in Nat
    PROVE  /\ ClientOK(Dhcp!NoClient, b, x) /\ Dhcp!NoClient \in DhcpClients
           /\ Dhcp!NoClient.owner = Dhcp!Own /\ Dhcp!NoClient.xid = 0
           /\ Dhcp!NoClient.buffer.type # "ACK"
<1>1. Dhcp!NoMessage \in Buffers /\ Dhcp!NoMessage.type # "ACK"
  BY DEF Dhcp!NoMessage, Buffers, DhcpTypes, LeaseAddresses, Dhcp!None
<1>2. Dhcp!NoClient \in DhcpClients
  BY <1>1 DEF Dhcp!NoClient, DhcpClients, PCs, LeaseAddresses, Dhcp!Owners
<1>3. /\ Dhcp!NoClient.owner = Dhcp!Own /\ Dhcp!NoClient.xid = 0 /\ Dhcp!NoClient.pc = Dhcp!None
      /\ Dhcp!NoClient.buffer = Dhcp!NoMessage
  BY DEF Dhcp!NoClient
<1> QED
  BY <1>1, <1>2, <1>3 DEF ClientOK, Dhcp!None

\* A client that goes to another place of its thread.
LEMMA ClientAt ==
    ASSUME NEW b, NEW x \in Nat, NEW c, ClientOK(c, b, x), c.xid # 0,
           NEW pc \in PCs \ {"configured"}, NEW held \in BOOLEAN
    PROVE  /\ ClientOK([c EXCEPT !.pc = pc], b, x)
           /\ ClientOK([c EXCEPT !.pc = pc, !.held = held], b, x)
  BY DEF ClientOK, DhcpClients

\* The thread takes its packet from the buffer; only an acknowledgment of its own
\* transaction configures it.
LEMMA ProcessedOK ==
    ASSUME NEW b, NEW x \in Nat, NEW c, ClientOK(c, b, x), c.xid # 0
    PROVE  /\ ClientOK(Dhcp!Processed(c), b, x)
           /\ Dhcp!Processed(c).owner = c.owner /\ Dhcp!Processed(c).xid = c.xid
<1> DEFINE d == Dhcp!Processed(c)
<1>1. Dhcp!NoMessage \in Buffers /\ Dhcp!NoMessage.type = Dhcp!None
  BY DEF Dhcp!NoMessage, Buffers, DhcpTypes, LeaseAddresses
<1>2. c.buffer.ip \in LeaseAddresses
  BY DEF ClientOK, DhcpClients, Buffers
<1>3. d \in DhcpClients
  BY <1>1, <1>2 DEF Dhcp!Processed, ClientOK, DhcpClients, PCs
<1>4. /\ d.owner = c.owner /\ d.xid = c.xid /\ d.ip = c.buffer.ip /\ d.buffer = Dhcp!NoMessage
      /\ d.pc = "configured" => Dhcp!IsReply(c, "ACK")
  BY DEF Dhcp!Processed, ClientOK, DhcpClients
<1>5. Dhcp!IsReply(c, "ACK") => Leased(c.buffer.ip, c.owner, b)
  BY DEF Dhcp!IsReply, ClientOK
<1>6. d.pc = "configured" => Leased(d.ip, d.owner, b)
  BY <1>4, <1>5 DEF Leased
<1>7. d.buffer.type # "ACK"
  BY <1>1, <1>4 DEF Dhcp!None
<1> HIDE DEF d
<1>8. ClientOK(d, b, x)
  BY <1>3, <1>4, <1>6, <1>7 DEF ClientOK
<1> QED
  BY <1>4, <1>8 DEF d

LEMMA WaitsOK ==
    ASSUME NEW b, NEW x \in Nat, NEW c, ClientOK(c, b, x), c.xid # 0, NEW pc \in {"offer", "ack"}
    PROVE  /\ ClientOK(Dhcp!Waits(c, pc), b, x)
           /\ Dhcp!Waits(c, pc).owner = c.owner /\ Dhcp!Waits(c, pc).xid = c.xid
<1>1. pc \in PCs \ {"configured"}
  BY DEF PCs
<1>2. ClientOK([c EXCEPT !.pc = pc], b, x) /\ ClientOK([c EXCEPT !.pc = pc, !.held = FALSE], b, x)
  BY <1>1, ClientAt
<1>3. /\ [c EXCEPT !.pc = pc].owner = c.owner /\ [c EXCEPT !.pc = pc].xid = c.xid
      /\ [c EXCEPT !.pc = pc, !.held = FALSE].owner = c.owner
      /\ [c EXCEPT !.pc = pc, !.held = FALSE].xid = c.xid
  BY DEF ClientOK, DhcpClients
<1>4. CASE c.buffer = Dhcp!NoMessage
  BY <1>2, <1>3, <1>4 DEF Dhcp!Waits
<1>5. CASE c.buffer # Dhcp!NoMessage
  BY <1>2, <1>3, <1>5, ProcessedOK DEF Dhcp!Waits
<1> QED
  BY <1>4, <1>5

\* Clients that keep their owners and transactions stay in step with each other and with
\* the messages.
LEMMA ClientsStep ==
    ASSUME ClientsInv, WireInv, client' \in [Dhcp!Threads -> DhcpClients],
           \A u \in Dhcp!Threads : /\ ClientOK(client'[u], bindings', xids')
                              /\ client'[u].owner = client[u].owner
                              /\ client'[u].xid = client[u].xid
    PROVE  ClientsInv' /\ \A msg \in wire, u \in Dhcp!Threads : SamePacket(msg, client'[u])
  BY DEF ClientsInv, WireInv, SameClient, SamePacket

\* One client takes a step and the rest stays as it is.
LEMMA ClientStep ==
    ASSUME ClientsInv, WireInv, NEW t \in Dhcp!Threads, NEW c, ClientOK(c, bindings, xids),
           c.owner = client[t].owner, c.xid = client[t].xid,
           client' = [client EXCEPT ![t] = c], UNCHANGED <<bindings, xids>>
    PROVE  ClientsInv' /\ \A msg \in wire, u \in Dhcp!Threads : SamePacket(msg, client'[u])
<1>1. c \in DhcpClients
  BY DEF ClientOK
<1>2. client' \in [Dhcp!Threads -> DhcpClients]
  BY <1>1 DEF ClientsInv
<1>3. \A u \in Dhcp!Threads : /\ client'[u].owner = client[u].owner /\ client'[u].xid = client[u].xid
                         /\ ClientOK(client'[u], bindings', xids')
  BY DEF ClientsInv
<1> QED
  BY <1>2, <1>3, ClientsStep

-----------------------------------------------------------------------------
LEMMA InitOK == ASSUME DhcpAssumption, Dhcp!Init PROVE DhcpInv
<1>1. xids \in Nat
  BY DEF Dhcp!Init
<1>2. \A t \in Dhcp!Threads : client[t] = Dhcp!NoClient
  BY DEF Dhcp!Init
<1>3. client \in [Dhcp!Threads -> DhcpClients]
  BY <1>1, NoClientOK DEF Dhcp!Init
<1>4. ClientsInv
  BY <1>1, <1>2, <1>3, NoClientOK DEF ClientsInv, SameClient
<1> QED
  BY <1>4 DEF Dhcp!Init, DhcpInv, WireInv, LeaseInv, BoundsInv, DhcpAssumption, LeaseAddresses,
     LeaseTables,
              Dhcp!AddressesAreLeased

\* A client that starts, or one that ends: its transaction is a new one or none, so
\* nothing on its way is about it.
LEMMA NewClient ==
    ASSUME DhcpInv, NEW t \in Dhcp!Threads, NEW c, ClientOK(c, bindings, xids'),
           c.owner \in Dhcp!OwnersOf(t) \cup {Dhcp!Own}, c.xid = 0 \/ c.xid = xids + 1,
           xids' \in Nat, xids' >= xids, client' = [client EXCEPT ![t] = c],
           UNCHANGED <<bindings, wire>>
    PROVE  ClientsInv' /\ WireInv'
<1>1. c \in DhcpClients /\ c.xid \in Nat /\ xids \in Nat /\ xids + 1 # 0
  BY DEF ClientOK, DhcpClients, DhcpInv, BoundsInv
<1>2. client' \in [Dhcp!Threads -> DhcpClients]
  BY <1>1 DEF DhcpInv, ClientsInv
<1>3. \A u \in Dhcp!Threads : client'[u] = IF u = t THEN c ELSE client[u]
  BY DEF DhcpInv, ClientsInv
<1>4. \A u \in Dhcp!Threads : ClientOK(client[u], bindings, xids')
  BY <1>1, OrderLasts DEF DhcpInv, ClientsInv
<1>5. \A u \in Dhcp!Threads : client[u].xid \in Nat /\ client[u].xid < xids + 1
  BY <1>1 DEF DhcpInv, ClientsInv, ClientOK, DhcpClients
<1>6. \A u, v \in Dhcp!Threads : SameClient(client'[u], client'[v])
  <2>1. \A u \in Dhcp!Threads : c.xid = 0 \/ c.xid # client[u].xid
    BY <1>1, <1>5
  <2> QED
    BY <1>3, <2>1 DEF DhcpInv, ClientsInv, SameClient
<1>7. ClientsInv'
  <2>1. \A u \in Dhcp!Threads : ClientOK(client'[u], bindings', xids')
    BY <1>3, <1>4
  <2>2. \A u \in Dhcp!Threads : client'[u].owner \in Dhcp!OwnersOf(u) \cup {Dhcp!Own}
    BY <1>3 DEF DhcpInv, ClientsInv
  <2> QED
    BY <1>2, <1>6, <2>1, <2>2 DEF ClientsInv
<1>8. \A msg \in wire : PacketOK(msg, bindings, xids')
  BY <1>1, OrderLasts DEF DhcpInv, WireInv
<1>9. \A msg \in wire : msg.xid # c.xid
  <2>1. \A msg \in wire : msg.xid \in 1 .. xids
    BY DEF DhcpInv, WireInv, PacketOK
  <2> QED
    BY <1>1, <2>1
<1> QED
  BY <1>3, <1>7, <1>8, <1>9 DEF DhcpInv, WireInv, SamePacket

\* dhcp_t_create_client
LEMMA CreateOK ==
    ASSUME DhcpAssumption, DhcpInv, NEW t \in Dhcp!Threads, Dhcp!CreateClient(t)
    PROVE  DhcpInv'
<1>1. PICK o \in wanted \cap Dhcp!OwnersOf(t) :
        client' = [client EXCEPT ![t] =
                      [Dhcp!NoClient EXCEPT !.pc = "created", !.owner = o, !.xid = xids + 1]]
  BY DEF Dhcp!CreateClient
<1> DEFINE c == [Dhcp!NoClient EXCEPT !.pc = "created", !.owner = o, !.xid = xids + 1]
<1>2. xids \in Nat /\ xids' = xids + 1 /\ xids' \in Nat /\ xids' >= xids /\ xids + 1 # 0
  BY DEF Dhcp!CreateClient, DhcpInv, BoundsInv
<1>3. o \in Dhcp!Owners /\ o \in Dhcp!OwnersOf(t)
  BY DEF DhcpInv, LeaseInv
<1>4. Dhcp!NoClient \in DhcpClients /\ Dhcp!NoClient.buffer.type # "ACK"
  BY <1>2, NoClientOK
<1>5. c \in DhcpClients /\ c.owner = o /\ c.xid = xids + 1 /\ c.pc = "created"
      /\ c.buffer = Dhcp!NoClient.buffer
  BY <1>2, <1>3, <1>4 DEF DhcpClients, PCs
<1> HIDE DEF c
<1>6. ClientOK(c, bindings, xids')
  BY <1>2, <1>4, <1>5 DEF ClientOK
<1>7. client' = [client EXCEPT ![t] = c] /\ UNCHANGED <<wanted, address, bindings, wire, renewals,
                                 lapses>>
  BY <1>1 DEF c, Dhcp!CreateClient
<1>8. ClientsInv' /\ WireInv'
  BY <1>2, <1>3, <1>5, <1>6, <1>7, NewClient
<1> QED
  BY <1>2, <1>7, <1>8 DEF DhcpInv, LeaseInv, BoundsInv, Dhcp!AddressesAreLeased

\* sock_v_bind, and the restart of the gateway when the port is in use
LEMMA BindOK ==
    ASSUME DhcpAssumption, DhcpInv, NEW t \in Dhcp!Threads, Dhcp!Bind(t)
    PROVE  DhcpInv'
<1>1. /\ xids \in Nat /\ ClientOK(client[t], bindings, xids) /\ client \in [Dhcp!Threads -> DhcpClients]
      /\ UNCHANGED <<bindings, wire, xids, renewals, lapses>>
  BY DEF DhcpInv, BoundsInv, ClientsInv, Dhcp!Bind
<1>2. CASE /\ client' = [u \in Dhcp!Threads |-> Dhcp!NoClient]
           /\ wanted' = Dhcp!Owners /\ address' = [o \in Dhcp!Owners |-> Dhcp!None]
  <2>1. \A u \in Dhcp!Threads : client'[u] = Dhcp!NoClient
    BY <1>2
  <2>2. /\ ClientOK(Dhcp!NoClient, bindings', xids') /\ Dhcp!NoClient \in DhcpClients
        /\ Dhcp!NoClient.owner = Dhcp!Own /\ Dhcp!NoClient.xid = 0
    BY <1>1, NoClientOK
  <2>3. client' \in [Dhcp!Threads -> DhcpClients]
    BY <1>2, <2>2
  <2>4. ClientsInv'
    BY <2>1, <2>2, <2>3 DEF ClientsInv, SameClient
  <2>5. \A msg \in wire : PacketOK(msg, bindings, xids) /\ msg.xid # 0
    BY <1>1 DEF DhcpInv, WireInv, PacketOK
  <2>6. WireInv'
    BY <1>1, <2>1, <2>2, <2>5 DEF WireInv, SamePacket
  <2> QED
    BY <1>1, <1>2, <2>4, <2>6
       DEF DhcpInv, LeaseInv, BoundsInv, Dhcp!AddressesAreLeased, LeaseAddresses, LeaseTables
<1>3. CASE client' = [client EXCEPT ![t].pc = "backoff"] /\ UNCHANGED <<wanted, address>>
  <2> DEFINE c == [client[t] EXCEPT !.pc = "backoff"]
  <2>1. client[t].xid # 0 /\ "backoff" \in PCs \ {"configured"}
    BY <1>1 DEF Dhcp!Bind, ClientOK, Dhcp!None, PCs
  <2>2. ClientOK(c, bindings, xids)
    BY <1>1, <2>1, ClientAt
  <2>3. c.owner = client[t].owner /\ c.xid = client[t].xid
    BY <1>1 DEF DhcpClients
  <2>4. client' = [client EXCEPT ![t] = c]
    BY <1>1, <1>3
  <2> HIDE DEF c
  <2>5. ClientsInv' /\ \A msg \in wire, u \in Dhcp!Threads : SamePacket(msg, client'[u])
    BY <1>1, <2>2, <2>3, <2>4, ClientStep DEF DhcpInv
  <2> QED
    BY <1>1, <1>3, <2>5 DEF DhcpInv, WireInv, LeaseInv, BoundsInv, Dhcp!AddressesAreLeased
<1> QED
  BY <1>2, <1>3 DEF Dhcp!Bind

\* A step of the client that sends nothing and takes nothing over
LEMMA QuietOK ==
    ASSUME DhcpInv, NEW t \in Dhcp!Threads, NEW c, ClientOK(c, bindings, xids),
           c.owner = client[t].owner, c.xid = client[t].xid,
           client' = [client EXCEPT ![t] = c],
           UNCHANGED <<wanted, address, bindings, wire, xids, renewals>>, lapses' \in 0 .. MaxLapses
    PROVE  DhcpInv'
<1>1. ClientsInv' /\ \A msg \in wire, u \in Dhcp!Threads : SamePacket(msg, client'[u])
  BY ClientStep DEF DhcpInv
<1> QED
  BY <1>1 DEF DhcpInv, WireInv, LeaseInv, BoundsInv, Dhcp!AddressesAreLeased

LEMMA WaitedOK ==
    ASSUME DhcpAssumption, DhcpInv, NEW t \in Dhcp!Threads, Dhcp!Waited(t) \/ UNCHANGED lapses
    PROVE  lapses' \in 0 .. MaxLapses
  BY DEF DhcpAssumption, DhcpInv, BoundsInv, Dhcp!Waited

LEMMA SendsOK ==
    ASSUME DhcpAssumption, DhcpInv, NEW t \in Dhcp!Threads, client[t].pc \in {"backoff", "yield"},
           NEW type \in {"DISCOVER", "REQUEST"}, NEW pc \in {"offer", "ack"},
           Dhcp!Sends(t, type, pc), Dhcp!Waited(t) \/ UNCHANGED lapses
    PROVE  DhcpInv'
<1> DEFINE packet == [to |-> "server", type |-> type, owner |-> client[t].owner,
                      xid |-> client[t].xid, ip |-> client[t].ip]
           c == Dhcp!Waits(client[t], pc)
<1>1. /\ ClientOK(client[t], bindings, xids) /\ client[t] \in DhcpClients /\ client[t].xid # 0
      /\ client[t].xid \in 1 .. xids /\ xids \in Nat
  BY DEF DhcpInv, ClientsInv, ClientOK, DhcpClients, BoundsInv, Dhcp!None
<1>2. ClientOK(c, bindings, xids) /\ c.owner = client[t].owner /\ c.xid = client[t].xid
  BY <1>1, WaitsOK
<1>3. client' = [client EXCEPT ![t] = c] /\ wire' = wire \cup {packet}
      /\ UNCHANGED <<wanted, address, bindings, xids, renewals>>
  BY DEF Dhcp!Sends
<1>4. PacketOK(packet, bindings, xids) /\ packet.xid = client[t].xid /\ packet.owner = client[t].owner
  <2>1. packet \in DhcpPackets
    BY <1>1 DEF DhcpPackets, DhcpTypes, DhcpClients
  <2> QED
    BY <1>1, <2>1 DEF PacketOK
<1> HIDE DEF c, packet
<1>5. ClientsInv' /\ \A msg \in wire, u \in Dhcp!Threads : SamePacket(msg, client'[u])
  BY <1>2, <1>3, ClientStep DEF DhcpInv
<1>6. \A u \in Dhcp!Threads : SamePacket(packet, client'[u])
  <2>1. \A u \in Dhcp!Threads : client'[u].owner = client[u].owner /\ client'[u].xid = client[u].xid
    BY <1>2, <1>3 DEF DhcpInv, ClientsInv
  <2>2. \A u \in Dhcp!Threads : SameClient(client[t], client[u])
    BY DEF DhcpInv, ClientsInv
  <2> QED
    BY <1>1, <1>4, <2>1, <2>2 DEF SameClient, SamePacket
<1>7. WireInv'
  BY <1>3, <1>4, <1>5, <1>6 DEF DhcpInv, WireInv
<1>8. lapses' \in 0 .. MaxLapses
  BY WaitedOK
<1> QED
  BY <1>3, <1>5, <1>7, <1>8 DEF DhcpInv, LeaseInv, BoundsInv, Dhcp!AddressesAreLeased

\* The thread takes the lease that its client has, and the client is killed.
LEMMA TakeOK ==
    ASSUME DhcpAssumption, DhcpInv, NEW t \in Dhcp!Threads, Dhcp!TakeConfig(t)
    PROVE  DhcpInv'
<1> DEFINE o == client[t].owner
<1>1. /\ o \in Dhcp!Owners /\ client[t].ip \in LeaseAddresses
      /\ Leased(client[t].ip, o, bindings) /\ xids \in Nat
  BY DEF DhcpInv, ClientsInv, ClientOK, DhcpClients, Dhcp!TakeConfig, BoundsInv
<1>2. address' = [address EXCEPT ![o] = client[t].ip] /\ wanted' = wanted \ {o}
      /\ client' = [client EXCEPT ![t] = Dhcp!NoClient]
      /\ UNCHANGED <<bindings, wire, xids, renewals, lapses>>
  BY DEF Dhcp!TakeConfig
<1>3. LeaseInv'
  BY <1>1, <1>2 DEF DhcpInv, LeaseInv, Dhcp!AddressesAreLeased, Leased, LeaseTables
<1>4. ClientsInv' /\ WireInv'
  <2>1. /\ ClientOK(Dhcp!NoClient, bindings, xids')
        /\ Dhcp!NoClient.owner = Dhcp!Own /\ Dhcp!NoClient.xid = 0
        /\ xids' \in Nat /\ xids' >= xids
    BY <1>1, <1>2, NoClientOK
  <2> QED
    BY <1>2, <2>1, NewClient
<1> QED
  BY <1>2, <1>3, <1>4 DEF DhcpInv, BoundsInv

-----------------------------------------------------------------------------
(* The network and the server *)

\* A reply in the buffer of a client is about the lease of the owner of its transaction.
LEMMA DeliveredOK ==
    ASSUME DhcpInv, NEW msg \in wire, Dhcp!Delivered(msg), UNCHANGED <<bindings, xids>>
    PROVE  ClientsInv' /\ \A m \in wire, t \in Dhcp!Threads : SamePacket(m, client'[t])
<1> DEFINE taken == [type |-> msg.type, xid |-> msg.xid, ip |-> msg.ip]
<1>1. /\ taken \in Buffers
      /\ taken.type = "ACK" => Leased(taken.ip, msg.owner, bindings)
      /\ taken.xid = msg.xid
  BY DEF DhcpInv, WireInv, PacketOK, DhcpPackets, Buffers
<1>2. \A t \in Dhcp!Threads : ClientOK(client[t], bindings, xids) /\ SamePacket(msg, client[t])
  BY DEF DhcpInv, ClientsInv, WireInv
<1>3. \A t \in Dhcp!Threads : \/ client'[t] = client[t]
                         \/ client'[t] = [client[t] EXCEPT !.buffer = taken]
  BY DEF Dhcp!Delivered
<1> HIDE DEF taken
<1>4. \A t \in Dhcp!Threads : /\ ClientOK(client'[t], bindings, xids)
                         /\ client'[t].owner = client[t].owner /\ client'[t].xid = client[t].xid
  <2> SUFFICES ASSUME NEW t \in Dhcp!Threads
               PROVE  /\ ClientOK(client'[t], bindings, xids)
                      /\ client'[t].owner = client[t].owner /\ client'[t].xid = client[t].xid
    OBVIOUS
  <2> DEFINE c == [client[t] EXCEPT !.buffer = taken]
  <2>1. /\ c \in DhcpClients /\ c.owner = client[t].owner /\ c.xid = client[t].xid
        /\ c.pc = client[t].pc /\ c.ip = client[t].ip /\ c.buffer = taken
    BY <1>1, <1>2 DEF ClientOK, DhcpClients
  <2> HIDE DEF c
  <2>2. ClientOK(c, bindings, xids)
    BY <1>1, <1>2, <2>1 DEF ClientOK, SamePacket
  <2>3. client'[t] = client[t] \/ client'[t] = c
    BY <1>3 DEF c
  <2> QED
    BY <1>2, <2>1, <2>2, <2>3
<1>5. client' \in [Dhcp!Threads -> DhcpClients]
  BY <1>4 DEF Dhcp!Delivered, ClientOK
<1> QED
  BY <1>4, <1>5, ClientsStep DEF DhcpInv

LEMMA DeliverOK ==
    ASSUME DhcpAssumption, DhcpInv, NEW msg \in wire, Dhcp!Deliver(msg) \/ Dhcp!Lapse(msg)
    PROVE  DhcpInv'
<1>1. /\ UNCHANGED <<wanted, address, bindings, xids, renewals>>
      /\ wire' \subseteq wire /\ lapses' \in 0 .. MaxLapses
      /\ UNCHANGED client \/ Dhcp!Delivered(msg)
  BY DEF Dhcp!Deliver, Dhcp!Lapse, DhcpInv, BoundsInv, DhcpAssumption
<1>2. ClientsInv' /\ \A m \in wire, t \in Dhcp!Threads : SamePacket(m, client'[t])
  <2>1. CASE UNCHANGED client
    BY <1>1, <2>1 DEF DhcpInv, ClientsInv, WireInv
  <2>2. CASE Dhcp!Delivered(msg)
    BY <1>1, <2>2, DeliveredOK
  <2> QED
    BY <1>1, <2>1, <2>2
<1>3. WireInv'
  BY <1>1, <1>2 DEF DhcpInv, WireInv
<1> QED
  BY <1>1, <1>2, <1>3 DEF DhcpInv, LeaseInv, BoundsInv, Dhcp!AddressesAreLeased

\* The server never takes a lease back, so that what was leased stays leased.
LEMMA ServeOK ==
    ASSUME DhcpAssumption, DhcpInv, NEW msg \in wire, Dhcp!Serve(msg)
    PROVE  DhcpInv'
<1> DEFINE o == msg.owner
<1>1. /\ o \in Dhcp!Owners /\ msg.ip \in LeaseAddresses /\ msg.xid \in 1 .. xids /\ msg.xid \in Nat
      /\ xids \in Nat /\ bindings \in LeaseTables
  BY DEF DhcpInv, WireInv, PacketOK, DhcpPackets, BoundsInv, LeaseInv
<1>2. UNCHANGED <<client, wanted, address, xids, renewals, lapses>>
  BY DEF Dhcp!Serve
<1>3. \E type \in {"OFFER", "ACK", "NAK"}, ip \in LeaseAddresses :
         /\ Dhcp!Reply(msg, type, ip)
         /\ bindings' \in LeaseTables
         /\ \A k \in Dhcp!Owners : bindings[k] = Dhcp!None \/ bindings[k] = bindings'[k]
         /\ type = "ACK" => bindings'[o] = ip
  <2>1. CASE \E ip \in ServerPool : Dhcp!Reply(msg, "OFFER", ip) /\ UNCHANGED bindings
    BY <1>1, <2>1 DEF LeaseAddresses
  <2>2. CASE /\ bindings[o] \in {Dhcp!None, msg.ip}
             /\ bindings' = [bindings EXCEPT ![o] = msg.ip] /\ Dhcp!Reply(msg, "ACK", msg.ip)
    <3>1. /\ bindings' \in LeaseTables /\ bindings'[o] = msg.ip
          /\ \A k \in Dhcp!Owners : bindings[k] = Dhcp!None \/ bindings[k] = bindings'[k]
      BY <1>1, <2>2 DEF LeaseTables
    <3> QED
      BY <1>1, <2>2, <3>1
  <2>3. CASE Dhcp!Reply(msg, "NAK", Dhcp!None) /\ UNCHANGED bindings
    BY <1>1, <2>3 DEF LeaseAddresses
  <2> QED
    BY <2>1, <2>2, <2>3 DEF Dhcp!Serve
<1>4. PICK type \in {"OFFER", "ACK", "NAK"}, ip \in LeaseAddresses :
         /\ Dhcp!Reply(msg, type, ip)
         /\ bindings' \in LeaseTables
         /\ \A k \in Dhcp!Owners : bindings[k] = Dhcp!None \/ bindings[k] = bindings'[k]
         /\ type = "ACK" => bindings'[o] = ip
  BY <1>3
<1> DEFINE reply == [to |-> "client", type |-> type, owner |-> o, xid |-> msg.xid, ip |-> ip]
<1>5. wire' = (wire \ {msg}) \cup {reply}
  BY <1>4 DEF Dhcp!Reply
<1>6. PacketOK(reply, bindings', xids') /\ reply.xid = msg.xid /\ reply.owner = o
  <2>1. reply \in DhcpPackets /\ reply.xid \in 1 .. xids' /\ reply.ip = ip
        /\ reply.type = type /\ reply.owner = o
    BY <1>1, <1>2 DEF DhcpPackets, DhcpTypes
  <2> QED
    BY <1>4, <2>1 DEF PacketOK, Leased
<1> HIDE DEF reply
<1>7. /\ \A t \in Dhcp!Threads : ClientOK(client'[t], bindings', xids')
      /\ \A m \in wire : PacketOK(m, bindings', xids')
  BY <1>1, <1>2, <1>4, OrderLasts DEF DhcpInv, ClientsInv, WireInv
<1>8. ClientsInv' /\ \A m \in wire, u \in Dhcp!Threads : SamePacket(m, client'[u])
  BY <1>2, <1>7, ClientsStep DEF DhcpInv, ClientsInv
<1>9. WireInv'
  <2>1. \A t \in Dhcp!Threads : SamePacket(reply, client'[t])
    BY <1>6, <1>8 DEF SamePacket
  <2> QED
    BY <1>5, <1>6, <1>7, <1>8, <2>1 DEF WireInv
<1>10. Dhcp!AddressesAreLeased'
  BY <1>2, <1>4 DEF DhcpInv, LeaseInv, Dhcp!AddressesAreLeased
<1> QED
  BY <1>2, <1>4, <1>8, <1>9, <1>10 DEF DhcpInv, LeaseInv, BoundsInv

-----------------------------------------------------------------------------
\* Every step keeps the invariant.
LEMMA DhcpThreadOK ==
    ASSUME DhcpAssumption, DhcpInv, NEW t \in Dhcp!Threads, Dhcp!DhcpThread(t)
    PROVE  DhcpInv'
<1>1. /\ ClientOK(client[t], bindings, xids) /\ client \in [Dhcp!Threads -> DhcpClients]
      /\ client[t] \in DhcpClients /\ xids \in Nat
  BY DEF DhcpInv, ClientsInv, BoundsInv
<1>2. CASE Dhcp!Discover(t) \/ Dhcp!SendRequest(t)
  BY <1>2, SendsOK DEF Dhcp!Discover, Dhcp!SendRequest
<1>3. CASE Dhcp!Process(t)
  <2>1. client[t].xid # 0
    BY <1>1, <1>3 DEF Dhcp!Process, ClientOK, Dhcp!None
  <2>2. /\ ClientOK(Dhcp!Processed(client[t]), bindings, xids)
        /\ Dhcp!Processed(client[t]).owner = client[t].owner
        /\ Dhcp!Processed(client[t]).xid = client[t].xid
    BY <1>1, <2>1, ProcessedOK
  <2>3. lapses' \in 0 .. MaxLapses
    BY <1>3, WaitedOK DEF Dhcp!Process
  <2>4. client' = [client EXCEPT ![t] = Dhcp!Processed(client[t])]
        /\ UNCHANGED <<wanted, address, bindings, wire, xids, renewals>>
    BY <1>3 DEF Dhcp!Process
  <2> QED
    BY <2>2, <2>3, <2>4, QuietOK
<1>4. CASE Dhcp!Timeout(t)
  <2> DEFINE c == [client[t] EXCEPT !.pc = "backoff"]
  <2>1. client[t].xid # 0 /\ "backoff" \in PCs \ {"configured"}
    BY <1>1, <1>4 DEF Dhcp!Timeout, ClientOK, Dhcp!None, PCs
  <2>2. ClientOK(c, bindings, xids)
    BY <1>1, <2>1, ClientAt
  <2>3. c.owner = client[t].owner /\ c.xid = client[t].xid
    BY <1>1 DEF DhcpClients
  <2>4. client' = [client EXCEPT ![t] = c] /\ UNCHANGED <<wanted, address, bindings, wire, xids,
                                   renewals>>
    BY <1>1, <1>4 DEF Dhcp!Timeout
  <2>5. lapses' \in 0 .. MaxLapses
    BY <1>4, WaitedOK DEF Dhcp!Timeout
  <2> HIDE DEF c
  <2> QED
    BY <2>2, <2>3, <2>4, <2>5, QuietOK
<1> QED
  BY <1>2, <1>3, <1>4, CreateOK, BindOK, TakeOK DEF Dhcp!DhcpThread

LEMMA DhcpInvStep ==
    ASSUME DhcpAssumption, DhcpInv, [Dhcp!Next]_dhcpVars
    PROVE  DhcpInv'
<1>1. ASSUME NEW o \in Dhcp!Owners, Dhcp!LeaseNearlyOver(o) PROVE DhcpInv'
  BY <1>1 DEF Dhcp!LeaseNearlyOver, DhcpAssumption, DhcpInv, ClientsInv, WireInv, LeaseInv, BoundsInv,
              Dhcp!AddressesAreLeased
<1>2. CASE UNCHANGED dhcpVars
  BY <1>2 DEF dhcpVars, DhcpInv, ClientsInv, WireInv, LeaseInv, BoundsInv, Dhcp!AddressesAreLeased
<1> QED
  BY <1>1, <1>2, DhcpThreadOK, DeliverOK, ServeOK DEF Dhcp!Next

Known == UNION {Arp!Macs(h) : h \in LanHosts}

EntryOK(e) ==
    /\ e \in [ip : LanHosts \cup {Arp!ZeroIp}, mac : Known \cup {Arp!ZeroMac}, age : 0 .. MaxArpAge]
    /\ e.ip \in LanHosts => e.mac \in Arp!Macs(e.ip)

Jobs == [pc : {"idle", "ask", "wait", "send"}, ip : LanHosts \cup {Arp!ZeroIp},
         mac : Known \cup {Arp!Uninitialised}, tries : 0 .. ArpTries]

JobOK(j) ==
    /\ j \in Jobs
    /\ j.pc # "idle" => j.ip \in LanHosts
    /\ j.pc \in {"ask", "wait"} => j.tries # 0 /\ j.mac = Arp!Uninitialised
    /\ j.pc = "send" => j.mac \in Arp!Macs(j.ip) \/ (j.mac = Arp!Uninitialised /\ j.tries = 0)

ReplyOK(msg) == msg.ip \in LanHosts /\ msg.mac \in Arp!Macs(msg.ip)

CacheInv == arpCache = [i \in Arp!CacheIndexes |-> arpCache[i]] /\ \A i \in Arp!CacheIndexes : EntryOK(arpCache[i])
ThreadInv == ethTx = [t \in TxThreads |-> ethTx[t]] /\ \A t \in TxThreads : JobOK(ethTx[t])
LanInv == /\ \A msg \in lan : ReplyOK(msg)
          /\ hostMac \in [LanHosts -> 0 .. MaxReplacements] /\ unheard \in 0 .. MaxUnheard

\* Every entry of a host holds an address it has or had, and so does every reply; a thread
\* that waits still has a try.
ArpInv == CacheInv /\ ThreadInv /\ LanInv

-----------------------------------------------------------------------------
\* A set of numbers that is not empty has a least one, which is its Min.
LEMMA MinIsMember == ASSUME NEW S \in SUBSET Nat, S # {} PROVE Arp!Min(S) \in S
<1>1. PICK x \in S : \A y \in S : ~(<<y, x>> \in OpToRel(<, Nat))
  BY NatLessThanWellFounded, WFMin
<1>2. ASSUME NEW y \in S PROVE ~(y < x)
  BY <1>1, Zenon DEF OpToRel
<1>3. \A y \in S : x <= y
  BY <1>2
<1> QED
  BY <1>3 DEF Arp!Min

\* An address that is found is one the host has or had.
LEMMA LookupIsOfHost ==
    ASSUME ArpAssumption, ArpInv, NEW h \in LanHosts, Arp!Found(h)
    PROVE  Arp!Lookup(h) \in Arp!Macs(h)
<1> DEFINE S == {i \in Arp!CacheIndexes : arpCache[i].ip = h}
<1>1. S \in SUBSET Nat /\ S # {}
  BY DEF Arp!Found, Arp!CacheIndexes
<1>2. Arp!Min(S) \in S
  BY <1>1, MinIsMember
<1> QED
  BY <1>2 DEF Arp!Lookup, ArpInv, CacheInv, EntryOK

\* A job with other tries is still a job.
LEMMA JobWith ==
    ASSUME NEW j \in Jobs, NEW pc \in {"idle", "ask", "wait", "send"}, NEW n \in 0 .. ArpTries
    PROVE  /\ [j EXCEPT !.pc = pc, !.tries = n] \in Jobs
           /\ [j EXCEPT !.tries = n, !.pc = pc] \in Jobs
  BY DEF Jobs

\* The first answer, or the cache, sends the packet on.
LEMMA ResolvedIsOK ==
    ASSUME ArpAssumption, ArpInv, NEW j, JobOK(j), j.ip \in LanHosts, Arp!Found(j.ip)
    PROVE  JobOK(Arp!Resolved(j))
<1>1. Arp!Lookup(j.ip) \in Arp!Macs(j.ip) /\ Arp!Lookup(j.ip) \in Known
  BY LookupIsOfHost DEF Known
<1>2. Arp!Resolved(j) \in Jobs
  BY <1>1 DEF Arp!Resolved, JobOK, Jobs
<1>3. Arp!Resolved(j).pc = "send" /\ Arp!Resolved(j).ip = j.ip /\ Arp!Resolved(j).mac = Arp!Lookup(j.ip)
  BY DEF Arp!Resolved, JobOK, Jobs
<1>4. Arp!Resolved(j).mac \in Arp!Macs(Arp!Resolved(j).ip)
  BY <1>1, <1>3, Zenon
<1> QED
  BY <1>2, <1>3, <1>4 DEF JobOK

\* A step of one thread that leaves its job in order leaves all of them in order.
LEMMA ThreadStep ==
    ASSUME ArpInv, NEW t \in TxThreads, NEW j, JobOK(j), ethTx' = [ethTx EXCEPT ![t] = j]
    PROVE  ThreadInv'
  BY DEF ArpInv, ThreadInv

\* gateway_v_send_ethernet
LEMMA LookUpStep ==
    ASSUME ArpAssumption, ArpInv, NEW t \in TxThreads, NEW h \in LanHosts, Arp!Send(t, h)
    PROVE  ArpInv'
<1> DEFINE job == [Arp!Idle EXCEPT !.ip = h]
           next == IF Arp!Found(h) THEN Arp!Resolved(job) ELSE [job EXCEPT !.pc = "ask",
                                                                !.tries = ArpTries]
<1>1. JobOK(job) /\ job.ip = h
  BY DEF JobOK, Jobs, Arp!Idle, ArpAssumption
<1>2. JobOK(next)
  <2>1. CASE Arp!Found(h)
    BY <1>1, <2>1, ResolvedIsOK
  <2>2. CASE ~Arp!Found(h)
    <3>1. next \in Jobs
      <4>1. job \in Jobs /\ ArpTries \in 0 .. ArpTries
        BY <1>1 DEF JobOK, ArpAssumption
      <4>2. [job EXCEPT !.pc = "ask", !.tries = ArpTries] \in Jobs
        BY <4>1, JobWith
      <4> QED
        BY <2>2, <4>2
    <3>2. /\ next.pc = "ask" /\ next.ip = h
          /\ next.mac = Arp!Uninitialised /\ next.tries = ArpTries
      BY <2>2 DEF Arp!Idle
    <3> QED
      BY <3>1, <3>2 DEF JobOK, ArpAssumption
  <2> QED
    BY <2>1, <2>2
<1>3. ethTx' = [ethTx EXCEPT ![t] = next]
  BY DEF Arp!Send
<1>4. ThreadInv'
  BY <1>2, <1>3, ThreadStep
<1> QED
  BY <1>4 DEF Arp!Send, ArpInv, CacheInv, LanInv

\* One step of eth_tx_thread
LEMMA EthTxStep ==
    ASSUME ArpAssumption, ArpInv, NEW t \in TxThreads, Arp!EthTxThread(t)
    PROVE  ArpInv'
<1>1. JobOK(ethTx[t])
  BY DEF ArpInv, ThreadInv
<1>2. CASE Arp!Ask(t)
  <2> DEFINE next == [ethTx[t] EXCEPT !.pc = "wait"]
             reply == [ip |-> ethTx[t].ip, mac |-> Arp!MacOf(ethTx[t].ip, hostMac[ethTx[t].ip])]
  <2>1. JobOK(next)
    BY <1>1, <1>2 DEF JobOK, Jobs, Arp!Ask
  <2>2. ethTx' = [ethTx EXCEPT ![t] = next]
    BY <1>2 DEF Arp!Ask, ArpInv, ThreadInv
  <2>3. ReplyOK(reply)
    BY <1>1, <1>2 DEF JobOK, Arp!Ask, ReplyOK, ArpInv, LanInv, Arp!Macs
  <2>4. ThreadInv'
    BY <2>1, <2>2, ThreadStep
  <2>5. LanInv'
    BY <1>2, <2>3 DEF Arp!Ask, ArpInv, LanInv
  <2> QED
    BY <1>2, <2>4, <2>5 DEF Arp!Ask, ArpInv, CacheInv
<1>3. CASE Arp!Answered(t)
  <2>1. JobOK(Arp!Resolved(ethTx[t]))
    BY <1>1, <1>3, ResolvedIsOK DEF Arp!Answered, JobOK
  <2>2. ethTx' = [ethTx EXCEPT ![t] = Arp!Resolved(ethTx[t])]
    BY <1>3 DEF Arp!Answered
  <2>3. ThreadInv'
    BY <2>1, <2>2, ThreadStep
  <2> QED
    BY <1>3, <2>3 DEF Arp!Answered, ArpInv, CacheInv, LanInv
<1>4. CASE Arp!TimedOut(t)
  <2> DEFINE next == [ethTx[t] EXCEPT !.tries = ethTx[t].tries - 1,
                                      !.pc = IF ethTx[t].tries = 1 THEN "send" ELSE "ask"]
  <2>1. JobOK(next)
    <3>1. ethTx[t].tries \in 1 .. ArpTries /\ ethTx[t].ip \in LanHosts
          /\ ethTx[t].mac = Arp!Uninitialised /\ ethTx[t] \in Jobs
      BY <1>1, <1>4 DEF JobOK, Jobs, Arp!TimedOut, ArpAssumption
    <3>2. next \in Jobs
      <4>1. ethTx[t].tries - 1 \in 0 .. ArpTries
        BY <3>1 DEF ArpAssumption
      <4>2. (IF ethTx[t].tries = 1 THEN "send" ELSE "ask") \in {"idle", "ask", "wait", "send"}
        OBVIOUS
      <4> QED
        BY <3>1, <4>1, <4>2, JobWith
    <3>3. /\ next.pc = IF ethTx[t].tries = 1 THEN "send" ELSE "ask"
          /\ next.ip = ethTx[t].ip /\ next.mac = Arp!Uninitialised
          /\ next.tries = ethTx[t].tries - 1
      BY <3>1 DEF Jobs
    <3> QED
      BY <3>1, <3>2, <3>3 DEF JobOK, ArpAssumption
  <2>2. ethTx' = [ethTx EXCEPT ![t] = next]
    BY <1>4 DEF Arp!TimedOut, ArpInv, ThreadInv
  <2>3. ThreadInv'
    BY <2>1, <2>2, ThreadStep
  <2>4. LanInv'
    BY <1>4 DEF Arp!TimedOut, ArpInv, LanInv, ArpAssumption
  <2> QED
    BY <1>4, <2>3, <2>4 DEF Arp!TimedOut, ArpInv, CacheInv
<1>5. CASE Arp!Transmit(t)
  <2>1. JobOK(Arp!Idle)
    BY DEF JobOK, Jobs, Arp!Idle, ArpAssumption
  <2>2. ThreadInv'
    BY <1>5, <2>1, ThreadStep DEF Arp!Transmit
  <2> QED
    BY <1>5, <2>2 DEF Arp!Transmit, ArpInv, CacheInv, LanInv
<1> QED
  BY <1>2, <1>3, <1>4, <1>5 DEF Arp!EthTxThread

\* arp_v_recv: whichever entry is replaced, it holds what the host said.
LEMMA ReceiveReplyStep ==
    ASSUME ArpAssumption, ArpInv, NEW msg \in lan, Arp!ReceiveReply(msg)
    PROVE  ArpInv'
<1>1. ReplyOK(msg) /\ msg.mac \in Known
  BY DEF ArpInv, LanInv, ReplyOK, Known
<1>2. \A e : EntryOK(Arp!Learned(e, msg))
  BY <1>1 DEF EntryOK, Arp!Learned, ReplyOK, ArpAssumption
<1>3. CacheInv'
  BY <1>2 DEF Arp!ReceiveReply, ArpInv, CacheInv
<1> QED
  BY <1>3 DEF Arp!ReceiveReply, ArpInv, ThreadInv, LanInv

\* arp_aging_thread
LEMMA AgingStep ==
    ASSUME ArpAssumption, ArpInv, Arp!AgingThread
    PROVE  ArpInv'
<1>1. \A e : EntryOK(e) => EntryOK(Arp!Aged(e))
  BY DEF EntryOK, Arp!Aged, Arp!Empty, ArpAssumption
<1>2. CacheInv'
  BY <1>1 DEF Arp!AgingThread, ArpInv, CacheInv
<1> QED
  BY <1>2 DEF Arp!AgingThread, ArpInv, ThreadInv, LanInv

\* The invariant holds in every state.
LEMMA ArpInvHolds ==
    ASSUME ArpAssumption
    PROVE  (Arp!Init => ArpInv) /\ (ArpInv /\ [Arp!Next]_arpVars => ArpInv')
<1>1. Arp!Init => ArpInv
  <2>1. EntryOK(Arp!Empty(0)) /\ JobOK(Arp!Idle)
    BY DEF EntryOK, Arp!Empty, JobOK, Jobs, Arp!Idle, ArpAssumption
  <2> QED
    BY <2>1 DEF Arp!Init, ArpInv, CacheInv, ThreadInv, LanInv, ArpAssumption
<1>2. ASSUME ArpInv, Arp!Next PROVE ArpInv'
  <2>1. ASSUME NEW msg \in lan, Arp!MessageLost(msg) PROVE ArpInv'
    BY <1>2, <2>1 DEF Arp!MessageLost, ArpInv, CacheInv, ThreadInv, LanInv, ArpAssumption
  <2>2. ASSUME NEW h \in LanHosts, Arp!HostReplaced(h) PROVE ArpInv'
    BY <1>2, <2>2 DEF Arp!HostReplaced, ArpInv, CacheInv, ThreadInv, LanInv, ArpAssumption
  <2> QED
    BY <1>2, <2>1, <2>2, LookUpStep, EthTxStep, ReceiveReplyStep, AgingStep DEF Arp!Next
<1>3. ASSUME ArpInv, UNCHANGED arpVars PROVE ArpInv'
  BY <1>3 DEF arpVars, ArpInv, CacheInv, ThreadInv, LanInv
<1> QED
  BY <1>1, <1>2, <1>3

LEMMA ArpInvGives == ArpInv => Arp!ForwardingSound
  BY DEF ArpInv, CacheInv, ThreadInv, LanInv, EntryOK, JobOK, Jobs,
         Arp!ForwardingSound, Arp!TypeOK, Arp!FramesFindHosts

-----------------------------------------------------------------------------
(* The bridge *)

\* What is left on the mesh of a local broadcast cannot take one more hop.
Confined(c) ==
    c.packet.port = "local" /\ c.packet.origin = "lan" =>
        \/ c.on = "lan" /\ "mesh" \notin c.via
        \/ c.on = "mesh" /\ c.ttl <= 1

BridgingInv == Bridging!TypeOK /\ \A c \in copies : Confined(c)

IsCopy(c) == /\ c.packet \in IpPackets /\ c.to \in Gateways
             /\ c.on \in Bridging!Media /\ c.ttl \in 0 .. DefaultTtl /\ c.via \subseteq Bridging!Media

-----------------------------------------------------------------------------
\* Every copy is sent on the medium it is for, and remembers it.
LEMMA CopyIs ==
    ASSUME NEW packet, NEW on, NEW ttl, NEW via, NEW except,
           NEW c \in Bridging!Copies(packet, on, ttl, via, except)
    PROVE  /\ c.packet = packet /\ c.on = on /\ c.ttl = ttl /\ c.via = via \cup {on}
           /\ c.to \in Bridging!Takers(packet, on) \ except
  BY DEF Bridging!Copies

\* Only gateways take copies.
LEMMA TakersAreGateways ==
    ASSUME NEW packet, NEW on
    PROVE  Bridging!Takers(packet, on) \subseteq Gateways
  BY DEF Bridging!Takers

\* process_ttl takes one from the time to live and stops at 1.
LEMMA LeftIs ==
    ASSUME NEW ttl \in Nat, NEW on, Bridging!Lives(ttl, on)
    PROVE  ttl > 1 /\ Bridging!Left(ttl) = ttl - 1
  BY DEF Bridging!Lives, Bridging!Left

-----------------------------------------------------------------------------
\* A packet that appears on a medium, or is sent by a gateway, starts confined.
LEMMA StartsConfined ==
    ASSUME BridgingAssumption, NEW packet \in IpPackets, NEW on \in Bridging!Media,
           packet.origin = "lan" => on = "lan",
           NEW except, NEW c \in Bridging!Copies(packet, on, DefaultTtl, {}, except)
    PROVE  IsCopy(c) /\ Confined(c)
  BY CopyIs, TakersAreGateways DEF BridgingAssumption, IsCopy, Confined, Bridging!Media

\* The step from the mesh to the Ethernet: a local broadcast has no hop left.
LEMMA FromMeshConfined ==
    ASSUME BridgingAssumption, BridgingInv, NEW c \in copies, c.on = "mesh",
           NEW d \in Bridging!PassedOn(c, "lan", c.ttl)
    PROVE  IsCopy(d) /\ Confined(d)
<1>1. IsCopy(c) /\ Confined(c)
  BY DEF BridgingInv, Bridging!TypeOK, IsCopy
<1>2. /\ Bridging!Lives(c.ttl, "lan")
      /\ d \in Bridging!Copies(c.packet, "lan", Bridging!Left(c.ttl), c.via, {c.to})
  BY DEF Bridging!PassedOn
<1>3. c.ttl > 1 /\ Bridging!Left(c.ttl) = c.ttl - 1
  BY <1>1, <1>2, LeftIs DEF IsCopy, BridgingAssumption
<1>4. ~(d.packet.port = "local" /\ d.packet.origin = "lan")
  BY <1>1, <1>2, <1>3, CopyIs DEF Confined, IsCopy, BridgingAssumption
<1> QED
  BY <1>1, <1>2, <1>3, <1>4, CopyIs, TakersAreGateways
     DEF IsCopy, Confined, Bridging!Media, BridgingAssumption

\* The step from the Ethernet to the mesh: a local broadcast has one hop left.
LEMMA FromEthernetConfined ==
    ASSUME BridgingAssumption, BridgingInv, NEW c \in copies,
           NEW d \in Bridging!PassedOn(c, "mesh", Bridging!LanTtl(c))
    PROVE  IsCopy(d) /\ Confined(d)
<1>1. IsCopy(c)
  BY DEF BridgingInv, Bridging!TypeOK, IsCopy
<1>2. /\ Bridging!Lives(Bridging!LanTtl(c), "mesh")
      /\ d \in Bridging!Copies(c.packet, "mesh", Bridging!Left(Bridging!LanTtl(c)), c.via, {c.to})
  BY DEF Bridging!PassedOn
<1>3. Bridging!LanTtl(c) \in 0 .. DefaultTtl /\ (c.packet.port = "local" => Bridging!LanTtl(c) = 2)
  BY <1>1 DEF Bridging!LanTtl, IsCopy, BridgingAssumption
<1>4. Bridging!LanTtl(c) > 1 /\ Bridging!Left(Bridging!LanTtl(c)) = Bridging!LanTtl(c) - 1
  BY <1>2, <1>3, LeftIs DEF BridgingAssumption
<1> QED
  BY <1>1, <1>2, <1>3, <1>4, CopyIs, TakersAreGateways
     DEF IsCopy, Confined, Bridging!Media, BridgingAssumption

\* Every step keeps all copies confined.
LEMMA BridgingInvStep ==
    ASSUME BridgingAssumption, BridgingInv, [Bridging!Next]_bridgingVars
    PROVE  BridgingInv'
<1>1. SUFFICES unsent' \in BOOLEAN /\ \A d \in copies' : IsCopy(d) /\ Confined(d)
  BY DEF BridgingInv, Bridging!TypeOK, IsCopy, Confined
<1>2. unsent \in BOOLEAN /\ \A c \in copies : IsCopy(c) /\ Confined(c)
  BY DEF BridgingInv, Bridging!TypeOK, IsCopy
<1>3. ASSUME NEW packet \in IpPackets, Bridging!Appear(packet)
      PROVE  unsent' \in BOOLEAN /\ \A d \in copies' : IsCopy(d) /\ Confined(d)
  <2>1. CASE /\ packet.dest = Bridging!Broadcast \/ packet.origin = "lan"
             /\ copies' = copies \cup Bridging!Copies(packet, packet.origin, DefaultTtl, {}, {})
    BY <1>2, <1>3, <2>1, StartsConfined DEF Bridging!Appear
  <2>2. CASE \E c \in Bridging!Copies(packet, "mesh", DefaultTtl, {}, {}) :
                packet.origin = "mesh" /\ copies' = copies \cup {c}
    BY <1>2, <1>3, <2>2, StartsConfined DEF Bridging!Appear, Bridging!Media
  <2> QED
    BY <1>3, <2>1, <2>2 DEF Bridging!Appear
<1>4. ASSUME NEW packet \in IpPackets, NEW g \in Gateways, Bridging!SendMessage(g, packet)
      PROVE  unsent' \in BOOLEAN /\ \A d \in copies' : IsCopy(d) /\ Confined(d)
  <2>1. packet.origin # "lan"
    BY <1>4 DEF Bridging!SendMessage, BridgingAssumption, Bridging!Media
  <2>2. \A d \in copies' : \/ d \in copies
                           \/ d \in Bridging!Copies(packet, "mesh", DefaultTtl, {}, {g})
                           \/ d \in Bridging!Copies(packet, "lan", DefaultTtl, {}, {g})
    BY <1>4 DEF Bridging!SendMessage
  <2> QED
    BY <1>2, <1>4, <2>1, <2>2, StartsConfined DEF Bridging!SendMessage, Bridging!Media
<1>5. ASSUME NEW c \in copies, Bridging!FromMesh(c)
      PROVE  unsent' \in BOOLEAN /\ \A d \in copies' : IsCopy(d) /\ Confined(d)
  <2>1. \A d \in copies' : d \in copies \/ d \in Bridging!PassedOn(c, "lan", c.ttl)
    BY <1>5 DEF Bridging!FromMesh
  <2> QED
    BY <1>2, <1>5, <2>1, FromMeshConfined DEF Bridging!FromMesh
<1>6. ASSUME NEW c \in copies, Bridging!FromEthernet(c)
      PROVE  unsent' \in BOOLEAN /\ \A d \in copies' : IsCopy(d) /\ Confined(d)
  <2>1. \A d \in copies' : d \in copies \/ d \in Bridging!PassedOn(c, "mesh", Bridging!LanTtl(c))
    BY <1>6 DEF Bridging!FromEthernet
  <2> QED
    BY <1>2, <1>6, <2>1, FromEthernetConfined DEF Bridging!FromEthernet
<1>7. CASE UNCHANGED bridgingVars
  BY <1>2, <1>7 DEF bridgingVars
<1> QED
  BY <1>3, <1>4, <1>5, <1>6, <1>7 DEF Bridging!Next, Bridging!Pass

LEMMA BridgingInvGives == BridgingInv => Bridging!ForwardingSound
  BY DEF BridgingInv, Confined, Bridging!ForwardingSound, Bridging!TypeOK,
         Bridging!LocalBroadcastsStay

-----------------------------------------------------------------------------
(* The parts as they are put together *)

\* A step is one of the part in focus, and the other parts rest.
LEMMA GatewayPartsStep ==
    ASSUME [Next]_vars
    PROVE  /\ focus' = focus /\ [Addresses!Next]_addressVars /\ [Dhcp!Next]_dhcpVars
           /\ [Arp!Next]_arpVars /\ [Bridging!Next]_bridgingVars
  BY DEF vars, On, OthersRest,
         Next, MacNext, NeighborsNext, FragmentsNext, AddressesNext, DhcpNext, ArpNext,
         BridgingNext, TimeSyncNext, ClockNext, DnsNext, ConfigNext, TftpNext, KeyValueNext

ForwardingFocus == (focus = "arp" => ArpInv) /\ (focus = "bridging" => BridgingInv)

\* The cache holds entries, and every frame goes to an address its next hop has or had, or
\* to none after all tries: for all hosts, threads, sizes of the cache and lost replies.
\* Packets are on a medium with a time to live, and a broadcast from the Ethernet that is
\* local to the mesh is never back on the Ethernet, for all gateways and packets.
THEOREM FramesGoWhereTheyShould == Spec => []ForwardingSound
<1>1. Init => ForwardingFocus
  <2>1. Bridging!Init => BridgingInv
    BY DEF Bridging!Init, BridgingInv, Bridging!TypeOK
  <2> QED
    BY <2>1, ServicesAssumption, ArpInvHolds DEF Init, ForwardingFocus
<1>2. ForwardingFocus /\ [Next]_vars => ForwardingFocus'
  BY ServicesAssumption, ArpInvHolds, BridgingInvStep, GatewayPartsStep DEF ForwardingFocus
<1>3. ForwardingFocus => ForwardingSound
  BY ArpInvGives, BridgingInvGives DEF ForwardingFocus, ForwardingSound
<1> QED
  BY <1>1, <1>2, <1>3, PTL DEF Spec

AddressingFocus == (focus = "addresses" => AddressesInv) /\ (focus = "dhcp" => DhcpInv)

\* No two nodes that have a session with the gateway have the same address, for all nodes,
\* tables, lost messages and restarts, if the manual addresses differ and are not the server's.
\* The gateway and every node it serves use only addresses that the server leased to them:
\* neither a reply to an earlier transaction, nor one that is late or repeated, nor the
\* restart in the middle of an exchange gives a node the address of another.
THEOREM AddressesDifferAndAreLeased == Spec => []AddressingSound
<1>1. Init => AddressingFocus
  BY ServicesAssumption, AddressesInit, InitOK DEF Init, AddressingFocus
<1>2. AddressingFocus /\ [Next]_vars => AddressingFocus'
  BY ServicesAssumption, AddressesStep, DhcpInvStep, GatewayPartsStep DEF AddressingFocus
<1>3. AddressingFocus => AddressingSound
  BY ServicesAssumption, AddressesInvGives, DhcpInvGives DEF AddressingFocus, AddressingSound
<1> QED
  BY <1>1, <1>2, <1>3, PTL DEF Spec
=============================================================================
