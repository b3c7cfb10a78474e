-------------------------------- MODULE Tftp --------------------------------
(***************************************************************************)
(* The TFTP server, src/src/tftp.c: a thread takes requests and starts a   *)
(* thread with a socket of its own for each of them, which reads or writes *)
(* the file block by block.  One client uploads the file and one downloads *)
(* it, as RFC 1350 has it: each sends its last message again when nothing  *)
(* comes, and takes no block twice.  A file is a sequence of units.        *)
(*                                                                         *)
(* The server itself sends nothing again: a repeated request starts a      *)
(* second thread, a repeated acknowledgment makes the reader go back by a  *)
(* block, and a thread that waits in vain ends.  A file is not cut when it *)
(* is opened for writing, and one that is uploaded empty is deleted.       *)
(***************************************************************************)
EXTENDS Integers, Sequences

CONSTANTS
    Cases,        \* what may be the file at first, and what is uploaded
    BlockLength,  \* 512 bytes
    Transfers,    \* the threads that can be started, by the number of their socket
    Resends,      \* how often a client sends a message again
    MaxSetbacks   \* bound: messages lost or repeated, and troubles

VARIABLES
    file,      \* the file on the node
    transfer,  \* the threads tftp_read and tftp_write
    up, down,  \* the clients
    datagrams, \* what is on its way
    old, new,  \* the file at first, and the one that is uploaded
    shown,     \* history: the file that the download should give
    unlucky,   \* messages lost, or that came twice
    troubles   \* timers that ended too early, and lack of memory or space

tftpVars == <<file, transfer, up, down, datagrams, old, new, shown, unlucky, troubles>>

Absent == <<"absent">>   \* no unit has this name
Changed == <<"changed">>
Clients == {"up", "down"}
\* What files consist of; the mark of an absent one is no unit of an uploaded one.
Units ==
    {"absent"} \cup UNION {{case[1][i] : i \in DOMAIN case[1]} \cup {case[2][i] : i \in DOMAIN case[2]} :
                           case \in Cases}

\* next: block; pos: position in the file; read: bytes_read of the reader.
NotStarted == [pc |-> "none", kind |-> "none", next |-> 0, pos |-> 0, read |-> 0]
\* next: the block whose acknowledgment, or data, is expected; from: the socket of the server.
Idle(next) == [pc |-> "idle", next |-> next, from |-> 0, resends |-> Resends, got |-> <<>>]

Init ==
    /\ \E case \in Cases : old = case[1] /\ new = case[2]
    /\ file = old /\ shown = old
    /\ transfer = [t \in Transfers |-> NotStarted]
    /\ up = Idle(0) /\ down = Idle(1)
    /\ datagrams = {} /\ unlucky = 0 /\ troubles = 0

TypeOK ==
    /\ \A t \in Transfers :
          /\ transfer[t].pc \in {"none", "start", "send", "wait", "gone"}
          /\ transfer[t].kind \in {"none", "read", "write"}
          /\ transfer[t].next \in Nat /\ transfer[t].pos \in Nat /\ transfer[t].read \in Int
    /\ \A c \in {up, down} :
          /\ c.pc \in {"idle", "active", "done", "failed"} /\ c.next \in Nat
          /\ c.from \in {0} \cup Transfers /\ c.resends \in 0 .. Resends
    /\ unlucky \in Nat /\ troubles \in Nat /\ unlucky + troubles <= MaxSetbacks

\* socket: of the thread, 0 for the port of the server.
Message(client, socket, kind, block, data) ==
    [client |-> client, socket |-> socket, kind |-> kind, block |-> block, data |-> data]
ToNode(msg) ==
    \/ msg.kind \in {"read", "write"}
    \/ <<msg.kind, msg.client>> \in {<<"data", "up">>, <<"ack", "down">>}
Arrived(msg) == msg \in datagrams /\ ToNode(msg)
Trouble == unlucky + troubles < MaxSetbacks /\ troubles' = troubles + 1
Unlucky == unlucky + troubles < MaxSetbacks /\ unlucky' = unlucky + 1

\* Up to a block from a position on.
BlockAt(content, pos) ==
    LET rest == Len(content) - pos
    IN  SubSeq(content, pos + 1, pos + (IF rest < BlockLength THEN rest ELSE BlockLength))
Block(content, n) == BlockAt(content, (n - 1) * BlockLength)
\* fs_i16_write: the units from the position on are replaced, what is behind them stays.
Overwritten(content, pos, data) ==
    SubSeq(content, 1, pos) \o data \o SubSeq(content, pos + Len(data) + 1, Len(content))

\* What the client of a thread sends with it.
ClientOf(kind) == IF kind = "read" THEN "down" ELSE "up"
Client(c) == IF c = "up" THEN up ELSE down

-----------------------------------------------------------------------------
\* tftp_server_thread: takes a request.
Listen(msg, t) ==
    /\ Arrived(msg) /\ msg.socket = 0
    /\ transfer[t].pc = "none" /\ \A s \in Transfers : s < t => transfer[s].pc # "none"
    /\ transfer' = [transfer EXCEPT ![t] = [@ EXCEPT !.pc = "start", !.kind = msg.kind]]
    /\ datagrams' = datagrams \ {msg}
    /\ UNCHANGED <<file, up, down, old, new, shown, unlucky, troubles>>

Ended(t) == [transfer EXCEPT ![t] = [NotStarted EXCEPT !.pc = "gone", !.kind = transfer[t].kind]]
\* send_error and clean_up.
Fail(t) ==
    /\ transfer' = Ended(t)
    /\ datagrams' = datagrams \cup {Message(ClientOf(transfer[t].kind), t, "error", 0, <<>>)}

\* The history follows changes of the file during a download.
Becomes(content) ==
    /\ file' = content
    /\ shown' = IF content = file THEN shown
                ELSE IF down.pc = "idle" THEN content ELSE Changed

\* The first pass: without a socket the thread exits, without the file it sends an error.
\* A file that is written is created when it is not there; the answer is acknowledgment 0.
Open(t) ==
    /\ transfer[t].pc = "start"
    /\ \/ /\ transfer[t].kind = "read" /\ file # Absent
          /\ transfer' = [transfer EXCEPT ![t] = [@ EXCEPT !.pc = "send", !.next = 1]]
          /\ UNCHANGED <<file, shown, datagrams, troubles>>
       \/ /\ transfer[t].kind = "read" /\ file = Absent
          /\ Fail(t)
          /\ UNCHANGED <<file, shown, troubles>>
       \/ /\ transfer[t].kind = "write"
          /\ Becomes(IF file = Absent THEN <<>> ELSE file)
          /\ transfer' = [transfer EXCEPT ![t] = [@ EXCEPT !.pc = "wait", !.next = 1]]
          /\ datagrams' = datagrams \cup {Message("up", t, "ack", 0, <<>>)}
          /\ UNCHANGED troubles
       \/ /\ Trouble
          /\ \/ transfer' = Ended(t) /\ UNCHANGED datagrams
             \/ Fail(t)
          /\ UNCHANGED <<file, shown>>
    /\ UNCHANGED <<up, down, old, new, unlucky>>

\* tftp_read_thread sends a block.  Of a file that was deleted meanwhile it reads -1 bytes,
\* and the message of -1 + 4 bytes is none that a client knows.
SendBlock(t) ==
    /\ transfer[t].pc = "send"
    /\ LET pos == transfer[t].pos
           data == BlockAt(file, pos) IN
       IF file = Absent
       THEN /\ transfer' = [transfer EXCEPT ![t] = [@ EXCEPT !.pc = "wait", !.read = -1]]
            /\ UNCHANGED datagrams
       ELSE /\ transfer' = [transfer EXCEPT ![t] =
                   [@ EXCEPT !.pc = "wait", !.read = Len(data), !.pos = pos + Len(data)]]
            /\ datagrams' = datagrams \cup {Message("down", t, "data", transfer[t].next, data)}
    /\ UNCHANGED <<file, up, down, old, new, shown, unlucky, troubles>>

\* Mutant: the reader does not go back.
Back_Stays(thread) == [thread EXCEPT !.pc = "send"]
\* The acknowledgment of another block: fs_v_seek by the bytes read.  After -1 bytes,
\* which are 65535 as an unsigned number, the position lies far behind the end.
Beyond == 1000
Back(thread) ==
    [thread EXCEPT !.pc = "send", !.pos = IF thread.read = -1 THEN Beyond ELSE @ - thread.read]

HearAck(t, msg) ==
    /\ Arrived(msg) /\ msg.socket = t
    /\ transfer[t].pc = "wait" /\ transfer[t].kind = "read"
    /\ transfer' =
          IF msg.block # transfer[t].next
          THEN [transfer EXCEPT ![t] = Back(@)]
          ELSE IF transfer[t].read \in 0 .. BlockLength - 1
          THEN Ended(t)
          ELSE [transfer EXCEPT ![t].pc = "send", ![t].next = @ + 1]
    /\ datagrams' = datagrams \ {msg}
    /\ UNCHANGED <<file, up, down, old, new, shown, unlucky, troubles>>

\* Mutant: whatever block comes is written.
IsNext_Any(thread, msg) == TRUE
IsNext(thread, msg) == msg.block = thread.next

\* tftp_write_thread: writes the next block and acknowledges it, or repeats the last
\* acknowledgment.  A short block is the last one; an empty first one deletes the file.
HearData(t, msg) ==
    LET thread == transfer[t] IN
    /\ Arrived(msg) /\ msg.socket = t
    /\ thread.pc = "wait" /\ thread.kind = "write"
    /\ \/ /\ IsNext(thread, msg) /\ file # Absent
          /\ Becomes(IF thread.next = 1 /\ msg.data = <<>> THEN Absent
                     ELSE Overwritten(file, thread.pos, msg.data))
          /\ datagrams' = (datagrams \ {msg}) \cup {Message("up", t, "ack", thread.next, <<>>)}
          /\ transfer' = IF Len(msg.data) < BlockLength THEN Ended(t)
                         ELSE [transfer EXCEPT ![t].next = @ + 1,
                                               ![t].pos = @ + Len(msg.data)]
          /\ UNCHANGED troubles
       \/ /\ IsNext(thread, msg)
          /\ IF file = Absent THEN UNCHANGED troubles ELSE Trouble
          /\ transfer' = Ended(t)
          /\ datagrams' = (datagrams \ {msg}) \cup {Message("up", t, "error", 0, <<>>)}
          /\ UNCHANGED <<file, shown>>
       \/ /\ ~IsNext(thread, msg)
          /\ datagrams' = (datagrams \ {msg}) \cup {Message("up", t, "ack", thread.next - 1, <<>>)}
          /\ UNCHANGED <<file, transfer, shown, troubles>>
    /\ UNCHANGED <<up, down, old, new, unlucky>>

\* The socket takes nothing before the thread waits, while it holds a message that was
\* not released, and after its end.
Ignored(t, msg) ==
    /\ Arrived(msg) /\ msg.socket = t
    /\ transfer[t].pc # "wait"
    /\ datagrams' = datagrams \ {msg}
    /\ UNCHANGED <<file, transfer, up, down, old, new, shown, unlucky, troubles>>

\* The client sends no more to this thread: it ended, or it has another one.
Left(t) ==
    LET c == Client(ClientOf(transfer[t].kind)) IN
    c.pc \in {"done", "failed"} \/ c.from \notin {0, t}

\* Mutant: only the writer has a timer.
GivesUp_Writer(thread) == thread.pc = "wait" /\ thread.kind = "write"
GivesUp(thread) == thread.pc = "wait"

\* Ten seconds without an answer, which is too early as long as the client is there.  With
\* a short block the reader takes the transfer for complete.
TimedOut(t) ==
    /\ GivesUp(transfer[t])
    /\ IF Left(t) THEN UNCHANGED troubles ELSE Trouble
    /\ IF transfer[t].kind = "read" /\ transfer[t].read # BlockLength
       THEN transfer' = Ended(t) /\ UNCHANGED datagrams
       ELSE Fail(t)
    /\ UNCHANGED <<file, up, down, old, new, shown, unlucky>>

TransferThread(t) == Open(t) \/ SendBlock(t) \/ TimedOut(t)

-----------------------------------------------------------------------------
(* The clients and the network *)

\* The last message of a client.
Last(c) ==
    IF Client(c).from = 0
    THEN Message(c, 0, IF c = "up" THEN "write" ELSE "read", 0, <<>>)
    ELSE IF c = "up"
    THEN Message(c, up.from, "data", up.next, Block(new, up.next))
    ELSE Message(c, down.from, "ack", down.next - 1, <<>>)

Is(c, state) == IF c = "up" THEN up' = state /\ UNCHANGED down ELSE down' = state /\ UNCHANGED up

Begin(c) ==
    /\ Client(c).pc = "idle"
    /\ Is(c, [Client(c) EXCEPT !.pc = "active"])
    /\ datagrams' = datagrams \cup {Last(c)}
    /\ UNCHANGED <<file, transfer, old, new, shown, unlucky, troubles>>

ForClient(c, msg) == msg \in datagrams /\ ~ToNode(msg) /\ msg.client = c
Expected(c, msg) ==
    /\ Client(c).pc = "active" /\ Client(c).from \in {0, msg.socket}
    /\ msg.kind # "error" /\ msg.block = Client(c).next

UpHears(msg) ==
    /\ ForClient("up", msg) /\ Expected("up", msg)
    /\ IF up.next * BlockLength > Len(new)
       THEN up' = [up EXCEPT !.pc = "done"] /\ datagrams' = datagrams \ {msg}
       ELSE /\ up' = [up EXCEPT !.next = @ + 1, !.from = msg.socket, !.resends = Resends]
            /\ datagrams' = (datagrams \ {msg}) \cup
                  {Message("up", msg.socket, "data", up.next + 1, Block(new, up.next + 1))}
    /\ UNCHANGED <<file, transfer, down, old, new, shown, unlucky, troubles>>

DownHears(msg) ==
    /\ ForClient("down", msg) /\ Expected("down", msg)
    /\ down' = [down EXCEPT !.pc = IF Len(msg.data) < BlockLength THEN "done" ELSE @,
                            !.next = @ + 1, !.from = msg.socket, !.resends = Resends,
                            !.got = @ \o msg.data]
    /\ datagrams' = (datagrams \ {msg}) \cup {Message("down", msg.socket, "ack", msg.block, <<>>)}
    /\ UNCHANGED <<file, transfer, up, old, new, shown, unlucky, troubles>>

\* An error ends the transfer.  A block that came before is acknowledged once more, an old
\* acknowledgment is not answered; nor is anything after the end or from another socket.
HearOther(c, msg) ==
    /\ ForClient(c, msg) /\ ~Expected(c, msg)
    /\ LET mine == Client(c).pc = "active" /\ Client(c).from \in {0, msg.socket} IN
       /\ Is(c, [Client(c) EXCEPT !.pc = IF mine /\ msg.kind = "error" THEN "failed" ELSE @])
       /\ datagrams' = (datagrams \ {msg}) \cup
             (IF mine /\ msg.kind = "data" /\ msg.block < down.next
              THEN {Message("down", msg.socket, "ack", msg.block, <<>>)} ELSE {})
    /\ UNCHANGED <<file, transfer, old, new, shown, unlucky, troubles>>

\* Nothing for the client is on its way or being done.
Quiet(c) ==
    /\ \A msg \in datagrams : msg.client # c
    /\ \A t \in Transfers : ClientOf(transfer[t].kind) = c => transfer[t].pc \notin {"start", "send"}
Resend(c) ==
    /\ Client(c).pc = "active"
    /\ IF Quiet(c) THEN UNCHANGED troubles ELSE Trouble
    /\ \/ /\ Client(c).resends > 0
          /\ Is(c, [Client(c) EXCEPT !.resends = @ - 1])
          /\ datagrams' = datagrams \cup {Last(c)}
       \/ /\ Client(c).resends = 0
          /\ Is(c, [Client(c) EXCEPT !.pc = "failed"])
          /\ UNCHANGED datagrams
    /\ UNCHANGED <<file, transfer, old, new, shown, unlucky>>

\* A message is lost, or a client's comes twice: once now and once at any later time.
LostDatagram(msg) ==
    /\ Unlucky
    /\ datagrams' = datagrams \ {msg}
    /\ UNCHANGED <<file, transfer, up, down, old, new, shown, troubles>>
Repeated(c) ==
    /\ Unlucky
    /\ Client(c).pc = "active" /\ Last(c) \notin datagrams
    /\ datagrams' = datagrams \cup {Last(c)}
    /\ UNCHANGED <<file, transfer, up, down, old, new, shown, troubles>>

ClientStep(c) == Begin(c) \/ Resend(c) \/ Repeated(c)
Heard(msg) ==
    \/ \E t \in Transfers : Listen(msg, t) \/ HearAck(t, msg) \/ HearData(t, msg) \/ Ignored(t, msg)
    \/ UpHears(msg) \/ DownHears(msg)
    \/ \E c \in Clients : HearOther(c, msg)

Next ==
    \/ \E t \in Transfers : TransferThread(t)
    \/ \E c \in Clients : ClientStep(c)
    \/ \E msg \in datagrams : Heard(msg) \/ LostDatagram(msg)

Spec == Init /\ [][Next]_tftpVars

-----------------------------------------------------------------------------
\* What is to be in the file after the upload: the new content, followed by what the old
\* one had behind it.  The deletion by an empty upload may be followed by a late
\* repetition of its request, which creates the file again.
IsUploaded ==
    IF new = <<>> THEN file \in {Absent, <<>>}
    ELSE file = Overwritten(IF old = Absent THEN <<>> ELSE old, 0, new)

\* When an upload ends, the file is there as a whole, whatever was lost or repeated; even when
\* it ends with a failure, as long as no timer ended too early and nothing ran out: then only
\* the last acknowledgment was lost.
UploadSound ==
    /\ up.pc = "done" => IsUploaded
    /\ up.pc = "failed" /\ troubles = 0 => IsUploaded

\* A download gives the file, each block once and in order, and if the file changes meanwhile
\* at least no unit that it has at another place.  Lost and repeated messages do not make it fail.
DownloadSound ==
    /\ down.pc = "done" /\ shown # Changed => down.got = shown
    /\ \A i \in 1 .. Len(down.got) : \E content \in {old, new} :
          i <= Len(content) /\ down.got[i] = content[i]
    /\ down.pc = "failed" /\ troubles = 0 => old = Absent \/ new = <<>>

StorageSound == TypeOK /\ UploadSound /\ DownloadSound

\* Every transfer ends on both sides: no thread, and so no socket, stays.
TransfersEnd ==
    /\ <>[](\A t \in Transfers : transfer[t].pc \in {"none", "gone"})
    /\ \A c \in Clients : []<>(Client(c).pc # "active")
=============================================================================
