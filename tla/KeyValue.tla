------------------------------ MODULE KeyValue ------------------------------
(***************************************************************************)
(* The key value system of src/src/keyvalue.c: parameters in memory of     *)
(* which a copy is kept in the file kv_data, and the queue of their        *)
(* notifications.                                                          *)
(*                                                                         *)
(* The file is a sequence of records of a header and a value that is       *)
(* padded to the same length for all.  Nothing but their place tells       *)
(* records apart.  A record is two writes, and the file system writes page *)
(* by page: the power may fail between any two pages.                      *)
(*                                                                         *)
(* A cell stands for the bytes that are never separated.                   *)
(***************************************************************************)
EXTENDS Integers, Sequences, FiniteSets

CONSTANTS
    Width,         \* a function: the cells of the value of each persistent parameter
    AppParams,     \* those of the groups from KV_GROUP_APP_BASE on
    DataLength,    \* KV_PERSIST_BLOCK_DATA_LEN
    PageLength,    \* FFS_PAGE_DATA_SIZE
    CellValues,    \* what users put in a cell
    QueueLength,   \* CFG_PARAM_MAX_KV_NOTIFICATIONS
    MaxCalls, MaxOutages  \* bounds: calls of users; power failures

VARIABLES
    kvData,        \* the file
    memory,        \* the variables that the table of parameters points to
    kvMode,        \* sys_u8_get_mode, or that the node is off
    notifications, \* notification_list, the next one to be sent first
    saved,         \* history: what each parameter may be after a restart
    hurt,          \* history: the parameters of records behind an incomplete one, and of that one
    noted, told,   \* history: the time of the last notification made, and handed to the socket
    calls, outages \* bounds

keyValueVars == <<kvData, memory, kvMode, notifications, saved, hurt, noted, told, calls, outages>>

Keys == DOMAIN Width
Zero == "zero"
Cells == Keys \cup CellValues \cup {Zero}
RecordLength == 1 + DataLength
ValuesOf(k) == UNION {[1 .. n -> CellValues] : n \in 1 .. Width[k]}
Zeroes(n) == [i \in 1 .. n |-> Zero]

TypeOK ==
    /\ \A i \in DOMAIN kvData : kvData[i] \in Cells
    /\ \A k \in Keys : memory[k] \in [1 .. Width[k] -> Cells]
    /\ kvMode \in {"off", "normal", "safe"}
    /\ Len(notifications) <= QueueLength

-----------------------------------------------------------------------------
(* The file *)

\* fs_i16_write in the middle or at the end
Overlay(s, pos, cells) ==
    [i \in 1 .. (IF pos + Len(cells) > Len(s) THEN pos + Len(cells) ELSE Len(s)) |->
        IF i \in pos + 1 .. pos + Len(cells) THEN cells[i - pos] ELSE s[i]]

\* ffs_i32_write: what a write leaves when the power fails, page by page.
Written(s, pos, cells) ==
    {Overlay(s, pos, SubSeq(cells, 1, n)) :
        n \in {m \in 0 .. Len(cells) : m \in {0, Len(cells)} \/ (pos + m) % PageLength = 0}}

\* The headers that the search reads: the first at the start, each of the others a record later.
Slots(s) == {p \in 0 .. Len(s) - 1 : p % RecordLength = 0}
RecordsOf(k, s) == {p \in Slots(s) : s[p + 1] = k}

\* Mutant: the search goes on behind the record that it found.
PlaceOf_End(k, s) == Len(s)
\* kv_i8_persist_set, the search: the record of the parameter, or the end of the file.
PlaceOf(k, s) ==
    IF RecordsOf(k, s) = {} THEN Len(s) ELSE CHOOSE p \in RecordsOf(k, s) : \A q \in RecordsOf(k, s) : p <= q

\* Mutant: a value is written in its own length.
Padded_Not(data) == data
Padded(data) == data \o Zeroes(DataLength - Len(data))

\* kv_i8_persist_set: the header, and then the value.
HeaderIn(k, s) == Overlay(s, PlaceOf(k, s), <<k>>)
RecordIn(k, data, s) == Overlay(HeaderIn(k, s), PlaceOf(k, s) + 1, Padded(data))
Interrupted(k, data, s) ==
    Written(s, PlaceOf(k, s), <<k>>) \cup Written(HeaderIn(k, s), PlaceOf(k, s) + 1, Padded(data))

\* kv_i8_init_persist: whole records only, and the last one that fits counts.
Restored(s) ==
    [k \in Keys |->
        LET whole == {p \in RecordsOf(k, s) : p + RecordLength <= Len(s)}
            last == CHOOSE p \in whole : \A q \in whole : q <= p
        IN  IF whole = {} THEN Zeroes(Width[k])
            ELSE SubSeq(s, last + 2, last + 1 + Width[k])]

\* The value of the record lies on two pages.
Straddles(k, s) ==
    LET p == PlaceOf(k, s) IN (p + 1) \div PageLength # (p + Width[k]) \div PageLength

\* When the place of the record is none that a search reads, the parameter is not found again
\* and its cells are taken for those of the record that the power left incomplete.
Misplaces(k, s) == PlaceOf(k, s) % RecordLength # 0
Incomplete(s) == {j \in Keys : \E p \in RecordsOf(j, s) : p + RecordLength > Len(s)}
HurtBy(k, s) == IF Misplaces(k, s) THEN {k} \cup Incomplete(s) ELSE {}

-----------------------------------------------------------------------------
Init ==
    /\ kvData = <<>> /\ memory = [k \in Keys |-> Zeroes(Width[k])] /\ kvMode = "off"
    /\ notifications = <<>>
    /\ saved = [k \in Keys |-> {Zeroes(Width[k])}] /\ hurt = {}
    /\ noted = 0 /\ told = 0 /\ calls = 0 /\ outages = 0

Call == calls < MaxCalls /\ calls' = calls + 1

\* kv_v_init: nothing is restored in safe mode.
Start(mode) ==
    /\ kvMode = "off" /\ kvMode' = mode
    /\ memory' = IF mode = "safe" THEN [k \in Keys |-> Zeroes(Width[k])] ELSE Restored(kvData)
    /\ UNCHANGED <<kvData, notifications, saved, hurt, noted, told, calls, outages>>

\* The value that a short one and the padding make.
Extended(k, data) == SubSeq(Padded(data), 1, Width[k])

\* kv_i8_persist_set as a whole.  The file cannot be opened when there is no memory,
\* and not be made in safe mode; nobody looks at the result.
PersistSet(k, data) ==
    \/ /\ kvMode = "safe" => kvData # <<>>
       /\ kvData' = RecordIn(k, data, kvData)
       /\ saved' = [saved EXCEPT ![k] = {Extended(k, data)}]
       /\ hurt' = hurt \cup HurtBy(k, kvData)
    \/ UNCHANGED <<kvData, saved, hurt>>

\* kv_i8_set, kv_i16_batch_set for one parameter.  The length may be less than that of the type.
Set(k, data) ==
    /\ kvMode = "normal" \/ (kvMode = "safe" /\ k \notin AppParams)
    /\ Call
    /\ PersistSet(k, data)
    /\ memory' = [memory EXCEPT ![k] = Overlay(@, 0, data)]
    /\ UNCHANGED <<kvMode, notifications, noted, told, outages>>

\* The application changes its variable.
Change(k, data) ==
    /\ kvMode = "normal" /\ k \in AppParams
    /\ Call
    /\ memory' = [memory EXCEPT ![k] = Overlay(@, 0, data)]
    /\ UNCHANGED <<kvData, kvMode, notifications, saved, hurt, noted, told, outages>>

\* kv_i8_persist
Persist(k) ==
    /\ kvMode = "normal"
    /\ Call
    /\ PersistSet(k, memory[k])
    /\ UNCHANGED <<memory, kvMode, notifications, noted, told, outages>>

\* kv_i8_notify, kv_push_notification: with the time; a full queue drops the new one.
Notify ==
    /\ kvMode = "normal"
    /\ Call
    /\ noted' = noted + 1
    /\ notifications' = IF Len(notifications) < QueueLength THEN Append(notifications, noted')
                        ELSE notifications
    /\ UNCHANGED <<kvData, memory, kvMode, saved, hurt, told, outages>>

\* Mutant: the list is taken from the end at which it grows.
NextNotification_Newest == Len(notifications)
\* list_ln_remove_tail of a list that grows at its head
NextNotification == 1

\* notifications_processor_thread up to the call of the socket; without a server the
\* notification is dropped.
NotificationThread ==
    /\ kvMode = "normal" /\ notifications # <<>>
    /\ told' \in {told, notifications[NextNotification]}
    /\ notifications' = SubSeq(notifications, 1, NextNotification - 1)
                            \o SubSeq(notifications, NextNotification + 1, Len(notifications))
    /\ UNCHANGED <<kvData, memory, kvMode, saved, hurt, noted, calls, outages>>

\* The power fails while a value is written, or at any other time.
Outage ==
    /\ kvMode # "off" /\ kvMode' = "off"
    /\ outages < MaxOutages /\ outages' = outages + 1
    /\ notifications' = <<>>
    /\ UNCHANGED <<memory, noted, told, calls>>

Writing(k) ==
    /\ kvMode = "normal" \/ k \notin AppParams
    /\ kvMode = "safe" => kvData # <<>>

OutageInSet(k, data) ==
    /\ Outage /\ Writing(k)
    /\ kvData' \in Interrupted(k, data, kvData)
    /\ saved' = [saved EXCEPT ![k] = @ \cup {Extended(k, data)}
                    \cup IF Straddles(k, kvData) THEN {Restored(kvData')[k]} ELSE {}]
    /\ hurt' = hurt \cup HurtBy(k, kvData)

\* ffs_page_v_init: the power failed in the middle of a page, and the mount deletes the file.
FileIsLost(k) ==
    /\ Outage /\ Writing(k)
    /\ kvData' = <<>> /\ hurt' = {}
    /\ saved' = [j \in Keys |-> {Zeroes(Width[j])}]

OutageAtRest == Outage /\ UNCHANGED <<kvData, saved, hurt>>

Next ==
    \/ \E mode \in {"normal", "safe"} : Start(mode)
    \/ \E k \in Keys : Persist(k) \/ FileIsLost(k)
    \/ \E k \in Keys : \E data \in ValuesOf(k) : Set(k, data) \/ Change(k, data) \/ OutageInSet(k, data)
    \/ Notify \/ NotificationThread \/ OutageAtRest

Spec == Init /\ [][Next]_keyValueVars

-----------------------------------------------------------------------------
(* Properties *)

\* Each parameter that is not hurt has one record at most; what a search reads are headers as
\* long as none is hurt; and before the power ever fails all records are whole.
RecordsWhole ==
    /\ \A k \in Keys \ hurt : Cardinality(RecordsOf(k, kvData)) <= 1
    /\ hurt = {} => \A p \in Slots(kvData) : kvData[p + 1] \in Keys
    /\ outages = 0 => hurt = {} /\ Len(kvData) % RecordLength = 0

\* A restart gives each parameter the value that was last written, or the one before when the
\* power failed meanwhile.  What is added behind an incomplete record harms the parameter of
\* that record and the one that is added, never a third one; only the loss of the whole file
\* takes all together (kv_i8_init_persist, kv_i8_persist_set).
ValuesSurvive == \A k \in Keys \ hurt : Restored(kvData)[k] \in saved[k]

\* "the file always has an even number of full blocks.  Otherwise, the (somewhat naive)
\* scanning algorithm will miss the last block." (keyvalue.c 261-263)
AlwaysFullBlocks == kvMode = "normal" => Len(kvData) % RecordLength = 0

\* Notifications go out in the order in which they were made.
NotificationsInOrder ==
    /\ \A i \in DOMAIN notifications : told < notifications[i]
    /\ \A i, j \in DOMAIN notifications : i < j => notifications[i] < notifications[j]

StorageSound == TypeOK /\ RecordsWhole /\ ValuesSurvive /\ NotificationsInOrder
=============================================================================
