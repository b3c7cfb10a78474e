------------------------------- MODULE Config -------------------------------
(***************************************************************************)
(* The configuration store of src/src/config.c: parameters in blocks of    *)
(* the EEPROM, which the power may fail to write at any byte.  A block is  *)
(* valid when its identifier is written, which is its last byte to be      *)
(* written and the first to be erased.  A new block is written before the  *)
(* old one is erased, and the next start removes what is there twice.      *)
(*                                                                         *)
(* The search for a parameter is answered from an index in memory, which   *)
(* erase_block keeps up to date and the reset to defaults does not: until  *)
(* the next start an entry may lead to the block of another parameter,     *)
(* which is then read, or erased as the old block of what is written.      *)
(*                                                                         *)
(* Every new firmware has another CFG_VERSION here.                        *)
(***************************************************************************)
EXTENDS Integers, Sequences, FiniteSets

CONSTANTS
    Length,        \* a function: how many blocks a parameter has
    KnownTo,       \* the parameters of each version of the firmware
    TypeIn,        \* the type that each version gives its parameters
    Defaults,      \* cfg_v_default_all: the parameters and values each version sets, in order
    TotalBlocks,   \* CFG_TOTAL_BLOCKS
    Values,        \* what users set
    MaxSets, MaxFailures  \* bounds: sets and resets; power failures and failed writes

VARIABLES
    eeprom,    \* the blocks
    index,     \* cfg_index: pairs of a parameter and its first block
    writing,   \* the state of write_param and cfg_v_default_all
    firmware,  \* the version of the firmware
    power,     \* whether the node is on
    allowed,   \* history: what each block of a parameter may be read as
    stale,     \* history: since the start the EEPROM was erased and the index was not
    sets, failures  \* bounds

configVars == <<eeprom, index, writing, firmware, power, allowed, stale, sets, failures>>

Params == DOMAIN Length
PartsOf(p) == 0 .. Length[p] - 1
\* All that a version of the firmware keeps.
CellsOf(version) == UNION {{p} \X PartsOf(p) : p \in KnownTo[version]}
Blocks == 0 .. TotalBlocks - 1
None == -1
Zeroes == 0           \* what is read for a block that is not there
Junk == -2            \* what a worn block holds
Erased == [id |-> "empty", type |-> "none", n |-> 0, value |-> Zeroes]
TypeOf(p) == TypeIn[firmware][p]
Idle == [pc |-> "idle", todo |-> <<>>, n |-> 0, free |-> None, old |-> None]

TypeOK ==
    /\ \A b \in Blocks : /\ eeprom[b].id \in Params \cup {"empty"}
                         /\ eeprom[b].n \in Nat /\ eeprom[b].value \in Int
    /\ index \subseteq Params \X Blocks
    /\ writing.pc \in {"idle", "erase", "write", "check"}

Init ==
    /\ eeprom = [b \in Blocks |-> Erased]
    /\ index = {} /\ writing = Idle /\ firmware = 1 /\ power = "off"
    /\ allowed = [p \in Params |-> [n \in PartsOf(p) |-> {Zeroes}]]
    /\ stale = FALSE /\ sets = 0 /\ failures = 0

-----------------------------------------------------------------------------
\* get_free_block, seek_block: the first one, or None.
First(S) == IF S = {} THEN None ELSE CHOOSE b \in S : \A c \in S : b <= c
FreeBlock(e) == First({b \in Blocks : e[b] = Erased})
InIndex(p, ix) == {entry[2] : entry \in {x \in ix : x[1] = p}}
Seek(p, n, e, ix) ==
    IF n = 0 /\ InIndex(p, ix) # {} THEN First(InIndex(p, ix))
    ELSE First({b \in Blocks : e[b].id = p /\ e[b].n = n})

\* seek_block puts what it finds in the index, over any entry that is there.
IndexAfterSeek(p, n, e, ix) ==
    LET b == Seek(p, n, e, ix) IN
    IF n # 0 \/ b = None \/ InIndex(p, ix) # {} THEN {ix}
    ELSE {kept \cup {<<p, b>>} : kept \in {ix} \cup {ix \ {entry} : entry \in ix}}

\* Mutant: the index is not told.
IndexWithout_Not(b) == index
\* erase_block
IndexWithout(b) == {entry \in index : entry[2] # b}

\* read_param
Stored(p, n) == LET b == Seek(p, n, eeprom, index) IN IF b = None THEN Zeroes ELSE eeprom[b].value

\* Mutant: blocks that are there twice stay.
Cleaned_Twice(e) == [b \in Blocks |-> IF e[b].id \in KnownTo[firmware] THEN e[b] ELSE Erased]
\* clean_blocks: of two blocks with the same part of a parameter the first stays, old or new,
\* unless its type is not that of the parameter.
Cleaned(e) ==
    [b \in Blocks |->
        IF /\ e[b].id \in KnownTo[firmware] /\ e[b].type = TypeOf(e[b].id)
           /\ ~\E c \in Blocks : c < b /\ e[c].id = e[b].id /\ e[c].n = e[b].n
        THEN e[b] ELSE Erased]

EraseAll == [Idle EXCEPT !.pc = "erase"]

\* What is really in the blocks.
Settled(e) ==
    [p \in Params |-> [n \in PartsOf(p) |->
        LET b == First({c \in Blocks : e[c].id = p /\ e[c].n = n})
        IN  {IF b = None THEN Zeroes ELSE e[b].value}]]

MayBe(p, n, S) == [allowed EXCEPT ![p][n] = @ \cup S]
MayBeZeroes == [p \in Params |-> [n \in PartsOf(p) |-> allowed[p][n] \cup {Zeroes}]]

\* cfg_v_init.  The version is the first parameter that is looked for.
Start ==
    /\ power = "off" /\ power' = "on"
    /\ LET e == Cleaned(eeprom)
           b == Seek("version", 0, e, {})
           now == [p \in Params |-> [n \in PartsOf(p) |-> allowed[p][n] \cap Settled(e)[p][n]]]
           reset == b = None \/ e[b].value # firmware
       IN
          /\ eeprom' = e
          /\ index' \in IndexAfterSeek("version", 0, e, {})
          /\ writing' = IF reset THEN EraseAll ELSE Idle
          /\ stale' = (reset /\ b # None)
          /\ allowed' = IF reset
                        THEN [p \in Params |-> [n \in DOMAIN now[p] |-> now[p][n] \cup {Zeroes}]]
                        ELSE now
    /\ UNCHANGED <<firmware, sets, failures>>

\* cfg_i8_get, of any parameter
Get(p) ==
    /\ power = "on" /\ writing.pc = "idle"
    /\ index' \in IndexAfterSeek(p, 0, eeprom, index)
    /\ UNCHANGED <<eeprom, writing, firmware, power, allowed, stale, sets, failures>>

\* cfg_v_set
Set(p, v) ==
    /\ power = "on" /\ writing.pc = "idle" /\ p # "version"
    /\ sets < MaxSets /\ sets' = sets + 1
    /\ writing' = [Idle EXCEPT !.pc = "write", !.todo = <<<<p, v>>>>]
    /\ UNCHANGED <<eeprom, index, firmware, power, allowed, stale, failures>>

\* cfg_v_default_all, from the command CMD2_RESET_CFG
ResetCfg ==
    /\ power = "on" /\ writing.pc = "idle"
    /\ sets < MaxSets /\ sets' = sets + 1
    /\ writing' = EraseAll
    /\ stale' = (stale \/ index # {})
    /\ allowed' = MayBeZeroes
    /\ UNCHANGED <<eeprom, index, firmware, power, failures>>

\* The EEPROM is erased byte by byte from the start; the index stays.
Erase ==
    /\ writing.pc = "erase"
    /\ eeprom' = [eeprom EXCEPT ![writing.n] = Erased]
    /\ writing' = IF writing.n < TotalBlocks - 1 THEN [writing EXCEPT !.n = @ + 1]
                  ELSE [Idle EXCEPT !.pc = "write", !.todo = Defaults[firmware]]
    /\ UNCHANGED <<index, firmware, power, allowed, stale, sets, failures>>

\* What comes after the parameter, or after one of its blocks.
NextParam ==
    IF Len(writing.todo) = 1 THEN Idle ELSE [Idle EXCEPT !.pc = "write", !.todo = Tail(writing.todo)]
NextBlock(p) ==
    IF writing.n < Length[p] - 1 THEN [writing EXCEPT !.pc = "write", !.n = @ + 1] ELSE NextParam

\* write_param up to write_block; nothing more is written when no block is free.
WriteBlock ==
    /\ writing.pc = "write"
    /\ LET p == Head(writing.todo)[1]
           v == Head(writing.todo)[2]
           n == writing.n
           free == FreeBlock(eeprom)
       IN
       \/ /\ free = None
          /\ writing' = NextParam
          /\ UNCHANGED <<eeprom, index, allowed, failures>>
       \/ /\ free # None
          /\ writing' = [writing EXCEPT !.pc = "check", !.free = free,
                                        !.old = Seek(p, n, eeprom, index)]
          /\ index' \in IndexAfterSeek(p, n, eeprom, index)
          /\ \E value \in {v, Junk} :
                /\ failures' = IF value = v THEN failures ELSE failures + 1
                /\ failures' <= MaxFailures
                /\ eeprom' = [eeprom EXCEPT ![free] =
                                [id |-> p, type |-> TypeOf(p), n |-> n, value |-> value]]
                /\ allowed' = MayBe(p, n, {value})
    /\ UNCHANGED <<firmware, power, stale, sets>>

\* Mutant: a block that cannot be read back is left where it is.
Rejects_None(block, v) == FALSE
Rejects(block, v) == block.value # v

\* What the old block may be read as, which may be worn itself since a power failure.
OldMayBe(p, n) ==
    allowed[p][n] \ IF writing.old # None /\ eeprom[writing.old].value = Junk THEN {} ELSE {Junk}

\* What is known of all parameters when a block is erased as the old one of p: a wrong entry
\* of the index may have led to a block of another, or to the new one itself.
AfterErasing(b, known, p, n) ==
    LET block == eeprom[b] IN
    IF ~stale \/ b = None \/ block.id = "empty" THEN known
    ELSE IF b # writing.free /\ block.id = p /\ block.n = n THEN known
    ELSE [known EXCEPT ![block.id][block.n] = {Zeroes}]

\* write_param, the read back: the new block is erased and written again, or the old one
\* is erased.
CheckBlock ==
    /\ writing.pc = "check"
    /\ LET p == Head(writing.todo)[1]
           v == Head(writing.todo)[2]
           failed == Rejects(eeprom[writing.free], v)
           gone == IF failed THEN writing.free ELSE writing.old
       IN
       /\ eeprom' = IF gone = None THEN eeprom ELSE [eeprom EXCEPT ![gone] = Erased]
       /\ index' = IF gone = None THEN index ELSE IndexWithout(gone)
       /\ writing' = IF failed THEN [writing EXCEPT !.pc = "write"] ELSE NextBlock(p)
       /\ allowed' =
             IF failed THEN [allowed EXCEPT ![p][writing.n] = OldMayBe(p, writing.n)]
             ELSE AfterErasing(gone, [allowed EXCEPT ![p][writing.n] = {v}], p, writing.n)
    /\ UNCHANGED <<firmware, power, stale, sets, failures>>

PowerFailure ==
    /\ power = "on" /\ power' = "off"
    /\ failures < MaxFailures /\ failures' = failures + 1
    /\ writing' = Idle /\ index' = {}
    /\ UNCHANGED <<eeprom, firmware, allowed, stale, sets>>

Upgrade ==
    /\ power = "off" /\ firmware + 1 \in DOMAIN KnownTo
    /\ firmware' = firmware + 1
    /\ UNCHANGED <<eeprom, index, writing, power, allowed, stale, sets, failures>>

Next ==
    \/ Start \/ Erase \/ WriteBlock \/ CheckBlock \/ ResetCfg \/ PowerFailure \/ Upgrade
    \/ \E p \in KnownTo[firmware] : Get(p) \/ \E v \in Values : Set(p, v)

Spec == Init /\ [][Next]_configVars

-----------------------------------------------------------------------------
(* Properties *)

\* After defaults were written, until the next start: the entry of p is an old one.
Misled(p) == stale /\ \E b \in InIndex(p, index) : ~(eeprom[b].id = p /\ eeprom[b].n = 0)

\* Every part of a parameter is read as it was last set, or as it was before when the power
\* failed meanwhile, however often writes fail.  Resets and upgrades, which forget the
\* index, harm only the parameters with an old entry, and the parts in the blocks that
\* such an entry led a write to.
SettingsSurvive ==
    power = "on" /\ writing.pc = "idle" =>
        \A p \in KnownTo[firmware] : \A n \in PartsOf(p) :
            (n = 0 /\ Misled(p)) \/ Stored(p, n) \in allowed[p][n]

\* With one block more than the parameters need there is always a free one: power failures
\* leave nothing behind that a start does not remove.
RoomToWrite == writing.pc = "write" => FreeBlock(eeprom) # None

StorageSound == TypeOK /\ SettingsSurvive /\ RoomToWrite

\* "seek to old parameter", "erase old block (if it exists)" (config.c 397, 422): what a
\* write erases is the old block of what it writes.
ErasesOldBlocks ==
    writing.pc = "check" /\ writing.old # None =>
        LET p == Head(writing.todo)[1]
            block == eeprom[writing.old]
        IN  writing.old # writing.free /\ block.id = p /\ block.n = writing.n
=============================================================================
