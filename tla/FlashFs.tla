------------------------------ MODULE FlashFs -------------------------------
(***************************************************************************)
(* The flash file system (src/src/ffs_block.c, ffs_page.c, ffs_gc.c and    *)
(* flash_fs.c) under power failures.                                       *)
(*                                                                         *)
(* The flash array is cut into erase blocks.  A block starts with two      *)
(* copies of its meta data (flags, file, number of the block in the file)  *)
(* and two copies of an index that says which page of the file each        *)
(* physical page holds; a rewritten page takes the next physical page of   *)
(* its block, and a block without a free page is copied to a new one.      *)
(* Everything else is RAM: the lists of free and dirty blocks, the list of *)
(* blocks of each file and its size.  Mounting rebuilds them from flash.   *)
(*                                                                         *)
(* File operations do not yield, so threads do not interleave with them,   *)
(* but the power may fail between two writes to the flash.  An operation   *)
(* is therefore a journal: the sequence of the states it goes through, one *)
(* for each flash state that mounting can tell from the others.            *)
(***************************************************************************)
EXTENDS Integers, Sequences, FiniteSets, SequencesExt, FiniteSetsExt

CONSTANTS
    NBlocks,        \* total_blocks
    NFiles,         \* FFS_MAX_FILES
    DataPages,      \* FFS_DATA_PAGES_PER_BLOCK
    PhysPages,      \* FFS_PAGES_PER_BLOCK
    MetaPages,      \* FFS_FILE_PAGE_DATA_0: the pages with a file's meta data
    Names,          \* the names of files, one of them GcData
    GcData,         \* "gc_data", where the collector counts erasures
    Values,         \* what users write into a page
    MaxPages,       \* bound: pages of a file
    MaxCrashes,     \* bound: power failures
    ReplaceWindow   \* may the power fail between line 560 and line 511?

ASSUME FlashFsAssumption ==
    /\ {NBlocks, NFiles, DataPages} \subseteq Nat \ {0}
    /\ PhysPages \in Nat /\ PhysPages > DataPages
    /\ MetaPages \in Nat \ {0}
    /\ GcData \in Names
    /\ "bad" \notin Names \cup Values   \* the mark of a page with a wrong checksum
    /\ MaxPages \in Nat /\ MetaPages < MaxPages /\ MaxCrashes \in Nat
    /\ ReplaceWindow \in BOOLEAN

VARIABLES
    fs,        \* the flash and the RAM of the file system
    gcReady,   \* the collector thread has passed its set up
    crashes,   \* how often the power failed
    allowed    \* history: the contents each file may have

vars == <<fs, gcReady, crashes, allowed>>

Blocks == 0 .. NBlocks - 1
Files == 0 .. NFiles - 1
PageData == Values \cup Names \cup {"meta1", "count"}

\* A physical page that was given to a logical page, in the order of the index;
\* "bad" is a page whose checksum is wrong.
Entry == (0 .. DataPages - 1) \X (PageData \cup {"bad"})

\* hdr: the flags of both headers are erased and so is the rest ("erased"), the
\* flags are erased but the rest is not ("garbled"), mounting takes the block for
\* a dirty one ("bad"), or the meta data is good ("valid").
\* torn: the two copies of the index differ.
Block == [hdr : {"erased", "garbled", "bad", "valid"}, file : Files, blk : Blocks,
          log : Seq(Entry), torn : BOOLEAN]

Blank(hdr) == [hdr |-> hdr, file |-> 0, blk |-> 0, log |-> <<>>, torn |-> FALSE]

Gone == <<"gone">>

TypeOK ==
    /\ fs.mode \in {"off", "on", "hung", "safe"}
    /\ fs.flash \in [Blocks -> Block]
    /\ \A b \in Blocks : Len(fs.flash[b].log) <= PhysPages
    /\ fs.free \in Seq(Blocks) /\ fs.dirty \in Seq(Blocks)
    /\ fs.list \in [Files -> Seq(Blocks)]
    /\ fs.size \in [Files -> -1 .. MaxPages]
    /\ gcReady \in BOOLEAN
    /\ crashes \in 0 .. MaxCrashes
    /\ \A f \in Files : allowed[f] # {}

-----------------------------------------------------------------------------
(* Blocks *)

\* A list that is built by a scan of all blocks.
Ascending(S) ==
    [k \in 1 .. Cardinality(S) |-> CHOOSE b \in S : Cardinality({c \in S : c < b}) = k - 1]

\* Mutant: the blocks are put into the dirty list, but not marked in the flash.
SetDirty_Unmarked(s, blocks) == [s EXCEPT !.dirty = @ \o blocks]
\* ffs_block_v_set_dirty, for one block after the other.  Either copy of the flags makes the
\* block a dirty one.
SetDirty(s, blocks) ==
    [s EXCEPT !.flash = [b \in Blocks |-> IF b \in Range(blocks) THEN Blank("bad") ELSE s.flash[b]],
              !.dirty = @ \o blocks]

\* Mutant: the blocks are marked from the last to the first.
Deleting_Backwards(s, f) ==
    LET blocks == Reverse(s.list[f])
    IN  [i \in 1 .. Len(blocks) |-> SetDirty(s, SubSeq(blocks, 1, i - 1))]
          \o <<[SetDirty(s, blocks) EXCEPT !.list[f] = <<>>, !.size[f] = -1]>>
\* ffs_page_i8_delete_file, in the order of the file's blocks; the state after
\* each write to the flash.
Deleting(s, f) ==
    LET blocks == s.list[f]
    IN  [i \in 1 .. Len(blocks) |-> SetDirty(s, SubSeq(blocks, 1, i - 1))]
          \o <<[SetDirty(s, blocks) EXCEPT !.list[f] = <<>>, !.size[f] = -1]>>

Trashed(s, f) == Last(Deleting(s, f))

\* ffs_block_i16_alloc and ffs_page_i8_alloc_block: the head of the free list
\* becomes the last block of the file.
AllocBlock(s, f) ==
    IF s.free = <<>> THEN <<s>>
    ELSE LET b == Head(s.free)
             taken == [s EXCEPT !.free = Tail(@)]
             valid == [s.flash[b] EXCEPT !.hdr = "valid", !.file = f,
                                         !.blk = Len(s.list[f])]
         IN  << s,
                [taken EXCEPT !.flash[b].hdr = "garbled"],
                [taken EXCEPT !.flash[b].hdr = "bad"],
                [taken EXCEPT !.flash[b] = valid, !.list[f] = Append(@, b)] >>

\* ffs_page_i32_seek_page scans the index backwards; 0 if the page is not there.
Place(block, i) ==
    LET places == {k \in DOMAIN block.log : block.log[k][1] = i}
    IN  IF places = {} THEN 0 ELSE Max(places)

\* ffs_page_i8_block_copy: page i of the old block goes to physical page i.
CopyOf(block) ==
    LET n == Cardinality({i \in 0 .. DataPages - 1 : Place(block, i) # 0})
    IN  [block EXCEPT !.log = [k \in 1 .. n |-> <<k - 1, block.log[Place(block, k - 1)][2]>>]]

\* ffs_page_i16_replace_block: copy block n of the file to a free block, put that
\* into the list of the file and set the old block dirty.
Replace(s, f, n) ==
    IF s.free = <<>> THEN <<s>>
    ELSE LET old == s.list[f][n + 1]
             new == Head(s.free)
             copy == CopyOf(s.flash[old])
             taken == [s EXCEPT !.free = Tail(@)]
             both == [taken EXCEPT !.flash[new] = copy, !.list[f][n + 1] = new]
         IN  << s,
                [taken EXCEPT !.flash[new] = [copy EXCEPT !.hdr = "garbled"]],
                [taken EXCEPT !.flash[new] = Blank("bad")] >>
             \o (IF ReplaceWindow THEN <<both>> ELSE <<>>)
             \o << SetDirty(both, <<old>>) >>

\* ffs_block_i8_erase, with the block already taken from the dirty list.
\* Mutant: the erased block does not go to the free list.
Erased_Lost(s, b) == [s EXCEPT !.flash[b] = Blank("erased")]
Erased(s, b) == [s EXCEPT !.flash[b] = Blank("erased"), !.free = Append(@, b)]

-----------------------------------------------------------------------------
(* Pages *)

\* Mutant: the index entry is the page of the file, not of the block.
PageIndex_Whole(p) == p
PageIndex(p) == p % DataPages

BlockOf(s, f, p) == s.flash[s.list[f][p \div DataPages + 1]]

\* ffs_page_i8_read succeeds.
IsReadable(s, f, p) ==
    /\ p \div DataPages < Len(s.list[f])
    /\ ~BlockOf(s, f, p).torn
    /\ LET k == Place(BlockOf(s, f, p), PageIndex(p))
       IN  k # 0 /\ BlockOf(s, f, p).log[k][2] # "bad"

Page(s, f, p) ==
    BlockOf(s, f, p).log[Place(BlockOf(s, f, p), PageIndex(p))][2]

Contents(s, f) ==
    IF s.size[f] < 0 THEN Gone ELSE [i \in 1 .. s.size[f] |-> Page(s, f, i - 1)]

\* ffs_i32_get_file_size: a file without all its meta data does not exist for
\* the users of the file system.
Exists(s, f) == s.size[f] >= MetaPages

Named(s, name) == {f \in Files : Exists(s, f) /\ Page(s, f, 0) = name}

\* A block that page p can be written to: ffs_page_i32_alloc_page allocates the
\* next block of the file, or replaces a block without a free page.
MakeRoom(s, f, n) ==
    IF n = Len(s.list[f]) THEN AllocBlock(s, f)
    ELSE IF Len(s.flash[s.list[f][n + 1]].log) = PhysPages THEN Replace(s, f, n)
    ELSE <<s>>

HasRoom(s, f, n) ==
    n < Len(s.list[f]) /\ Len(s.flash[s.list[f][n + 1]].log) < PhysPages

\* ffs_page_i8_write: the index entry in both copies of the index, then the page.
Logged(log, i, d) == Append(log, <<i, d>>)

WritePage(s, f, p, d) ==
    LET n == p \div DataPages
        i == PageIndex(p)
        room == MakeRoom(s, f, n)
        t == Last(room)
        b == t.list[f][n + 1]
        log == t.flash[b].log
    IN  IF ~HasRoom(t, f, n) THEN <<s>>
        ELSE room \o << [t EXCEPT !.flash[b].torn = TRUE],
                        [t EXCEPT !.flash[b].log = Logged(log, i, "bad")],
                        [t EXCEPT !.flash[b].log = Logged(log, i, d),
                                  !.size[f] = IF p < @ THEN @ ELSE p + 1] >>

\* Two operations one after the other.
Then(journal, next) == journal \o Tail(next)

\* ffs_i8_create_file and ffs_page_i8_create_file: the lowest free identifier, a
\* first block, then the pages with the meta data; without room for all of it the
\* file is deleted.
MetaData(name, p) == IF p = 0 THEN name ELSE "meta1"

Create(s, f, name) ==
    LET first == AllocBlock(s, f)
        start == Append(Front(first), [Last(first) EXCEPT !.size[f] = 0])
        w[p \in 0 .. MetaPages] ==
            IF p = 0 THEN start
            ELSE IF Last(w[p - 1]).size[f] < p - 1 THEN w[p - 1]   \* the write before failed
            ELSE Then(w[p - 1], WritePage(Last(w[p - 1]), f, p - 1, MetaData(name, p - 1)))
    IN  IF Len(first) = 1 THEN first
        ELSE IF Last(w[MetaPages]).size[f] = MetaPages THEN w[MetaPages]
        ELSE Then(w[MetaPages], Deleting(Last(w[MetaPages]), f))

FreeIds(s) == {f \in Files : s.size[f] < 0}

-----------------------------------------------------------------------------
(* Mounting *)

\* ffs_block_v_init: a block with erased flags is free; then
\* ffs_block_i8_verify_free_space, which leaves the free list at the first block
\* that is not erased, since marking it dirty ends the list it was in.
\* Mutant: the free space is not verified.
Unclean_None(flash) == {}
Unclean(flash) ==
    LET garbled == {b \in Blocks : flash[b].hdr = "garbled"}
    IN  IF garbled = {} THEN {} ELSE {Min(garbled)}

ScanBlocks(flash) ==
    LET unclean == Unclean(flash)
        blank == {b \in Blocks : flash[b].hdr \in {"erased", "garbled"}}
        bad == {b \in Blocks : flash[b].hdr = "bad"}
    IN  [ mode  |-> "on",
          flash |-> [b \in Blocks |-> IF b \in unclean THEN Blank("bad") ELSE flash[b]],
          free  |-> Ascending(blank \ unclean),
          dirty |-> Ascending(bad) \o Ascending(unclean),
          list  |-> [f \in Files |-> Ascending({b \in Blocks : flash[b].hdr = "valid"
                                                            /\ flash[b].file = f})],
          size  |-> [f \in Files |-> -1] ]

\* The first block on the list whose number was seen before.  Both headers that
\* are compared come from this block (lines 126 and 135), so it is never the newer
\* one; marking it dirty ends the list, and what follows is not looked at.
Duplicate(flash, list) ==
    Min({k \in DOMAIN list : \E j \in 1 .. k - 1 : flash[list[j]].blk = flash[list[k]].blk}
          \cup {Len(list) + 1})

\* ffs_page_i32_scan_file_size in pages, -1 if it fails: the last page of the last
\* block, or of the one before it when the last one is empty.
ScanSize(s, f) ==
    LET last == Len(s.list[f])
        Highest(k) == Max({s.flash[s.list[f][k]].log[i][1] :
                             i \in DOMAIN s.flash[s.list[f][k]].log} \cup {-1})
        Torn(k) == s.flash[s.list[f][k]].torn
        k == IF Highest(last) < 0 /\ last > 1 THEN last - 1 ELSE last
        page == (k - 1) * DataPages + Highest(k)
    IN  IF Torn(last) \/ Torn(k) THEN -1
        ELSE IF Highest(k) < 0 THEN 0
        ELSE IF IsReadable(s, f, page) THEN page + 1 ELSE -1

\* ffs_page_i8_file_scan
ScanOk(s, f) ==
    IF s.size[f] = 0 THEN Place(BlockOf(s, f, 0), 0) = 0
    ELSE \A p \in 0 .. s.size[f] - 1 : IsReadable(s, f, p)

\* The blocks of a file without gaps, as the map of the file has them.
InFileOrder(flash, blocks) ==
    [k \in DOMAIN blocks |-> CHOOSE b \in Range(blocks) : flash[b].blk = k - 1]

\* One turn of the loop over the files in ffs_page_v_init.  With a duplicate and a
\* gap the list of the file has become part of the dirty list, and
\* ffs_page_i8_delete_file never comes to its end.
MountFile(s, f) ==
    LET list == s.list[f]
        k == Duplicate(s.flash, list)
        kept == SubSeq(list, 1, k - 1)
        numbers == {s.flash[b].blk : b \in Range(kept)}
        gap == numbers # 0 .. Len(kept) - 1
        clean == IF k > Len(list) THEN s ELSE SetDirty(s, <<list[k]>>)
        rebuilt == [clean EXCEPT !.list[f] = InFileOrder(s.flash, kept)]
        sized == [rebuilt EXCEPT !.size[f] = ScanSize(rebuilt, f)]
    IN  IF list = <<>> THEN s
        ELSE IF gap /\ k > Len(list) THEN Trashed(s, f)
        ELSE IF gap THEN [Trashed([clean EXCEPT !.list[f] = kept], f) EXCEPT !.mode = "hung"]
        ELSE IF sized.size[f] < 0 \/ ~ScanOk(sized, f) THEN Trashed(sized, f)
        ELSE sized

Mounted(flash) ==
    LET m[f \in 0 .. NFiles] == IF f = 0 THEN ScanBlocks(flash)
                                ELSE IF m[f - 1].mode = "hung" THEN m[f - 1]
                                ELSE MountFile(m[f - 1], f - 1)
    IN  m[NFiles]

Unmounted(flash) ==
    [ mode |-> "off", flash |-> flash, free |-> <<>>, dirty |-> <<>>,
      list |-> [f \in Files |-> <<>>], size |-> [f \in Files |-> -1] ]

-----------------------------------------------------------------------------
(* The system.  An operation that wants file f to hold `want' either runs to   *)
(* its end or is cut short by a power failure.                                 *)

\* The flash device comes from the factory or has just been formatted.
Init ==
    /\ fs = Unmounted([b \in Blocks |-> Blank("erased")])
    /\ gcReady = FALSE
    /\ crashes = 0
    /\ allowed = [f \in Files |-> {Gone}]

Known(f) == IF fs.mode = "on" THEN {Contents(fs, f)} ELSE allowed[f]

PowerFails(flash, touched, news) ==
    /\ crashes < MaxCrashes
    /\ crashes' = crashes + 1
    /\ fs' = Unmounted(flash)
    /\ gcReady' = FALSE
    /\ allowed' = [f \in Files |-> IF f = touched THEN Known(f) \cup news ELSE Known(f)]

\* A file that is written when the power fails may be lost: mounting trashes it
\* when a page or the index is half written (line 203).  A new one may be partial.
Partial(f, want) ==
    {want, Gone} \cup IF Contents(fs, f) = Gone THEN {SubSeq(want, 1, n) : n \in 0 .. Len(want)}
                                                ELSE {}

CutShort(journal, f, want) ==
    \E k \in 2 .. Len(journal) - 1 : PowerFails(journal[k].flash, f, Partial(f, want))

Completes(journal, f, want) ==
    /\ fs' = Last(journal)
    /\ allowed' = [allowed EXCEPT ![f] = {want}]
    /\ UNCHANGED crashes

\* The operation fails when its journal leaves the file as it was.
Do(journal, f, want) ==
    \/ /\ Completes(journal, f, IF Contents(Last(journal), f) = Contents(fs, f)
                                THEN Contents(fs, f) ELSE want)
       /\ UNCHANGED gcReady
    \/ CutShort(journal, f, want)

PowerOff == PowerFails(fs.flash, 0, {})

Mount ==
    /\ fs.mode = "off"
    /\ fs' = Mounted(fs.flash)
    /\ UNCHANGED <<gcReady, crashes, allowed>>

\* Mounting writes to the flash only where it marks blocks dirty, behind those that were.
MountCutShort ==
    /\ fs.mode = "off"
    /\ LET dirty == Mounted(fs.flash).dirty
           marked == SubSeq(dirty, 1 + Cardinality({b \in Blocks : fs.flash[b].hdr = "bad"}), Len(dirty))
       IN  \E n \in 1 .. Len(marked) - 1 :
             PowerFails([b \in Blocks |-> IF b \in Range(SubSeq(marked, 1, n))
                                          THEN Blank("bad") ELSE fs.flash[b]], 0, {})

\* fs_f_open with FS_MODE_CREATE_IF_NOT_FOUND
CreateFile(name) ==
    /\ fs.mode = "on"
    /\ Named(fs, name) = {} /\ FreeIds(fs) # {}
    /\ LET f == Min(FreeIds(fs))
       IN  Do(Create(fs, f, name), f, [i \in 1 .. MetaPages |-> MetaData(name, i - 1)])

\* fs_i16_write of one page of data, at most at the end of the file.  Bound: what is
\* written over a page is different from what it holds.
WithPage(contents, p, d) ==
    IF p < Len(contents) THEN [contents EXCEPT ![p + 1] = d] ELSE Append(contents, d)

WriteFile(f, p, d) ==
    /\ fs.mode = "on"
    /\ Exists(fs, f) /\ p <= fs.size[f]
    /\ p < fs.size[f] => Page(fs, f, p) # d
    /\ fs.free # <<>>
    /\ Do(WritePage(fs, f, p, d), f, WithPage(Contents(fs, f), p, d))

\* fs_i8_delete_id
DeleteFile(f) ==
    /\ fs.mode = "on"
    /\ Exists(fs, f)
    /\ Do(Deleting(fs, f), f, Gone)

\* The start of garbage_collector_thread: find or create the file that counts
\* erasures, and fill it if it is empty.
GcStart ==
    /\ fs.mode = "on" /\ ~gcReady
    /\ LET found == Named(fs, GcData)
           new == found = {} /\ FreeIds(fs) # {}
           f == Min(IF found # {} THEN found ELSE IF new THEN FreeIds(fs) ELSE Files)
           opened == IF new THEN Create(fs, f, GcData) ELSE <<fs>>
           Fill(t) == IF (new \/ found # {}) /\ t.size[f] = MetaPages /\ t.free # <<>>
                      THEN WritePage(t, f, MetaPages, "count") ELSE <<t>>
           journal == Then(opened, Fill(Last(opened)))
           want == [i \in 1 .. MetaPages + 1 |-> IF i > MetaPages THEN "count"
                                                 ELSE MetaData(GcData, i - 1)]
       IN  \/ /\ Completes(journal, f, IF Contents(Last(journal), f) = Contents(fs, f)
                                       THEN Contents(fs, f)
                                       ELSE SubSeq(want, 1, Last(journal).size[f]))
              /\ gcReady' = TRUE
           \/ CutShort(journal, f, want)

\* Mutant: the collector takes the block that was marked last.
NextDirty_Last(dirty) == Len(dirty)
NextDirty(dirty) == 1

\* A turn of the inner loop of garbage_collector_thread: erase a dirty block, then
\* count it in the file.
GcStep ==
    /\ fs.mode = "on" /\ gcReady
    /\ fs.dirty # <<>>
    /\ LET b == fs.dirty[NextDirty(fs.dirty)]
           taken == [fs EXCEPT !.dirty = RemoveAt(@, NextDirty(fs.dirty))]
           erase == <<fs, [taken EXCEPT !.flash[b].hdr = "garbled"], Erased(taken, b)>>
           found == Named(fs, GcData)
           f == Min(found \cup {NFiles - 1})
           Count(t) == WritePage(t, f, MetaPages, "count")
       IN  IF found = {} THEN Do(erase, f, Contents(fs, f))
           ELSE Do(Then(erase, Count(Last(erase))), f, WithPage(Contents(fs, f), MetaPages, "count"))

\* wear_leveler_thread, with block b the one that was erased least.
WearLevel(b) ==
    /\ fs.mode = "on"
    /\ Named(fs, GcData) # {}
    /\ b \notin Range(fs.free) \cup Range(fs.dirty)
    /\ fs.flash[b].hdr = "valid"
    /\ LET f == fs.flash[b].file
           n == fs.flash[b].blk
       IN  IF n < Len(fs.list[f]) THEN Do(Replace(fs, f, n), f, Contents(fs, f))
           ELSE \* the assertion of line 480 restarts the system in safe mode
                /\ fs' = [Unmounted(fs.flash) EXCEPT !.mode = "safe"]
                /\ allowed' = [g \in Files |-> Known(g)]
                /\ gcReady' = FALSE
                /\ UNCHANGED crashes

Users ==
    \/ \E name \in Names : CreateFile(name)
    \/ \E f \in Files : DeleteFile(f)
    \/ \E f \in Files : \E p \in MetaPages .. MaxPages - 1 : \E d \in Values :
         f \notin Named(fs, GcData) /\ WriteFile(f, p, d)

Next ==
    \/ Mount
    \/ MountCutShort
    \/ PowerOff
    \/ Users
    \/ GcStart
    \/ GcStep
    \/ \E b \in Blocks : WearLevel(b)

Spec == Init /\ [][Next]_vars

-----------------------------------------------------------------------------
(* Properties *)

\* A mounted file system has every file as it was written, whatever power failures
\* came between.  Only the file that was being written when the power failed may be
\* lost, or new if that write was its creation; it is never a mixture of old and new.
FilesSurvive ==
    fs.mode = "on" => \A f \in Files : Contents(fs, f) \in allowed[f]

\* Every block on the free list is erased, so that a file never gets a block with
\* the leftovers of an interrupted copy or erasure in it.
FreeBlocksErased ==
    fs.mode = "on" => \A b \in Range(fs.free) : fs.flash[b] = Blank("erased")

\* Each block is in exactly one list: free, dirty, or one file's (line 174 of
\* ffs_block.c: otherwise it is gone until the next mount).
BlocksPartitioned ==
    LET lists == [x \in -2 .. NFiles - 1 |->
                     IF x = -2 THEN fs.free ELSE IF x = -1 THEN fs.dirty ELSE fs.list[x]]
    IN  fs.mode = "on" =>
          /\ \A b \in Blocks : \E x \in DOMAIN lists : b \in Range(lists[x])
          /\ \A x, y \in DOMAIN lists : \A i \in DOMAIN lists[x], j \in DOMAIN lists[y] :
                lists[x][i] = lists[y][j] => x = y /\ i = j

\* The blocks of a file are in the order of their numbers, each says so itself, and no
\* other block claims to be one of a file:
\* what a mount would find is what the lists in RAM say.
ListsMatchFlash ==
    fs.mode = "on" =>
        /\ \A f \in Files : \A k \in DOMAIN fs.list[f] :
            LET block == fs.flash[fs.list[f][k]]
            IN  block.hdr = "valid" /\ block.file = f /\ block.blk = k - 1
        /\ \A b \in Blocks : fs.flash[b].hdr = "valid" => b \in Range(fs.list[fs.flash[b].file])

\* A mounted volume is consistent, its lists in RAM with each other and with the flash.
VolumeSound == TypeOK /\ FreeBlocksErased /\ BlocksPartitioned /\ ListsMatchFlash

\* The collector erases dirty blocks in the order in which they were marked, so that
\* no block waits for ever, whatever users do to their files meanwhile.
OldestFirst ==
    [][fs.mode = "on" /\ fs'.mode = "on" =>
         \A i, j \in DOMAIN fs.dirty :
            i < j /\ fs.dirty[j] \notin Range(fs'.dirty) => fs.dirty[i] \notin Range(fs'.dirty)
      ]_vars

\* "no duplicate blocks, no missing blocks" (ffs_page.c:176): mounting comes to an
\* end, and every good block in flash is in the list of its file.
NoMissingBlocks ==
    /\ fs.mode # "hung"
    /\ fs.mode = "on" =>
         \A b \in Blocks : fs.flash[b].hdr = "valid" => b \in Range(fs.list[fs.flash[b].file])
=============================================================================
