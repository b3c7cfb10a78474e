--------------------------- MODULE FlashFsProofs ----------------------------
(***************************************************************************)
(* Files survive power failures, on a flash of any size, whatever files    *)
(* there are and however often the power fails, except between lines 560   *)
(* and 511 of ffs_page.c.                                                  *)
(*                                                                         *)
(* What a file holds is decided by the flash alone: Off says that a mount  *)
(* finds one of the given contents there, and mounting does (MountedGood). *)
(* So each operation needs only that in every state of its journal the     *)
(* flash has the old or the new contents of its file, or none, and of the  *)
(* other files what they had; and that the last state is a good volume.    *)
(* A power failure may then come at any step, and another one while the    *)
(* volume is mounted again.                                                *)
(***************************************************************************)
EXTENDS FlashFs, SequenceTheorems, FiniteSetTheorems, WellFoundedInduction, TLAPS

(* A state of the file system while it is mounted or off. *)
State == [mode : {"off", "on"}, flash : [Blocks -> Block], free : Seq(Blocks), dirty : Seq(Blocks),
          list : [Files -> Seq(Blocks)], size : [Files -> -1 .. MaxPages]]

(* The good blocks of a file, and the one with number k. *)
ValidOf(flash, f) == {b \in Blocks : flash[b].hdr = "valid" /\ flash[b].file = f}
At(flash, f, k) == CHOOSE b \in ValidOf(flash, f) : flash[b].blk = k

(* The pages of block n that a file of a size has, those a block holds, and what one holds. *)
InBlock(size, n) == {i \in 0 .. DataPages - 1 : n * DataPages + i < size}
Indices(block) == {block.log[k][1] : k \in DOMAIN block.log}
Held(block, i) == block.log[Place(block, i)][2]

(* The flash, mounted or not: no two blocks of a file have the same number, and at most one
   is half written. *)
FlashOk(flash) ==
    /\ flash \in [Blocks -> Block]
    /\ \A b \in Blocks : Len(flash[b].log) <= PhysPages
    /\ \A b \in Blocks : flash[b].hdr = "erased" => flash[b] = Blank("erased")
    /\ \A b, c \in Blocks : /\ flash[b].hdr = "valid" /\ flash[c].hdr = "valid"
                            /\ flash[b].file = flash[c].file /\ flash[b].blk = flash[c].blk
                            => b = c
    /\ \A b, c \in Blocks : flash[b].hdr = "garbled" /\ flash[c].hdr = "garbled" => b = c

(* The good blocks of a file are its first n ones, with the pages of a file of that size. *)
Shape(flash, f, n, size) ==
    /\ (n - 1) * DataPages <= size /\ size <= n * DataPages
    /\ \A b \in ValidOf(flash, f) : flash[b].blk < n
    /\ \A k \in 0 .. n - 1 : \E b \in ValidOf(flash, f) : flash[b].blk = k
    /\ \A b \in ValidOf(flash, f) : Indices(flash[b]) = InBlock(size, flash[b].blk)

Whole(flash, f) ==
    \A b \in ValidOf(flash, f) :
        ~flash[b].torn /\ \A i \in Indices(flash[b]) : Held(flash[b], i) # "bad"

PageAt(flash, f, p) == Held(flash[At(flash, f, p \div DataPages)], p % DataPages)
Text(flash, f, size) == [i \in 1 .. size |-> PageAt(flash, f, i - 1)]

(* What a mount makes of a file is one of A. *)
Off(flash, f, A) ==
    \/ Gone \in A /\ \A b \in ValidOf(flash, f) : flash[b].blk # 0
    \/ \E n \in 1 .. NBlocks, size \in 0 .. MaxPages :
         /\ Shape(flash, f, n, size)
         /\ Whole(flash, f) => Text(flash, f, size) \in A
         /\ ~Whole(flash, f) => Gone \in A

Enumerates(seq, S) ==
    /\ seq \in Seq(Blocks)
    /\ Range(seq) = S
    /\ \A i, j \in DOMAIN seq : seq[i] = seq[j] => i = j

(* A mounted file. *)
OnFile(s, f) ==
    IF s.size[f] = -1 THEN s.list[f] = <<>> /\ ValidOf(s.flash, f) = {}
    ELSE /\ Len(s.list[f]) \in 1 .. NBlocks
         /\ Shape(s.flash, f, Len(s.list[f]), s.size[f])
         /\ Whole(s.flash, f)
         /\ s.list[f] = [k \in 1 .. Len(s.list[f]) |-> At(s.flash, f, k - 1)]

Headed(flash, hdr) == {b \in Blocks : flash[b].hdr = hdr}

(* The lists of free and dirty blocks of a mounted volume. *)
Volume(s) ==
    /\ s \in State /\ s.mode = "on"
    /\ FlashOk(s.flash)
    /\ Headed(s.flash, "garbled") = {}
    /\ Enumerates(s.free, Headed(s.flash, "erased"))
    /\ Enumerates(s.dirty, Headed(s.flash, "bad"))

(* A mounted volume. *)
Good(s) == Volume(s) /\ \A f \in Files : OnFile(s, f)

(* A volume of which the mount has done the files in done. *)
Partly(s, done) ==
    /\ Volume(s)
    /\ \A f \in done : OnFile(s, f)
    /\ \A f \in Files \ done : s.size[f] = -1 /\ Enumerates(s.list[f], ValidOf(s.flash, f))

(* Pages 1 .. MetaPages - 1 are the second half of the meta data in all that a file may hold. *)
AllowedOk ==
    /\ DOMAIN allowed = Files
    /\ \A f \in Files :
        /\ allowed[f] # {}
        /\ \A c \in allowed[f] : \A i \in 2 .. MetaPages : i <= Len(c) => c[i] = "meta1"

(* The inductive invariant. *)
FsInv ==
    /\ gcReady \in BOOLEAN
    /\ crashes \in 0 .. MaxCrashes
    /\ AllowedOk
    /\ \/ /\ Good(fs)
          /\ \A f \in Files : Contents(fs, f) \in allowed[f]
       \/ /\ FlashOk(fs.flash)
          /\ fs = Unmounted(fs.flash)
          /\ \A f \in Files : Off(fs.flash, f, allowed[f])

(* The flash while file f is being changed: a mount finds one of A there, and the other files. *)
CutOk(s, f, A, flash) ==
    /\ FlashOk(flash)
    /\ \A g \in Files : Off(flash, g, IF g = f THEN A ELSE {Contents(s, g)})

(* The states that an operation on file f of a mounted volume goes through. *)
Journal(J, s, f, A) ==
    /\ J \in Seq(State) /\ J # <<>>
    /\ Len(J) = 1 => J = <<s>>
    /\ \A k \in 1 .. Len(J) : CutOk(s, f, A, J[k].flash)
    /\ Good(Last(J))
    /\ \A g \in Files \ {f} : Contents(Last(J), g) = Contents(s, g)

(* A file that an operation on another one leaves alone. *)
Untouched(flash, flash2, f) ==
    /\ ValidOf(flash2, f) = ValidOf(flash, f)
    /\ \A b \in ValidOf(flash, f) : flash2[b] = flash[b]

Alike(s, t, f) ==
    /\ t.list[f] = s.list[f] /\ t.size[f] = s.size[f]
    /\ Untouched(s.flash, t.flash, f)

Put(flash, b, block) == [flash EXCEPT ![b] = block]
-----------------------------------------------------------------------------
(* Numbers and sets                                                          *)

LEMMA Sizes ==
    /\ NBlocks \in Nat /\ NBlocks >= 1 /\ NFiles \in Nat /\ NFiles >= 1
    /\ DataPages \in Nat /\ DataPages >= 1 /\ PhysPages \in Nat /\ PhysPages > DataPages
    /\ MetaPages \in Nat /\ MetaPages >= 1 /\ MaxPages \in Nat /\ MetaPages < MaxPages
    /\ MaxCrashes \in Nat
BY FlashFsAssumption

(* A set of numbers with 0 and the successor of each of its members has them all. *)
LEMMA NatInduct ==
    ASSUME NEW S, 0 \in S, \A n \in Nat : n \in S => n + 1 \in S
    PROVE  Nat \subseteq S
<1> SUFFICES ASSUME Nat \ S # {} PROVE FALSE OBVIOUS
<1>1. IsWellFoundedOn(OpToRel(<, Nat), Nat) BY NatLessThanWellFounded
<1>2. PICK x \in Nat \ S : \A y \in Nat \ S : ~ (<<y, x>> \in OpToRel(<, Nat))
  <2> HIDE DEF OpToRel
  <2> QED BY <1>1, WFMin, Nat \ S \subseteq Nat
<1>3. \A y \in Nat \ S : ~(y < x) BY <1>2 DEF OpToRel
<1>4. x \in Nat /\ x \notin S BY <1>2
<1>5. x # 0 BY <1>4
<1>6. x - 1 \in Nat /\ x - 1 < x BY <1>4, <1>5
<1>7. x - 1 \in S BY <1>3, <1>6
<1>8. (x - 1) + 1 \in S BY <1>6, <1>7
<1> QED BY <1>4, <1>8

LEMMA LeastMember ==
    ASSUME NEW S \in SUBSET Nat, S # {}
    PROVE  \E n \in S : \A m \in S : n <= m
<1>1. IsWellFoundedOn(OpToRel(<, Nat), Nat) BY NatLessThanWellFounded
<1>2. PICK x \in S : \A y \in S : ~ (<<y, x>> \in OpToRel(<, Nat)) BY <1>1, WFMin
<1>3. \A y \in S : ~(y < x) BY <1>2 DEF OpToRel
<1> QED BY <1>3

LEMMA MinIn ==
    ASSUME NEW S \in SUBSET Nat, S # {}
    PROVE  Min(S) \in S /\ \A m \in S : Min(S) <= m
BY LeastMember DEF Min

LEMMA MaxIn ==
    ASSUME NEW n \in Nat, NEW S \in SUBSET (-1 .. n), S # {}
    PROVE  Max(S) \in S /\ \A m \in S : m <= Max(S)
<1> DEFINE T == {n - m : m \in S}
<1>1. T \in SUBSET Nat /\ T # {}
  <2>1. \A m \in S : n - m \in Nat OBVIOUS
  <2> QED BY <2>1
<1>2. PICK t \in T : \A u \in T : t <= u
  <2> HIDE DEF T
  <2> QED BY <1>1, LeastMember
<1>3. PICK x \in S : t = n - x BY <1>2
<1>4. \A m \in S : m <= x
  <2> TAKE m \in S
  <2>1. n - m \in T OBVIOUS
  <2>2. t <= n - m
    <3> HIDE DEF T
    <3> QED BY <2>1, <1>2
  <2> QED BY <2>2, <1>3
<1> QED BY <1>3, <1>4 DEF Max

(* Pages are numbered by their block and their place in it. *)
LEMMA DivMod ==
    ASSUME NEW p \in Nat
    PROVE  /\ p \div DataPages \in Nat /\ p % DataPages \in 0 .. DataPages - 1
           /\ p = ((p \div DataPages) * DataPages) + (p % DataPages)
<1>1. p \div DataPages \in Int BY Sizes
<1>2. p % DataPages \in 0 .. DataPages - 1 BY Sizes
<1>3. p = ((p \div DataPages) * DataPages) + (p % DataPages) BY Sizes
<1>4. p \div DataPages >= 0 BY Sizes, <1>1, <1>2, <1>3
<1> QED BY <1>1, <1>2, <1>3, <1>4

LEMMA Multiples ==
    ASSUME NEW m \in Int, NEW n \in Int, m < n
    PROVE  m * DataPages + DataPages <= n * DataPages
BY Sizes

LEMMA DivUnique ==
    ASSUME NEW n \in Nat, NEW i \in 0 .. DataPages - 1, NEW p \in Nat, p = n * DataPages + i
    PROVE  p \div DataPages = n /\ p % DataPages = i
<1> DEFINE m == p \div DataPages
           j == p % DataPages
<1>1. m \in Nat /\ j \in 0 .. DataPages - 1 /\ p = m * DataPages + j BY DivMod
<1> SUFFICES m = n /\ j = i OBVIOUS
<1> HIDE DEF m, j
<1>2. CASE m < n BY <1>1, <1>2, Sizes, Multiples
<1>3. CASE n < m BY <1>1, <1>3, Sizes, Multiples
<1>4. CASE n = m BY <1>1, <1>4, Sizes
<1> QED BY <1>1, <1>2, <1>3, <1>4

-----------------------------------------------------------------------------
(* Lists of blocks                                                           *)

LEMMA BlocksFinite ==
    /\ IsFiniteSet(Blocks)
    /\ \A S \in SUBSET Blocks : IsFiniteSet(S)
<1>1. IsFiniteSet(Blocks) BY FS_Interval, Sizes DEF Blocks
<1> QED BY <1>1, FS_Subset

(* The ranks of the members of a set of blocks are different. *)
LEMMA Ranks ==
    ASSUME NEW S \in SUBSET Blocks, NEW b \in S, NEW c \in S, b < c
    PROVE  Cardinality({d \in S : d < b}) < Cardinality({d \in S : d < c})
<1> DEFINE B == {d \in S : d < b}
           C == {d \in S : d < c}
<1>1. IsFiniteSet(B) /\ IsFiniteSet(C) BY BlocksFinite
<1>2. B \subseteq C
  <2> SUFFICES ASSUME NEW d \in S, d < b PROVE d < c OBVIOUS
  <2> QED BY Sizes DEF Blocks
<1>3. b \in C /\ b \notin B BY Sizes DEF Blocks
<1>4. Cardinality(B) <= Cardinality(C) /\ (Cardinality(C) = Cardinality(B) => C = B)
  <2> HIDE DEF B, C
  <2>1. B \in SUBSET C BY <1>2
  <2> QED BY <1>1, <2>1, FS_Subset
<1>5. Cardinality(B) \in Nat /\ Cardinality(C) \in Nat
  <2> HIDE DEF B, C
  <2> QED BY <1>1, FS_CardinalityType
<1> HIDE DEF B, C
<1>6. Cardinality(B) < Cardinality(C) BY <1>3, <1>4, <1>5
<1> QED BY <1>6 DEF B, C

(* A scan of all blocks lists the ones it looks for, each once. *)
LEMMA AscendingEnumerates ==
    ASSUME NEW S \in SUBSET Blocks
    PROVE  /\ Enumerates(Ascending(S), S)
           /\ Len(Ascending(S)) = Cardinality(S) /\ Cardinality(S) \in Nat
<1> DEFINE n == Cardinality(S)
           rank == [b \in S |-> Cardinality({d \in S : d < b})]
<1>1. IsFiniteSet(S) /\ n \in Nat BY BlocksFinite, FS_CardinalityType
<1>2. \A b \in S : rank[b] \in 0 .. n - 1
  <2> TAKE b \in S
  <2> DEFINE B == {d \in S : d < b}
  <2>1. B \in SUBSET S /\ b \notin B BY Sizes DEF Blocks
  <2>2. Cardinality(B) <= n /\ (n = Cardinality(B) => S = B)
    <3> HIDE DEF B
    <3> QED BY <2>1, <1>1, FS_Subset
  <2>3. Cardinality(B) \in Nat
    <3>1. IsFiniteSet(B) BY BlocksFinite
    <3> HIDE DEF B
    <3> QED BY <3>1, FS_CardinalityType
  <2>4. Cardinality(B) \in 0 .. n - 1
    <3> HIDE DEF B, n
    <3> QED BY <2>1, <2>2, <2>3, <1>1
  <2> QED BY <2>4
<1>3. \A b, c \in S : rank[b] = rank[c] => b = c
  <2> SUFFICES ASSUME NEW b \in S, NEW c \in S, b # c PROVE rank[b] # rank[c] OBVIOUS
  <2>1. b \in Int /\ c \in Int BY Sizes DEF Blocks
  <2>2. Cardinality({d \in S : d < b}) \in Nat /\ Cardinality({d \in S : d < c}) \in Nat
    <3>1. IsFiniteSet({d \in S : d < b}) /\ IsFiniteSet({d \in S : d < c}) BY BlocksFinite
    <3> QED BY <3>1, FS_CardinalityType
  <2>3. CASE b < c BY <2>3, <2>2, Ranks
  <2>4. CASE c < b BY <2>4, <2>2, Ranks
  <2> QED BY <2>1, <2>3, <2>4
<1>4. rank \in Surjection(S, 0 .. n - 1)
  <2> DEFINE T == 0 .. n - 1
  <2>1. IsFiniteSet(T) /\ Cardinality(T) = n BY <1>1, FS_Interval
  <2>2. rank \in Injection(S, T) BY <1>2, <1>3 DEF Injection, IsInjective
  <2>3. Cardinality(S) = Cardinality(T) <=> rank \in Surjection(S, T)
    <3> HIDE DEF rank, T
    <3> QED BY <2>1, <2>2, FS_Injection
  <2> QED BY <2>1, <2>3
<1>5. \A b \in S : rank[b] = Cardinality({d \in S : d < b}) OBVIOUS
<1>6. Ascending(S) = [k \in 1 .. n |-> CHOOSE b \in S : rank[b] = k - 1]
  <2>1. \A k \in 1 .. n : (CHOOSE b \in S : rank[b] = k - 1)
                           = CHOOSE b \in S : Cardinality({d \in S : d < b}) = k - 1
    OBVIOUS
  <2> QED BY <2>1 DEF Ascending
<1> HIDE DEF rank, n
<1>7. \A k \in 1 .. n : \E b \in S : rank[b] = k - 1 BY <1>4, <1>1 DEF Surjection
<1>8. \A k \in 1 .. n : Ascending(S)[k] \in S /\ rank[Ascending(S)[k]] = k - 1 BY <1>6, <1>7
<1>9. DOMAIN Ascending(S) = 1 .. n /\ Ascending(S) \in [1 .. n -> S] BY <1>6, <1>8
<1>10. Ascending(S) \in Seq(S) /\ Len(Ascending(S)) = n BY <1>1, <1>9
<1>11. Ascending(S) \in Seq(Blocks) BY <1>10, SeqMonotonic
<1>12. \A b \in S : \E k \in 1 .. n : Ascending(S)[k] = b
  <2> TAKE b \in S
  <2>1. rank[b] + 1 \in 1 .. n /\ (rank[b] + 1) - 1 = rank[b] BY <1>2, <1>1
  <2>2. rank[Ascending(S)[rank[b] + 1]] = rank[b] BY <2>1, <1>8
  <2> QED BY <2>1, <2>2, <1>3, <1>8
<1>13. Range(Ascending(S)) = S BY <1>8, <1>9, <1>12 DEF Range
<1>14. \A i, j \in DOMAIN Ascending(S) : Ascending(S)[i] = Ascending(S)[j] => i = j
  BY <1>8, <1>9, <1>1
<1> QED BY <1>1, <1>10, <1>11, <1>13, <1>14 DEF Enumerates, n

LEMMA EnumeratesNothing ==
    /\ Enumerates(<<>>, {})
    /\ \A seq : Enumerates(seq, {}) => seq = <<>>
<1>1. Enumerates(<<>>, {}) BY DEF Enumerates, Range
<1>2. ASSUME NEW seq, Enumerates(seq, {}) PROVE seq = <<>>
  <2>1. seq \in Seq(Blocks) /\ Range(seq) = {} BY <1>2 DEF Enumerates
  <2>2. ASSUME seq # <<>> PROVE FALSE
    <3>1. Len(seq) \in Nat \ {0} BY <2>1, <2>2, EmptySeq
    <3>2. 1 \in DOMAIN seq BY <2>1, <3>1
    <3>3. seq[1] \in Range(seq) BY <3>2 DEF Range
    <3> QED BY <2>1, <3>3
  <2> QED BY <2>2
<1> QED BY <1>1, <1>2

LEMMA EnumeratesOne ==
    ASSUME NEW b \in Blocks
    PROVE  Enumerates(<<b>>, {b})
<1>1. <<b>> \in Seq(Blocks) OBVIOUS
<1>2. DOMAIN <<b>> = {1} /\ <<b>>[1] = b OBVIOUS
<1>3. Range(<<b>>) = {b} BY <1>2 DEF Range
<1> QED BY <1>1, <1>2, <1>3 DEF Enumerates

LEMMA EnumeratesMember ==
    ASSUME NEW S, NEW seq, Enumerates(seq, S)
    PROVE  /\ seq \in Seq(Blocks) /\ S \subseteq Blocks
           /\ Len(seq) \in Nat /\ DOMAIN seq = 1 .. Len(seq)
           /\ \A i \in 1 .. Len(seq) : seq[i] \in S
           /\ \A b \in S : \E i \in 1 .. Len(seq) : seq[i] = b
           /\ \A i, j \in 1 .. Len(seq) : seq[i] = seq[j] => i = j
<1>1. seq \in Seq(Blocks) /\ Range(seq) = S BY DEF Enumerates
<1>2. Len(seq) \in Nat /\ DOMAIN seq = 1 .. Len(seq) BY <1>1, LenProperties
<1>3. \A i, j \in 1 .. Len(seq) : seq[i] = seq[j] => i = j BY <1>2 DEF Enumerates
<1>4. \A i \in 1 .. Len(seq) : seq[i] \in S /\ seq[i] \in Blocks
  BY <1>1, <1>2, ElementOfSeq DEF Range
<1>5. \A b \in S : \E i \in 1 .. Len(seq) : seq[i] = b BY <1>1, <1>2 DEF Range
<1> QED BY <1>1, <1>2, <1>3, <1>4, <1>5

LEMMA EnumeratesBy ==
    ASSUME NEW seq \in Seq(Blocks), NEW S,
           \A i \in 1 .. Len(seq) : seq[i] \in S,
           \A b \in S : \E i \in 1 .. Len(seq) : seq[i] = b,
           \A i, j \in 1 .. Len(seq) : seq[i] = seq[j] => i = j
    PROVE  Enumerates(seq, S)
<1>1. DOMAIN seq = 1 .. Len(seq) BY LenProperties
<1>2. Range(seq) = S BY <1>1 DEF Range
<1> QED BY <1>1, <1>2 DEF Enumerates

(* The head of a list is taken from it. *)
LEMMA EnumeratesTail ==
    ASSUME NEW S, NEW seq, Enumerates(seq, S), seq # <<>>
    PROVE  /\ Head(seq) \in S /\ Head(seq) = seq[1]
           /\ Enumerates(Tail(seq), S \ {Head(seq)})
<1>1. /\ seq \in Seq(Blocks) /\ Len(seq) \in Nat
      /\ \A i \in 1 .. Len(seq) : seq[i] \in S
      /\ \A b \in S : \E i \in 1 .. Len(seq) : seq[i] = b
      /\ \A i, j \in 1 .. Len(seq) : seq[i] = seq[j] => i = j
  BY EnumeratesMember
<1>2. Len(seq) >= 1 BY <1>1, EmptySeq
<1>3. Head(seq) = seq[1] BY <1>1
<1>4. /\ Tail(seq) \in Seq(Blocks) /\ Len(Tail(seq)) = Len(seq) - 1
      /\ \A i \in 1 .. Len(Tail(seq)) : Tail(seq)[i] = seq[i + 1]
  BY <1>1, HeadTailProperties
<1>5. \A i \in 1 .. Len(Tail(seq)) : Tail(seq)[i] \in S \ {Head(seq)}
  BY <1>1, <1>2, <1>3, <1>4
<1>6. ASSUME NEW b \in S \ {Head(seq)} PROVE \E i \in 1 .. Len(Tail(seq)) : Tail(seq)[i] = b
  <2>1. PICK i \in 1 .. Len(seq) : seq[i] = b BY <1>1
  <2>2. i # 1 BY <2>1, <1>3
  <2>3. i - 1 \in 1 .. Len(Tail(seq)) /\ (i - 1) + 1 = i BY <2>2, <1>4, <1>1
  <2>4. Tail(seq)[i - 1] = b BY <2>3, <2>1, <1>4
  <2> QED BY <2>3, <2>4
<1>7. \A i, j \in 1 .. Len(Tail(seq)) : Tail(seq)[i] = Tail(seq)[j] => i = j
  BY <1>1, <1>4
<1>8. Enumerates(Tail(seq), S \ {Head(seq)}) BY <1>4, <1>5, <1>6, <1>7, EnumeratesBy
<1> QED BY <1>1, <1>2, <1>3, <1>8

LEMMA EnumeratesBoth ==
    ASSUME NEW S, NEW T, NEW s, NEW t, Enumerates(s, S), Enumerates(t, T), S \cap T = {}
    PROVE  Enumerates(s \o t, S \cup T)
<1>1. /\ s \in Seq(Blocks) /\ Len(s) \in Nat
      /\ \A i \in 1 .. Len(s) : s[i] \in S
      /\ \A b \in S : \E i \in 1 .. Len(s) : s[i] = b
      /\ \A i, j \in 1 .. Len(s) : s[i] = s[j] => i = j
  BY EnumeratesMember
<1>2. /\ t \in Seq(Blocks) /\ Len(t) \in Nat
      /\ \A i \in 1 .. Len(t) : t[i] \in T
      /\ \A b \in T : \E i \in 1 .. Len(t) : t[i] = b
      /\ \A i, j \in 1 .. Len(t) : t[i] = t[j] => i = j
  BY EnumeratesMember
<1>3. /\ s \o t \in Seq(Blocks)
      /\ Len(s \o t) = Len(s) + Len(t)
      /\ \A i \in 1 .. Len(s) + Len(t) :
           (s \o t)[i] = IF i <= Len(s) THEN s[i] ELSE t[i - Len(s)]
  BY <1>1, <1>2, ConcatProperties
<1>4. \A i \in 1 .. Len(s \o t) : (s \o t)[i] \in S \cup T
  <2> TAKE i \in 1 .. Len(s \o t)
  <2>1. CASE i <= Len(s) BY <2>1, <1>1, <1>3, <1>2
  <2>2. CASE ~(i <= Len(s))
    <3>1. i - Len(s) \in 1 .. Len(t) BY <2>2, <1>1, <1>2, <1>3
    <3> QED BY <3>1, <2>2, <1>1, <1>2, <1>3
  <2> QED BY <2>1, <2>2
<1>5. ASSUME NEW b \in S \cup T PROVE \E i \in 1 .. Len(s \o t) : (s \o t)[i] = b
  <2>1. CASE b \in S
    <3>1. PICK i \in 1 .. Len(s) : s[i] = b BY <2>1, <1>1
    <3> QED BY <3>1, <1>1, <1>2, <1>3
  <2>2. CASE b \in T
    <3>1. PICK i \in 1 .. Len(t) : t[i] = b BY <2>2, <1>2
    <3>2. i + Len(s) \in 1 .. Len(s) + Len(t) /\ ~(i + Len(s) <= Len(s)) /\ (i + Len(s)) - Len(s) = i
      BY <1>1, <1>2
    <3>3. (s \o t)[i + Len(s)] = b BY <3>1, <3>2, <1>3
    <3> QED BY <3>2, <3>3, <1>3
  <2> QED BY <2>1, <2>2
<1>6. \A i, j \in 1 .. Len(s \o t) : (s \o t)[i] = (s \o t)[j] => i = j
  <2> TAKE i, j \in 1 .. Len(s \o t)
  <2> HAVE (s \o t)[i] = (s \o t)[j]
  <2>1. CASE i <= Len(s) /\ j <= Len(s) BY <2>1, <1>1, <1>2, <1>3
  <2>2. CASE i <= Len(s) /\ ~(j <= Len(s))
    <3>1. j - Len(s) \in 1 .. Len(t) BY <2>2, <1>1, <1>2, <1>3
    <3>2. s[i] \in S /\ t[j - Len(s)] \in T BY <2>2, <3>1, <1>1, <1>2
    <3> QED BY <2>2, <3>2, <1>1, <1>2, <1>3
  <2>3. CASE ~(i <= Len(s)) /\ j <= Len(s)
    <3>1. i - Len(s) \in 1 .. Len(t) BY <2>3, <1>1, <1>2, <1>3
    <3>2. s[j] \in S /\ t[i - Len(s)] \in T BY <2>3, <3>1, <1>1, <1>2
    <3> QED BY <2>3, <3>2, <1>1, <1>2, <1>3
  <2>4. CASE ~(i <= Len(s)) /\ ~(j <= Len(s))
    <3>1. j - Len(s) \in 1 .. Len(t) /\ i - Len(s) \in 1 .. Len(t) BY <2>4, <1>1, <1>2, <1>3
    <3>2. t[i - Len(s)] = t[j - Len(s)] BY <2>4, <1>3
    <3>3. i - Len(s) = j - Len(s) BY <3>1, <3>2, <1>2
    <3> QED BY <3>3, <1>1, <1>2, <1>3
  <2> QED BY <2>1, <2>2, <2>3, <2>4
<1> QED BY <1>3, <1>4, <1>5, <1>6, EnumeratesBy

LEMMA EnumeratesAppend ==
    ASSUME NEW S, NEW seq, Enumerates(seq, S), NEW b \in Blocks, b \notin S
    PROVE  Enumerates(Append(seq, b), S \cup {b})
<1>1. seq \in Seq(Blocks) BY DEF Enumerates
<1>2. Append(seq, b) = seq \o <<b>> BY <1>1, AppendIsConcat
<1>3. S \cap {b} = {} OBVIOUS
<1>4. Enumerates(<<b>>, {b}) BY EnumeratesOne
<1>5. Enumerates(seq \o <<b>>, S \cup {b}) BY <1>3, <1>4, EnumeratesBoth
<1> QED BY <1>2, <1>5

-----------------------------------------------------------------------------
(* Blocks                                                                    *)

LEMMA BlockType ==
    /\ \A hdr \in {"erased", "garbled", "bad", "valid"} : Blank(hdr) \in Block
    /\ \A block \in Block : /\ block.hdr \in {"erased", "garbled", "bad", "valid"}
                            /\ block.file \in Files /\ block.blk \in Blocks
                            /\ block.log \in Seq(Entry) /\ block.torn \in BOOLEAN
    /\ \A hdr : /\ Blank(hdr).hdr = hdr /\ Blank(hdr).log = <<>>
                /\ Len(Blank(hdr).log) = 0
<1>1. 0 \in Files /\ 0 \in Blocks /\ <<>> \in Seq(Entry) BY Sizes DEF Files, Blocks
<1> QED BY <1>1 DEF Block, Blank

(* Any blocks may be marked dirty. *)
Marked(flash, S) == [b \in Blocks |-> IF b \in S THEN Blank("bad") ELSE flash[b]]

LEMMA MarkedOk ==
    ASSUME NEW flash, FlashOk(flash), NEW S
    PROVE  FlashOk(Marked(flash, S))
<1> DEFINE marked == Marked(flash, S)
<1>1. Blank("bad") \in Block /\ Blank("bad").hdr = "bad" /\ Len(Blank("bad").log) = 0
  BY BlockType
<1>2. PhysPages >= 0 BY Sizes
<1>3. marked \in [Blocks -> Block] BY <1>1 DEF Marked, FlashOk
<1>4. \A b \in Blocks : marked[b] = flash[b] \/ marked[b] = Blank("bad") BY DEF Marked
<1>5. \A b \in Blocks : Len(marked[b].log) <= PhysPages BY <1>1, <1>2, <1>4 DEF FlashOk
<1>6. \A b \in Blocks : marked[b].hdr # "bad" => marked[b] = flash[b] BY <1>1, <1>4
<1> HIDE DEF marked
<1>7. FlashOk(marked)
  <2>1. \A b \in Blocks : marked[b].hdr = "erased" => marked[b] = Blank("erased")
    BY <1>6 DEF FlashOk
  <2>2. \A b, c \in Blocks : /\ marked[b].hdr = "valid" /\ marked[c].hdr = "valid"
                             /\ marked[b].file = marked[c].file /\ marked[b].blk = marked[c].blk
                             => b = c
    BY <1>6 DEF FlashOk
  <2>3. \A b, c \in Blocks : marked[b].hdr = "garbled" /\ marked[c].hdr = "garbled" => b = c
    BY <1>6 DEF FlashOk
  <2> QED BY <1>3, <1>5, <2>1, <2>2, <2>3 DEF FlashOk
<1> QED BY <1>7 DEF marked

-----------------------------------------------------------------------------
(* Pages of a block                                                          *)

LEMMA LogType ==
    ASSUME NEW block \in Block
    PROVE  /\ block.log \in Seq(Entry) /\ Len(block.log) \in Nat
           /\ DOMAIN block.log = 1 .. Len(block.log)
           /\ \A k \in 1 .. Len(block.log) :
                /\ block.log[k] \in Entry
                /\ block.log[k][1] \in 0 .. DataPages - 1
                /\ block.log[k][2] \in PageData \cup {"bad"}
                /\ block.log[k] = <<block.log[k][1], block.log[k][2]>>
<1>1. block.log \in Seq(Entry) BY BlockType
<1>2. Len(block.log) \in Nat /\ DOMAIN block.log = 1 .. Len(block.log) BY <1>1, LenProperties
<1>3. \A k \in 1 .. Len(block.log) : block.log[k] \in Entry BY <1>1, ElementOfSeq
<1> QED BY <1>1, <1>2, <1>3 DEF Entry

(* The index leads to the last page that was written for an index entry. *)
LEMMA PlaceOf ==
    ASSUME NEW block \in Block, NEW i \in 0 .. DataPages - 1
    PROVE  /\ i \in Indices(block) => /\ Place(block, i) \in DOMAIN block.log
                                      /\ block.log[Place(block, i)][1] = i
                                      /\ \A k \in DOMAIN block.log :
                                           block.log[k][1] = i => k <= Place(block, i)
           /\ i \notin Indices(block) => Place(block, i) = 0
           /\ Place(block, i) # 0 <=> i \in Indices(block)
<1> DEFINE places == {k \in DOMAIN block.log : block.log[k][1] = i}
<1>1. Len(block.log) \in Nat /\ DOMAIN block.log = 1 .. Len(block.log) BY LogType
<1>2. Place(block, i) = IF places = {} THEN 0 ELSE Max(places) BY DEF Place
<1>3. places = {} <=> i \notin Indices(block) BY DEF Indices
<1>4. ASSUME places # {} PROVE Max(places) \in places /\ \A k \in places : k <= Max(places)
  <2>1. places \in SUBSET (-1 .. Len(block.log)) BY <1>1
  <2> HIDE DEF places
  <2> QED BY <2>1, <1>1, <1>4, MaxIn
<1>5. CASE places = {} BY <1>5, <1>2, <1>3
<1>6. CASE places # {}
  <2>1. Place(block, i) = Max(places) BY <1>2, <1>6
  <2>2. Place(block, i) \in places /\ \A k \in places : k <= Place(block, i) BY <2>1, <1>4, <1>6
  <2>3. Place(block, i) # 0 BY <2>2, <1>1
  <2> QED BY <2>2, <2>3, <1>3, <1>6
<1> QED BY <1>5, <1>6

LEMMA PlaceBy ==
    ASSUME NEW block \in Block, NEW k \in DOMAIN block.log,
           \A l \in DOMAIN block.log : block.log[l][1] = block.log[k][1] => l <= k
    PROVE  Place(block, block.log[k][1]) = k
<1>1. Len(block.log) \in Nat /\ DOMAIN block.log = 1 .. Len(block.log) BY LogType
<1>2. block.log[k][1] \in 0 .. DataPages - 1 BY <1>1, LogType
<1>3. block.log[k][1] \in Indices(block) BY DEF Indices
<1>4. /\ Place(block, block.log[k][1]) \in DOMAIN block.log
      /\ block.log[Place(block, block.log[k][1])][1] = block.log[k][1]
      /\ k <= Place(block, block.log[k][1])
  BY <1>2, <1>3, PlaceOf
<1> QED BY <1>1, <1>4

LEMMA IndicesType ==
    ASSUME NEW block \in Block
    PROVE  /\ Indices(block) \subseteq 0 .. DataPages - 1
           /\ \A i \in Indices(block) : Held(block, i) \in PageData \cup {"bad"}
           /\ block.log = <<>> => Indices(block) = {}
<1>1. DOMAIN block.log = 1 .. Len(block.log) BY LogType
<1>2. Indices(block) \subseteq 0 .. DataPages - 1 BY <1>1, LogType DEF Indices
<1>3. ASSUME NEW i \in Indices(block) PROVE Held(block, i) \in PageData \cup {"bad"}
  <2>1. Place(block, i) \in DOMAIN block.log BY <1>2, PlaceOf
  <2> QED BY <2>1, <1>1, LogType DEF Held
<1>4. block.log = <<>> => Indices(block) = {} BY DEF Indices
<1> QED BY <1>2, <1>3, <1>4

LEMMA SameLog ==
    ASSUME NEW block, NEW block2, block2.log = block.log
    PROVE  Indices(block2) = Indices(block) /\ \A i : Held(block2, i) = Held(block, i)
BY DEF Indices, Held, Place

(* A page that is written is what its block then holds; the others stay. *)
Torn(block) == [block EXCEPT !.torn = TRUE]
More(block, i, d) == [block EXCEPT !.log = Logged(block.log, i, d)]

LEMMA BlockWritten ==
    ASSUME NEW block \in Block, NEW i \in 0 .. DataPages - 1, NEW d \in PageData \cup {"bad"}
    PROVE  /\ Torn(block) \in Block /\ Torn(block).hdr = block.hdr /\ Torn(block).file = block.file
           /\ Torn(block).blk = block.blk /\ Torn(block).torn /\ Torn(block).log = block.log
           /\ More(block, i, d) \in Block /\ More(block, i, d).hdr = block.hdr
           /\ More(block, i, d).file = block.file /\ More(block, i, d).blk = block.blk
           /\ More(block, i, d).torn = block.torn
           /\ More(block, i, d).log = Logged(block.log, i, d)
<1>1. /\ Torn(block) \in Block /\ Torn(block).hdr = block.hdr /\ Torn(block).file = block.file
      /\ Torn(block).blk = block.blk /\ Torn(block).torn /\ Torn(block).log = block.log
  BY DEF Block, Torn
<1>2. Logged(block.log, i, d) \in Seq(Entry)
  <2>1. block.log \in Seq(Entry) BY LogType
  <2>2. <<i, d>> \in Entry BY DEF Entry
  <2> QED BY <2>1, <2>2, AppendProperties DEF Logged
<1>3. /\ More(block, i, d) \in Block /\ More(block, i, d).hdr = block.hdr
      /\ More(block, i, d).file = block.file /\ More(block, i, d).blk = block.blk
      /\ More(block, i, d).torn = block.torn
      /\ More(block, i, d).log = Logged(block.log, i, d)
  BY <1>2 DEF Block, More
<1> QED BY <1>1, <1>3

LEMMA LoggedPage ==
    ASSUME NEW block \in Block, NEW i \in 0 .. DataPages - 1, NEW d \in PageData \cup {"bad"}
    PROVE  /\ Len(More(block, i, d).log) = Len(block.log) + 1
           /\ Indices(More(block, i, d)) = Indices(block) \cup {i}
           /\ Held(More(block, i, d), i) = d
           /\ \A j \in Indices(block) : j # i => Held(More(block, i, d), j) = Held(block, j)
<1> DEFINE n == Len(block.log)
           block2 == More(block, i, d)
<1>0. block2 \in Block /\ block2.log = Logged(block.log, i, d) BY BlockWritten
<1> HIDE DEF block2
<1>1. block.log \in Seq(Entry) /\ n \in Nat /\ DOMAIN block.log = 1 .. n BY LogType
<1>2. <<i, d>> \in Entry /\ <<i, d>>[1] = i /\ <<i, d>>[2] = d BY DEF Entry
<1>3. block2.log = Append(block.log, <<i, d>>) BY <1>0 DEF Logged
<1>4. /\ Len(block2.log) = n + 1
      /\ \A k \in 1 .. n : block2.log[k] = block.log[k]
      /\ block2.log[n + 1] = <<i, d>>
  BY <1>1, <1>2, <1>3, AppendProperties
<1>5. DOMAIN block2.log = 1 .. n + 1 BY <1>4, <1>0, LogType
<1> HIDE DEF n
<1>6. 1 .. n + 1 = (1 .. n) \cup {n + 1} BY <1>1
<1>7. Indices(block2) = Indices(block) \cup {i}
  <2>1. Indices(block2) = {block2.log[k][1] : k \in (1 .. n) \cup {n + 1}}
    BY <1>5, <1>6 DEF Indices
  <2>2. Indices(block) = {block.log[k][1] : k \in 1 .. n} BY <1>1 DEF Indices
  <2> QED BY <2>1, <2>2, <1>2, <1>4
<1>8. Held(block2, i) = d
  <2>1. \A l \in DOMAIN block2.log : l <= n + 1 BY <1>5
  <2>2. n + 1 \in DOMAIN block2.log BY <1>5, <1>1
  <2>3. Place(block2, block2.log[n + 1][1]) = n + 1 BY <2>1, <2>2, <1>0, PlaceBy
  <2> QED BY <2>3, <1>2, <1>4 DEF Held
<1>9. ASSUME NEW j \in Indices(block), j # i PROVE Held(block2, j) = Held(block, j)
  <2> DEFINE k == Place(block, j)
  <2>1. j \in 0 .. DataPages - 1 BY IndicesType
  <2>2. /\ k \in 1 .. n /\ block.log[k][1] = j
        /\ \A l \in 1 .. n : block.log[l][1] = j => l <= k
    BY <2>1, <1>1, PlaceOf
  <2> HIDE DEF k
  <2>3. k \in DOMAIN block2.log /\ block2.log[k] = block.log[k] BY <2>2, <1>4, <1>5, <1>6
  <2>4. \A l \in DOMAIN block2.log : block2.log[l][1] = block2.log[k][1] => l <= k
    BY <2>2, <2>3, <1>2, <1>4, <1>5, <1>6, <1>9
  <2>5. Place(block2, j) = k
    <3>1. Place(block2, block2.log[k][1]) = k BY <2>3, <2>4, <1>0, PlaceBy
    <3> QED BY <3>1, <2>2, <2>3
  <2> QED BY <2>3, <2>5 DEF Held, k
<1> QED BY <1>4, <1>7, <1>8, <1>9 DEF n, block2

(* A block that holds its first pages is copied page by page. *)
LEMMA CopyOfBlock ==
    ASSUME NEW block \in Block, NEW m \in 0 .. DataPages, Indices(block) = 0 .. m - 1
    PROVE  /\ CopyOf(block) \in Block
           /\ CopyOf(block).hdr = block.hdr /\ CopyOf(block).file = block.file
           /\ CopyOf(block).blk = block.blk /\ CopyOf(block).torn = block.torn
           /\ Len(CopyOf(block).log) <= DataPages
           /\ Indices(CopyOf(block)) = Indices(block)
           /\ \A i \in Indices(block) : Held(CopyOf(block), i) = Held(block, i)
<1> DEFINE I == {i \in 0 .. DataPages - 1 : Place(block, i) # 0}
           log == [k \in 1 .. m |-> <<k - 1, Held(block, k - 1)>>]
           copy == CopyOf(block)
<1>1. I = 0 .. m - 1
  <2>1. \A i \in 0 .. DataPages - 1 : Place(block, i) # 0 <=> i \in 0 .. m - 1 BY PlaceOf
  <2>2. 0 .. m - 1 \subseteq 0 .. DataPages - 1 BY Sizes
  <2> QED BY <2>1, <2>2
<1>2. Cardinality(I) = m
  <2>1. 0 \in Int /\ m - 1 \in Int BY Sizes
  <2>2. Cardinality(0 .. m - 1) = IF 0 > m - 1 THEN 0 ELSE (m - 1) - 0 + 1 BY <2>1, FS_Interval
  <2> HIDE DEF I
  <2> QED BY <2>2, <1>1, Sizes
<1>3. CopyOf(block) = [block EXCEPT !.log = log] BY <1>2 DEF CopyOf, Held
<1>4. \A k \in 1 .. m : k - 1 \in Indices(block) /\ k - 1 \in 0 .. DataPages - 1 BY Sizes
<1>5. log \in Seq(Entry) /\ Len(log) = m
  <2>1. \A k \in 1 .. m : log[k] \in Entry BY <1>4, IndicesType DEF Entry
  <2>2. log \in [1 .. m -> Entry] BY <2>1
  <2> HIDE DEF log
  <2> QED BY <2>2, Sizes
<1>6. /\ copy \in Block /\ copy.log = log /\ copy.hdr = block.hdr /\ copy.file = block.file
      /\ copy.blk = block.blk /\ copy.torn = block.torn
  <2> HIDE DEF log
  <2> QED BY <1>3, <1>5 DEF Block
<1>7. DOMAIN copy.log = 1 .. m /\ \A k \in 1 .. m : copy.log[k] = <<k - 1, Held(block, k - 1)>>
  BY <1>6
<1> HIDE DEF copy, log, I
<1>8. Indices(copy) = Indices(block)
  <2>1. Indices(copy) = {copy.log[k][1] : k \in 1 .. m} BY <1>7 DEF Indices
  <2>2. \A k \in 1 .. m : copy.log[k][1] = k - 1 BY <1>7
  <2>3. \A i \in 0 .. m - 1 : i + 1 \in 1 .. m /\ (i + 1) - 1 = i BY Sizes
  <2>4. ASSUME NEW i \in 0 .. m - 1 PROVE i \in Indices(copy)
    <3>1. i + 1 \in 1 .. m /\ copy.log[i + 1][1] = i BY <2>2, <2>3
    <3> QED BY <3>1, <2>1
  <2>5. ASSUME NEW i \in Indices(copy) PROVE i \in 0 .. m - 1
    <3>1. PICK k \in 1 .. m : i = copy.log[k][1] BY <2>1
    <3>2. i = k - 1 BY <3>1, <2>2
    <3> QED BY <3>2, <1>4, Sizes
  <2> QED BY <2>4, <2>5
<1>9. ASSUME NEW i \in Indices(block) PROVE Held(copy, i) = Held(block, i)
  <2>1. i + 1 \in 1 .. m /\ (i + 1) - 1 = i BY Sizes
  <2>2. copy.log[i + 1] = <<i, Held(block, i)>> BY <2>1, <1>7
  <2>3. \A l \in DOMAIN copy.log : copy.log[l][1] = copy.log[i + 1][1] => l <= i + 1
    BY <2>1, <2>2, <1>7, Sizes
  <2>4. Place(copy, copy.log[i + 1][1]) = i + 1 BY <2>1, <2>3, <1>6, <1>7, PlaceBy
  <2> QED BY <2>2, <2>4 DEF Held
<1>10. Len(copy.log) <= DataPages BY <1>5, <1>6
<1> QED BY <1>6, <1>8, <1>9, <1>10 DEF copy

(* The pages that a block of a file has are its first ones. *)
LEMMA InBlockPages ==
    ASSUME NEW size \in Nat, NEW n \in Nat
    PROVE  /\ \E m \in 0 .. DataPages : InBlock(size, n) = 0 .. m - 1
           /\ size <= n * DataPages => InBlock(size, n) = {}
           /\ n * DataPages < size => 0 \in InBlock(size, n)
           /\ n * DataPages + DataPages <= size => InBlock(size, n) = 0 .. DataPages - 1
<1> DEFINE start == n * DataPages
<1>1. start \in Nat BY Sizes
<1>2. InBlock(size, n) = {i \in 0 .. DataPages - 1 : start + i < size} BY DEF InBlock
<1> HIDE DEF start
<1>3. CASE size <= start
  <2>1. InBlock(size, n) = {} BY <1>1, <1>2, <1>3
  <2>2. InBlock(size, n) = 0 .. 0 - 1 BY <2>1
  <2> QED BY <2>1, <2>2, <1>1, <1>3, Sizes DEF start
<1>4. CASE start < size /\ size <= start + DataPages
  <2>1. size - start \in 0 .. DataPages BY <1>1, <1>4, Sizes
  <2>2. InBlock(size, n) = 0 .. (size - start) - 1 BY <1>1, <1>2, <1>4, Sizes
  <2>3. 0 \in InBlock(size, n) BY <1>1, <1>2, <1>4, Sizes
  <2>4. start + DataPages <= size => InBlock(size, n) = 0 .. DataPages - 1
    BY <1>1, <1>2, <1>4, Sizes
  <2> QED BY <2>1, <2>2, <2>3, <2>4, <1>1, <1>4 DEF start
<1>5. CASE start + DataPages < size
  <2>1. InBlock(size, n) = 0 .. DataPages - 1 BY <1>1, <1>2, <1>5, Sizes
  <2>2. 0 \in InBlock(size, n) BY <2>1, Sizes
  <2>3. ~(size <= start) BY <1>1, <1>5, Sizes
  <2>4. DataPages \in 0 .. DataPages BY Sizes
  <2> QED BY <2>1, <2>2, <2>3, <2>4 DEF start
<1> QED BY <1>1, <1>3, <1>4, <1>5, Sizes

-----------------------------------------------------------------------------
(* The blocks of a file                                                      *)

LEMMA FlashType ==
    ASSUME NEW flash, FlashOk(flash)
    PROVE  /\ flash \in [Blocks -> Block]
           /\ \A b \in Blocks : flash[b] \in Block /\ Len(flash[b].log) <= PhysPages
           /\ \A f : ValidOf(flash, f) \subseteq Blocks
           /\ \A f : \A b \in ValidOf(flash, f) : flash[b] \in Block /\ flash[b].blk \in Nat
<1>1. flash \in [Blocks -> Block] /\ \A b \in Blocks : Len(flash[b].log) <= PhysPages
  BY DEF FlashOk
<1>2. \A b \in Blocks : flash[b] \in Block /\ flash[b].blk \in Nat
  BY <1>1, BlockType DEF Blocks
<1> QED BY <1>1, <1>2 DEF ValidOf

LEMMA AtBlock ==
    ASSUME NEW flash, NEW f, NEW n, NEW size, Shape(flash, f, n, size), NEW k \in 0 .. n - 1
    PROVE  At(flash, f, k) \in ValidOf(flash, f) /\ flash[At(flash, f, k)].blk = k
BY DEF Shape, At

LEMMA AtNumber ==
    ASSUME NEW flash, FlashOk(flash), NEW f, NEW b \in ValidOf(flash, f)
    PROVE  At(flash, f, flash[b].blk) = b
<1>1. \A c \in ValidOf(flash, f) : flash[c].blk = flash[b].blk => c = b
  BY DEF ValidOf, FlashOk
<1> QED BY <1>1 DEF At

(* Where each page of a file is. *)
LEMMA PageOf ==
    ASSUME NEW flash, FlashOk(flash), NEW f, NEW n \in Nat, NEW size \in Nat,
           Shape(flash, f, n, size), NEW p \in 0 .. size - 1
    PROVE  /\ p \div DataPages \in 0 .. n - 1
           /\ At(flash, f, p \div DataPages) \in ValidOf(flash, f)
           /\ flash[At(flash, f, p \div DataPages)].blk = p \div DataPages
           /\ p % DataPages \in Indices(flash[At(flash, f, p \div DataPages)])
           /\ PageAt(flash, f, p) \in PageData \cup {"bad"}
<1> DEFINE m == p \div DataPages
           i == p % DataPages
<1>1. m \in Nat /\ i \in 0 .. DataPages - 1 /\ p = m * DataPages + i BY DivMod
<1>2. size <= n * DataPages BY DEF Shape
<1>3. PageAt(flash, f, p) = Held(flash[At(flash, f, m)], i) BY DEF PageAt
<1> HIDE DEF m, i
<1>4. m \in 0 .. n - 1
  <2>1. CASE n <= m
    <3>1. n * DataPages <= m * DataPages
      <4>1. CASE n = m BY <4>1, <1>1, Sizes
      <4>2. CASE n < m
        <5>1. n * DataPages + DataPages <= m * DataPages BY <4>2, <1>1, Multiples
        <5>2. n * DataPages \in Int /\ m * DataPages \in Int BY <1>1, Sizes
        <5> QED BY <5>1, <5>2, Sizes
      <4> QED BY <2>1, <4>1, <4>2, <1>1
    <3>2. n * DataPages \in Int /\ m * DataPages \in Int BY <1>1, Sizes
    <3> QED BY <3>1, <3>2, <1>1, <1>2
  <2> QED BY <2>1, <1>1
<1>5. At(flash, f, m) \in ValidOf(flash, f) /\ flash[At(flash, f, m)].blk = m BY <1>4, AtBlock
<1>6. Indices(flash[At(flash, f, m)]) = InBlock(size, m) BY <1>5 DEF Shape
<1>7. i \in InBlock(size, m) BY <1>1 DEF InBlock
<1>8. PageAt(flash, f, p) \in PageData \cup {"bad"}
  <2>1. flash[At(flash, f, m)] \in Block BY <1>5, FlashType
  <2> QED BY <2>1, <1>3, <1>6, <1>7, IndicesType
<1> QED BY <1>4, <1>5, <1>6, <1>7, <1>8 DEF m, i

(* A file is as it was if none of its blocks changed. *)
LEMMA SameFile ==
    ASSUME NEW flash, NEW flash2, FlashOk(flash), NEW f,
           ValidOf(flash2, f) = ValidOf(flash, f),
           \A b \in ValidOf(flash, f) : flash2[b] = flash[b]
    PROVE  /\ \A k : At(flash2, f, k) = At(flash, f, k)
           /\ \A n, size : Shape(flash2, f, n, size) <=> Shape(flash, f, n, size)
           /\ Whole(flash2, f) <=> Whole(flash, f)
           /\ \A n \in Nat, size \in Nat :
                Shape(flash, f, n, size) => Text(flash2, f, size) = Text(flash, f, size)
<1>1. \A k : At(flash2, f, k) = At(flash, f, k) BY DEF At
<1>2. ASSUME NEW n, NEW size PROVE Shape(flash2, f, n, size) <=> Shape(flash, f, n, size)
  BY DEF Shape
<1>3. Whole(flash2, f) <=> Whole(flash, f) BY DEF Whole
<1>4. ASSUME NEW n \in Nat, NEW size \in Nat, Shape(flash, f, n, size)
      PROVE  Text(flash2, f, size) = Text(flash, f, size)
  <2>1. ASSUME NEW i \in 1 .. size PROVE PageAt(flash2, f, i - 1) = PageAt(flash, f, i - 1)
    <3>1. i - 1 \in 0 .. size - 1 BY <1>4
    <3>2. At(flash, f, (i - 1) \div DataPages) \in ValidOf(flash, f) BY <3>1, <1>4, PageOf
    <3> QED BY <3>2, <1>1 DEF PageAt
  <2> QED BY <2>1 DEF Text
<1> QED BY <1>1, <1>2, <1>3, <1>4

LEMMA SameOff ==
    ASSUME NEW flash, NEW flash2, FlashOk(flash), NEW f,
           ValidOf(flash2, f) = ValidOf(flash, f),
           \A b \in ValidOf(flash, f) : flash2[b] = flash[b],
           NEW A, Off(flash, f, A)
    PROVE  Off(flash2, f, A)
<1>1. CASE Gone \in A /\ \A b \in ValidOf(flash, f) : flash[b].blk # 0 BY <1>1 DEF Off
<1>2. CASE \E n \in 1 .. NBlocks, size \in 0 .. MaxPages :
             /\ Shape(flash, f, n, size)
             /\ Whole(flash, f) => Text(flash, f, size) \in A
             /\ ~Whole(flash, f) => Gone \in A
  <2>1. PICK n \in 1 .. NBlocks, size \in 0 .. MaxPages :
             /\ Shape(flash, f, n, size)
             /\ Whole(flash, f) => Text(flash, f, size) \in A
             /\ ~Whole(flash, f) => Gone \in A
    BY <1>2
  <2>2. n \in Nat /\ size \in Nat BY Sizes
  <2>3. /\ Shape(flash2, f, n, size) <=> Shape(flash, f, n, size)
        /\ Whole(flash2, f) <=> Whole(flash, f)
        /\ Text(flash2, f, size) = Text(flash, f, size)
    BY <2>1, <2>2, SameFile
  <2>4. /\ Shape(flash2, f, n, size)
        /\ Whole(flash2, f) => Text(flash2, f, size) \in A
        /\ ~Whole(flash2, f) => Gone \in A
    BY <2>1, <2>3
  <2> QED BY <2>4 DEF Off
<1> QED BY <1>1, <1>2 DEF Off

LEMMA MoreOff ==
    ASSUME NEW flash, NEW f, NEW A, NEW B, A \subseteq B, Off(flash, f, A)
    PROVE  Off(flash, f, B)
BY DEF Off

LEMMA OffBy ==
    ASSUME NEW flash, NEW f, NEW A, NEW n \in 1 .. NBlocks, NEW size \in 0 .. MaxPages,
           Shape(flash, f, n, size),
           Whole(flash, f) => Text(flash, f, size) \in A,
           ~Whole(flash, f) => Gone \in A
    PROVE  Off(flash, f, A)
BY DEF Off

(* The set of the blocks that are marked has the head of the file if it has any of it. *)
LEMMA MarkedOff ==
    ASSUME NEW flash, FlashOk(flash), NEW f, NEW A, Off(flash, f, A), NEW S,
           \A b \in S \cap ValidOf(flash, f) :
               /\ Gone \in A
               /\ \A c \in ValidOf(flash, f) : flash[c].blk = 0 => c \in S
    PROVE  Off(Marked(flash, S), f, A)
<1> DEFINE marked == Marked(flash, S)
<1>1. ValidOf(marked, f) = ValidOf(flash, f) \ S
  BY DEF Marked, ValidOf, Blank
<1>2. \A b \in ValidOf(marked, f) : marked[b] = flash[b]
  BY <1>1 DEF Marked, ValidOf
<1> HIDE DEF marked
<1>3. CASE S \cap ValidOf(flash, f) = {}
  <2>1. ValidOf(marked, f) = ValidOf(flash, f) BY <1>1, <1>3
  <2> QED BY <2>1, <1>2, SameOff DEF marked
<1>4. CASE S \cap ValidOf(flash, f) # {}
  <2>1. Gone \in A /\ \A b \in ValidOf(marked, f) : marked[b].blk # 0 BY <1>1, <1>2, <1>4
  <2> QED BY <2>1 DEF Off, marked
<1> QED BY <1>3, <1>4

-----------------------------------------------------------------------------
(* A mounted volume                                                          *)

LEMMA StateType ==
    ASSUME NEW s \in State
    PROVE  /\ s.flash \in [Blocks -> Block] /\ s.free \in Seq(Blocks) /\ s.dirty \in Seq(Blocks)
           /\ s.list \in [Files -> Seq(Blocks)] /\ s.size \in [Files -> -1 .. MaxPages]
           /\ \A f \in Files : s.list[f] \in Seq(Blocks) /\ s.size[f] \in -1 .. MaxPages
BY DEF State

LEMMA GoodFile ==
    ASSUME NEW s, Good(s), NEW f \in Files, s.size[f] # -1
    PROVE  /\ s.size[f] \in 0 .. MaxPages /\ Len(s.list[f]) \in 1 .. NBlocks
           /\ Shape(s.flash, f, Len(s.list[f]), s.size[f])
           /\ Whole(s.flash, f)
           /\ s.list[f] \in Seq(Blocks) /\ DOMAIN s.list[f] = 1 .. Len(s.list[f])
           /\ \A k \in 1 .. Len(s.list[f]) : /\ s.list[f][k] \in ValidOf(s.flash, f)
                                             /\ s.list[f][k] = At(s.flash, f, k - 1)
                                             /\ s.flash[s.list[f][k]].blk = k - 1
           /\ \A b \in ValidOf(s.flash, f) : /\ s.flash[b].blk + 1 \in 1 .. Len(s.list[f])
                                             /\ s.list[f][s.flash[b].blk + 1] = b
<1> DEFINE n == Len(s.list[f])
<1>1. s \in State /\ FlashOk(s.flash) /\ OnFile(s, f) BY DEF Good, Volume
<1>2. s.size[f] \in 0 .. MaxPages /\ s.list[f] \in Seq(Blocks) BY <1>1, StateType, Sizes
<1>3. /\ n \in 1 .. NBlocks
      /\ Shape(s.flash, f, n, s.size[f])
      /\ Whole(s.flash, f)
      /\ s.list[f] = [k \in 1 .. n |-> At(s.flash, f, k - 1)]
  BY <1>1 DEF OnFile
<1>4. DOMAIN s.list[f] = 1 .. n BY <1>2, LenProperties
<1> HIDE DEF n
<1>5. ASSUME NEW k \in 1 .. n
      PROVE  /\ s.list[f][k] \in ValidOf(s.flash, f)
             /\ s.list[f][k] = At(s.flash, f, k - 1)
             /\ s.flash[s.list[f][k]].blk = k - 1
  <2>1. k - 1 \in 0 .. n - 1 BY <1>3
  <2>2. s.list[f][k] = At(s.flash, f, k - 1) BY <1>3
  <2> QED BY <2>1, <2>2, <1>3, AtBlock
<1>6. ASSUME NEW b \in ValidOf(s.flash, f)
      PROVE  s.flash[b].blk + 1 \in 1 .. n /\ s.list[f][s.flash[b].blk + 1] = b
  <2>1. s.flash[b].blk \in Nat BY <1>1, FlashType
  <2>2. s.flash[b].blk < n BY <1>3 DEF Shape
  <2>3. s.flash[b].blk + 1 \in 1 .. n /\ (s.flash[b].blk + 1) - 1 = s.flash[b].blk
    BY <2>1, <2>2, <1>3, Sizes
  <2>4. At(s.flash, f, s.flash[b].blk) = b BY <1>1, AtNumber
  <2> QED BY <2>3, <2>4, <1>5
<1> QED BY <1>2, <1>3, <1>4, <1>5, <1>6 DEF n

LEMMA GoodNoFile ==
    ASSUME NEW s, Good(s), NEW f \in Files, s.size[f] = -1
    PROVE  s.list[f] = <<>> /\ ValidOf(s.flash, f) = {} /\ Contents(s, f) = Gone
<1>1. OnFile(s, f) BY DEF Good, Volume
<1>2. s.list[f] = <<>> /\ ValidOf(s.flash, f) = {} BY <1>1 DEF OnFile
<1>3. s.size[f] < 0 OBVIOUS
<1> QED BY <1>2, <1>3 DEF Contents

(* The list of a file has all its blocks. *)
LEMMA GoodList ==
    ASSUME NEW s, Good(s), NEW f \in Files
    PROVE  Enumerates(s.list[f], ValidOf(s.flash, f))
<1>1. CASE s.size[f] = -1 BY <1>1, GoodNoFile, EnumeratesNothing
<1>2. CASE s.size[f] # -1
  <2>1. /\ s.list[f] \in Seq(Blocks)
        /\ \A k \in 1 .. Len(s.list[f]) : /\ s.list[f][k] \in ValidOf(s.flash, f)
                                          /\ s.flash[s.list[f][k]].blk = k - 1
        /\ \A b \in ValidOf(s.flash, f) : /\ s.flash[b].blk + 1 \in 1 .. Len(s.list[f])
                                          /\ s.list[f][s.flash[b].blk + 1] = b
    BY <1>2, GoodFile
  <2>2. \A b \in ValidOf(s.flash, f) : \E i \in 1 .. Len(s.list[f]) : s.list[f][i] = b BY <2>1
  <2>3. \A i, j \in 1 .. Len(s.list[f]) : s.list[f][i] = s.list[f][j] => i = j
    <3> TAKE i, j \in 1 .. Len(s.list[f])
    <3> HAVE s.list[f][i] = s.list[f][j]
    <3>1. i - 1 = j - 1 BY <2>1
    <3> QED BY <3>1
  <2> QED BY <2>1, <2>2, <2>3, EnumeratesBy
<1> QED BY <1>1, <1>2

(* What a user reads is what is in the flash. *)
LEMMA GoodContents ==
    ASSUME NEW s, Good(s), NEW f \in Files, s.size[f] # -1
    PROVE  /\ Contents(s, f) = Text(s.flash, f, s.size[f])
           /\ \A p \in 0 .. s.size[f] - 1 : Page(s, f, p) = PageAt(s.flash, f, p)
<1>1. /\ s.size[f] \in 0 .. MaxPages /\ Len(s.list[f]) \in 1 .. NBlocks
      /\ Shape(s.flash, f, Len(s.list[f]), s.size[f])
      /\ \A k \in 1 .. Len(s.list[f]) : s.list[f][k] = At(s.flash, f, k - 1)
  BY GoodFile
<1>2. FlashOk(s.flash) BY DEF Good, Volume
<1>3. s.size[f] \in Nat /\ Len(s.list[f]) \in Nat /\ ~(s.size[f] < 0) BY <1>1, Sizes
<1>4. ASSUME NEW p \in 0 .. s.size[f] - 1 PROVE Page(s, f, p) = PageAt(s.flash, f, p)
  <2> DEFINE m == p \div DataPages
  <2>1. m \in 0 .. Len(s.list[f]) - 1 BY <1>1, <1>2, <1>3, PageOf
  <2>2. m + 1 \in 1 .. Len(s.list[f]) /\ (m + 1) - 1 = m BY <2>1, <1>3
  <2>3. s.list[f][m + 1] = At(s.flash, f, m) BY <2>2, <1>1
  <2>4. BlockOf(s, f, p) = s.flash[At(s.flash, f, m)] BY <2>3 DEF BlockOf
  <2> QED BY <2>4 DEF Page, PageAt, Held, PageIndex
<1>5. Contents(s, f) = [i \in 1 .. s.size[f] |-> Page(s, f, i - 1)] BY <1>3 DEF Contents
<1>6. \A i \in 1 .. s.size[f] : i - 1 \in 0 .. s.size[f] - 1 BY <1>3
<1>7. \A i \in 1 .. s.size[f] : Page(s, f, i - 1) = PageAt(s.flash, f, i - 1) BY <1>4, <1>6
<1> QED BY <1>4, <1>5, <1>7 DEF Text

LEMMA GoodOff ==
    ASSUME NEW s, Good(s), NEW f \in Files
    PROVE  Off(s.flash, f, {Contents(s, f)})
<1>1. CASE s.size[f] = -1
  <2>1. ValidOf(s.flash, f) = {} /\ Gone \in {Contents(s, f)} BY <1>1, GoodNoFile
  <2> QED BY <2>1 DEF Off
<1>2. CASE s.size[f] # -1
  <2>1. /\ s.size[f] \in 0 .. MaxPages /\ Len(s.list[f]) \in 1 .. NBlocks
        /\ Shape(s.flash, f, Len(s.list[f]), s.size[f])
        /\ Whole(s.flash, f)
    BY <1>2, GoodFile
  <2>2. Text(s.flash, f, s.size[f]) \in {Contents(s, f)} BY <1>2, GoodContents
  <2> QED BY <2>1, <2>2, OffBy
<1> QED BY <1>1, <1>2

-----------------------------------------------------------------------------
(* Journals                                                                  *)

LEMMA GoodCut ==
    ASSUME NEW s, Good(s), NEW f, NEW A, f \in Files => Contents(s, f) \in A
    PROVE  CutOk(s, f, A, s.flash)
<1>1. FlashOk(s.flash) BY DEF Good, Volume
<1>2. ASSUME NEW g \in Files PROVE Off(s.flash, g, IF g = f THEN A ELSE {Contents(s, g)})
  <2>1. Off(s.flash, g, {Contents(s, g)}) BY GoodOff
  <2>2. CASE g = f
    <3>1. {Contents(s, g)} \subseteq A BY <2>2
    <3>2. Off(s.flash, g, A) BY <2>1, <3>1, MoreOff
    <3> QED BY <2>2, <3>2
  <2>3. CASE g # f BY <2>1, <2>3
  <2> QED BY <2>2, <2>3
<1> QED BY <1>1, <1>2 DEF CutOk

(* An operation that fails at once. *)
LEMMA JournalStays ==
    ASSUME NEW s, Good(s), NEW f, NEW A, f \in Files => Contents(s, f) \in A
    PROVE  Journal(<<s>>, s, f, A) /\ Last(<<s>>) = s
<1>1. s \in State BY DEF Good, Volume
<1>2. <<s>> \in Seq(State) /\ <<s>> # <<>> /\ Len(<<s>>) = 1 /\ <<s>>[1] = s BY <1>1
<1>3. Last(<<s>>) = s BY <1>2 DEF Last
<1>4. CutOk(s, f, A, s.flash) BY GoodCut
<1>5. \A k \in 1 .. Len(<<s>>) : CutOk(s, f, A, <<s>>[k].flash) BY <1>2, <1>4
<1> QED BY <1>2, <1>3, <1>5 DEF Journal

LEMMA CutMore ==
    ASSUME NEW s, NEW t, NEW f, NEW A, NEW B, NEW flash, CutOk(t, f, A, flash), A \subseteq B,
           \A g \in Files \ {f} : Contents(t, g) = Contents(s, g)
    PROVE  CutOk(s, f, B, flash)
<1>1. ASSUME NEW g \in Files PROVE Off(flash, g, IF g = f THEN B ELSE {Contents(s, g)})
  <2>1. CASE g = f
    <3>1. Off(flash, g, A) BY <2>1 DEF CutOk
    <3>2. Off(flash, g, B) BY <3>1, MoreOff
    <3> QED BY <2>1, <3>2
  <2>2. CASE g # f BY <2>2 DEF CutOk
  <2> QED BY <2>1, <2>2
<1> QED BY <1>1 DEF CutOk

(* Two operations one after the other. *)
LEMMA JournalThen ==
    ASSUME NEW s, NEW f, NEW A, NEW B, NEW J, NEW K,
           Journal(J, s, f, A), Journal(K, Last(J), f, B)
    PROVE  Journal(Then(J, K), s, f, A \cup B) /\ Last(Then(J, K)) = Last(K)
<1> DEFINE T == Then(J, K)
<1>1. /\ J \in Seq(State) /\ J # <<>> /\ Len(J) \in Nat \ {0}
      /\ Len(J) = 1 => J = <<s>>
      /\ \A k \in 1 .. Len(J) : CutOk(s, f, A, J[k].flash)
      /\ \A g \in Files \ {f} : Contents(Last(J), g) = Contents(s, g)
  BY EmptySeq DEF Journal
<1>2. /\ K \in Seq(State) /\ K # <<>> /\ Len(K) \in Nat \ {0}
      /\ Len(K) = 1 => K = <<Last(J)>>
      /\ \A k \in 1 .. Len(K) : CutOk(Last(J), f, B, K[k].flash)
      /\ Good(Last(K))
      /\ \A g \in Files \ {f} : Contents(Last(K), g) = Contents(Last(J), g)
  BY EmptySeq DEF Journal
<1>3. /\ Tail(K) \in Seq(State) /\ Len(Tail(K)) = Len(K) - 1
      /\ \A i \in 1 .. Len(Tail(K)) : Tail(K)[i] = K[i + 1]
  BY <1>2, HeadTailProperties
<1>4. /\ T \in Seq(State) /\ Len(T) = Len(J) + Len(Tail(K))
      /\ \A i \in 1 .. Len(J) + Len(Tail(K)) :
           T[i] = IF i <= Len(J) THEN J[i] ELSE Tail(K)[i - Len(J)]
  BY <1>1, <1>3, ConcatProperties DEF Then
<1> HIDE DEF T
<1>5. Len(T) = Len(J) + Len(K) - 1 /\ Len(T) \in Nat \ {0} BY <1>1, <1>2, <1>3, <1>4
<1> DEFINE lt == Len(T)
           lj == Len(J)
           lk == Len(K)
<1>5a. lt = lj + lk - 1 /\ lt \in Nat \ {0} /\ lj \in Nat \ {0} /\ lk \in Nat \ {0}
  BY <1>1, <1>2, <1>5
<1>6. \A i \in 1 .. Len(J) : T[i] = J[i] BY <1>1, <1>3, <1>4, <1>2
<1>7. ASSUME NEW i \in 1 .. Len(T), ~(i <= Len(J))
      PROVE  i - Len(J) + 1 \in 1 .. Len(K) /\ T[i] = K[i - Len(J) + 1]
  <2>1. i - Len(J) \in 1 .. Len(Tail(K)) BY <1>1, <1>2, <1>3, <1>5, <1>7
  <2>2. T[i] = Tail(K)[i - Len(J)] BY <1>1, <1>2, <1>3, <1>4, <1>5, <1>7
  <2> QED BY <2>1, <2>2, <1>1, <1>2, <1>3
<1>8. T # <<>> BY <1>5
<1>9. Last(T) = Last(K)
  <2>1. CASE Len(K) = 1
    <3>1. Last(K) = Last(J) BY <2>1, <1>2 DEF Last
    <3>2. Len(T) = Len(J) BY <2>1, <1>5, <1>1
    <3>3. T[Len(J)] = J[Len(J)] BY <1>1, <1>6
    <3> QED BY <3>1, <3>2, <3>3 DEF Last
  <2>2. CASE Len(K) # 1
    <3>1. Len(T) \in 1 .. Len(T) /\ ~(Len(T) <= Len(J))
      <4>1. lk # 1 BY <2>2
      <4>2. lt \in 1 .. lt /\ ~(lt <= lj)
        <5> HIDE DEF lt, lj, lk
        <5> QED BY <1>5a, <4>1
      <4> QED BY <4>2
    <3>2. T[Len(T)] = K[Len(T) - Len(J) + 1] BY <3>1, <1>7
    <3>3. Len(T) - Len(J) + 1 = Len(K) BY <1>1, <1>2, <1>5
    <3> QED BY <3>2, <3>3 DEF Last
  <2> QED BY <2>1, <2>2
<1>10. ASSUME Len(T) = 1 PROVE T = <<s>>
  <2>1. Len(J) = 1
    <3>1. lt = 1 BY <1>10
    <3>2. lj = 1
      <4> HIDE DEF lt, lj, lk
      <4> QED BY <1>5a, <3>1
    <3> QED BY <3>2
  <2>2. J = <<s>> /\ J[1] = s BY <2>1, <1>1
  <2>3. T[1] = s BY <2>1, <2>2, <1>6
  <2> QED BY <2>3, <1>4, <1>10
<1>11. ASSUME NEW k \in 1 .. Len(T) PROVE CutOk(s, f, A \cup B, T[k].flash)
  <2>1. CASE k <= Len(J)
    <3>1. k \in 1 .. Len(J) BY <2>1, <1>1, <1>5
    <3>2. CutOk(s, f, A, T[k].flash) BY <3>1, <1>1, <1>6
    <3> QED BY <3>2, CutMore
  <2>2. CASE ~(k <= Len(J))
    <3>1. CutOk(Last(J), f, B, T[k].flash) BY <2>2, <1>2, <1>7
    <3> QED BY <3>1, <1>1, CutMore
  <2> QED BY <2>1, <2>2
<1>12. \A g \in Files \ {f} : Contents(Last(T), g) = Contents(s, g) BY <1>1, <1>2, <1>9
<1>13. Good(Last(T)) BY <1>2, <1>9
<1>14. Journal(T, s, f, A \cup B) BY <1>4, <1>8, <1>10, <1>11, <1>12, <1>13 DEF Journal
<1> QED BY <1>9, <1>14 DEF T

LEMMA JournalMore ==
    ASSUME NEW J, NEW s, NEW f, NEW A, NEW B, Journal(J, s, f, A), A \subseteq B
    PROVE  Journal(J, s, f, B)
<1>1. \A k \in 1 .. Len(J) : CutOk(s, f, B, J[k].flash)
  <2> TAKE k \in 1 .. Len(J)
  <2>1. CutOk(s, f, A, J[k].flash) BY DEF Journal
  <2> QED BY <2>1, CutMore
<1> QED BY <1>1 DEF Journal

LEMMA AlikeFile ==
    ASSUME NEW s, NEW t, NEW f \in Files, FlashOk(s.flash), Alike(s, t, f)
    PROVE  /\ s \in State /\ OnFile(s, f) => OnFile(t, f)
           /\ Good(s) /\ Good(t) => Contents(t, f) = Contents(s, f)
           /\ Enumerates(s.list[f], ValidOf(s.flash, f)) => Enumerates(t.list[f], ValidOf(t.flash, f))
<1>1. /\ t.list[f] = s.list[f] /\ t.size[f] = s.size[f]
      /\ ValidOf(t.flash, f) = ValidOf(s.flash, f)
      /\ \A b \in ValidOf(s.flash, f) : t.flash[b] = s.flash[b]
  BY DEF Alike, Untouched
<1>2. /\ \A k : At(t.flash, f, k) = At(s.flash, f, k)
      /\ \A n, size : Shape(t.flash, f, n, size) <=> Shape(s.flash, f, n, size)
      /\ Whole(t.flash, f) <=> Whole(s.flash, f)
      /\ \A n \in Nat, size \in Nat :
           Shape(s.flash, f, n, size) => Text(t.flash, f, size) = Text(s.flash, f, size)
  BY <1>1, SameFile
<1>3. ASSUME OnFile(s, f) PROVE OnFile(t, f)
  <2>1. CASE s.size[f] = -1 BY <2>1, <1>1, <1>3 DEF OnFile
  <2>2. CASE s.size[f] # -1
    <3>1. /\ Len(s.list[f]) \in 1 .. NBlocks
          /\ Shape(s.flash, f, Len(s.list[f]), s.size[f])
          /\ Whole(s.flash, f)
          /\ s.list[f] = [k \in 1 .. Len(s.list[f]) |-> At(s.flash, f, k - 1)]
      BY <2>2, <1>3 DEF OnFile
    <3>2. t.list[f] = [k \in 1 .. Len(t.list[f]) |-> At(t.flash, f, k - 1)] BY <3>1, <1>1, <1>2
    <3>3. Shape(t.flash, f, Len(t.list[f]), t.size[f]) /\ Whole(t.flash, f) BY <3>1, <1>1, <1>2
    <3> QED BY <3>1, <3>2, <3>3, <2>2, <1>1 DEF OnFile
  <2> QED BY <2>1, <2>2
<1>4. ASSUME Good(s), Good(t) PROVE Contents(t, f) = Contents(s, f)
  <2>1. CASE s.size[f] = -1 BY <2>1, <1>1, <1>4, GoodNoFile
  <2>2. CASE s.size[f] # -1
    <3>1. /\ s.size[f] \in 0 .. MaxPages /\ Len(s.list[f]) \in 1 .. NBlocks
          /\ Shape(s.flash, f, Len(s.list[f]), s.size[f])
      BY <2>2, <1>4, GoodFile
    <3>2. s.size[f] \in Nat /\ Len(s.list[f]) \in Nat BY <3>1, Sizes
    <3>3. Text(t.flash, f, s.size[f]) = Text(s.flash, f, s.size[f]) BY <3>1, <3>2, <1>2
    <3>4. Contents(t, f) = Text(t.flash, f, t.size[f]) BY <2>2, <1>1, <1>4, GoodContents
    <3>5. Contents(s, f) = Text(s.flash, f, s.size[f]) BY <2>2, <1>4, GoodContents
    <3> QED BY <3>3, <3>4, <3>5, <1>1
  <2> QED BY <2>1, <2>2
<1> QED BY <1>1, <1>3, <1>4

(* The files that an operation leaves alone are fine if the others are. *)
LEMMA GoodBy ==
    ASSUME NEW s, Good(s), NEW t, Volume(t), NEW f,
           f \in Files => OnFile(t, f), \A g \in Files \ {f} : Alike(s, t, g)
    PROVE  Good(t) /\ \A g \in Files \ {f} : Contents(t, g) = Contents(s, g)
<1>1. s \in State /\ FlashOk(s.flash) BY DEF Good, Volume
<1>2. \A g \in Files \ {f} : OnFile(t, g)
  <2> TAKE g \in Files \ {f}
  <2>1. OnFile(s, g) /\ Alike(s, t, g) BY DEF Good
  <2> QED BY <2>1, <1>1, AlikeFile
<1>3. Good(t) BY <1>2 DEF Good
<1>4. \A g \in Files \ {f} : Contents(t, g) = Contents(s, g)
  <2> TAKE g \in Files \ {f}
  <2>1. Alike(s, t, g) OBVIOUS
  <2> QED BY <2>1, <1>1, <1>3, AlikeFile
<1> QED BY <1>3, <1>4

LEMMA CutBy ==
    ASSUME NEW s, Good(s), NEW f, NEW A, NEW flash, FlashOk(flash),
           f \in Files => Off(flash, f, A),
           \A g \in Files \ {f} : Untouched(s.flash, flash, g)
    PROVE  CutOk(s, f, A, flash)
<1>1. ASSUME NEW g \in Files PROVE Off(flash, g, IF g = f THEN A ELSE {Contents(s, g)})
  <2>1. CASE g = f BY <2>1
  <2>2. CASE g # f
    <3>1. FlashOk(s.flash) BY DEF Good, Volume
    <3>2. Off(s.flash, g, {Contents(s, g)}) BY GoodOff
    <3>3. /\ ValidOf(flash, g) = ValidOf(s.flash, g)
          /\ \A b \in ValidOf(s.flash, g) : flash[b] = s.flash[b]
      BY <2>2 DEF Untouched
    <3>4. Off(flash, g, {Contents(s, g)}) BY <3>1, <3>2, <3>3, SameOff
    <3> QED BY <2>2, <3>4
  <2> QED BY <2>1, <2>2
<1> QED BY <1>1 DEF CutOk

-----------------------------------------------------------------------------
(* Deleting a file                                                           *)

LEMMA SetDirtyState ==
    ASSUME NEW s \in State, NEW blocks \in Seq(Blocks)
    PROVE  /\ SetDirty(s, blocks) \in State
           /\ SetDirty(s, blocks).mode = s.mode
           /\ SetDirty(s, blocks).flash = Marked(s.flash, Range(blocks))
           /\ SetDirty(s, blocks).free = s.free
           /\ SetDirty(s, blocks).dirty = s.dirty \o blocks
           /\ SetDirty(s, blocks).list = s.list
           /\ SetDirty(s, blocks).size = s.size
<1> DEFINE flash == Marked(s.flash, Range(blocks))
<1>1. SetDirty(s, blocks) = [s EXCEPT !.flash = flash, !.dirty = s.dirty \o blocks]
  BY DEF SetDirty, Marked
<1>2. flash \in [Blocks -> Block]
  <2>1. Blank("bad") \in Block BY BlockType
  <2> QED BY <2>1, StateType DEF Marked
<1>3. s.dirty \o blocks \in Seq(Blocks) BY StateType, ConcatProperties
<1> HIDE DEF flash
<1>4. SetDirty(s, blocks) \in State BY <1>1, <1>2, <1>3 DEF State
<1>5. /\ SetDirty(s, blocks).mode = s.mode /\ SetDirty(s, blocks).flash = flash
      /\ SetDirty(s, blocks).free = s.free /\ SetDirty(s, blocks).dirty = s.dirty \o blocks
      /\ SetDirty(s, blocks).list = s.list /\ SetDirty(s, blocks).size = s.size
  BY <1>1 DEF State
<1> QED BY <1>4, <1>5 DEF flash

LEMMA MarkedHeaders ==
    ASSUME NEW flash, NEW S, \A b \in S : b \in Blocks /\ flash[b].hdr = "valid"
    PROVE  /\ Headed(Marked(flash, S), "bad") = Headed(flash, "bad") \cup S
           /\ Headed(flash, "bad") \cap S = {}
           /\ Headed(Marked(flash, S), "erased") = Headed(flash, "erased")
           /\ Headed(Marked(flash, S), "garbled") = Headed(flash, "garbled")
<1>1. Blank("bad").hdr = "bad" BY BlockType
<1> QED BY <1>1 DEF Headed, Marked

LEMMA MarkedUntouched ==
    ASSUME NEW flash, NEW S, NEW f, S \cap ValidOf(flash, f) = {}
    PROVE  Untouched(flash, Marked(flash, S), f)
<1>1. Blank("bad").hdr = "bad" BY BlockType
<1> QED BY <1>1 DEF Untouched, Marked, ValidOf

LEMMA ValidOfOne ==
    ASSUME NEW flash, NEW f, NEW g, f # g
    PROVE  ValidOf(flash, f) \cap ValidOf(flash, g) = {}
BY DEF ValidOf

(* The journal of a deletion: one block of the file after the other is marked. *)
LEMMA DeletingStates ==
    ASSUME NEW s \in State, NEW f \in Files
    PROVE  /\ Deleting(s, f) \in Seq(State)
           /\ Len(Deleting(s, f)) = Len(s.list[f]) + 1 /\ Len(s.list[f]) \in Nat
           /\ \A i \in 1 .. Len(s.list[f]) :
                Deleting(s, f)[i].flash = Marked(s.flash, Range(SubSeq(s.list[f], 1, i - 1)))
           /\ Last(Deleting(s, f)) = Deleting(s, f)[Len(s.list[f]) + 1]
           /\ Last(Deleting(s, f))
                = [SetDirty(s, s.list[f]) EXCEPT !.list[f] = <<>>, !.size[f] = -1]
<1> DEFINE blocks == s.list[f]
           n == Len(blocks)
           marks == [i \in 1 .. n |-> SetDirty(s, SubSeq(blocks, 1, i - 1))]
           final == [SetDirty(s, blocks) EXCEPT !.list[f] = <<>>, !.size[f] = -1]
<1>1. blocks \in Seq(Blocks) /\ n \in Nat BY StateType, LenProperties
<1>2. Deleting(s, f) = marks \o <<final>> BY DEF Deleting
<1>3. \A i \in 1 .. n : SubSeq(blocks, 1, i - 1) \in Seq(Blocks)
  <2> TAKE i \in 1 .. n
  <2>1. \A k \in 1 .. i - 1 : blocks[k] \in Blocks BY <1>1, ElementOfSeq
  <2> HIDE DEF blocks, n
  <2> QED BY <2>1, <1>1, SubSeqProperties
<1>4. \A i \in 1 .. n : marks[i] \in State BY <1>3, SetDirtyState
<1>5. marks \in Seq(State) /\ Len(marks) = n
  <2>1. marks \in [1 .. n -> State] BY <1>4
  <2> HIDE DEF marks, n
  <2> QED BY <2>1, <1>1
<1>6. final \in State
  <2> DEFINE d == SetDirty(s, blocks)
  <2>1. d \in State BY <1>1, SetDirtyState
  <2> HIDE DEF d
  <2>2. [d.list EXCEPT ![f] = <<>>] \in [Files -> Seq(Blocks)]
        /\ [d.size EXCEPT ![f] = -1] \in [Files -> -1 .. MaxPages]
    BY <2>1, StateType, Sizes
  <2>3. [d EXCEPT !.list[f] = <<>>, !.size[f] = -1]
          = [d EXCEPT !.list = [d.list EXCEPT ![f] = <<>>], !.size = [d.size EXCEPT ![f] = -1]]
    BY <2>1 DEF State
  <2>4. [d EXCEPT !.list[f] = <<>>, !.size[f] = -1] \in State BY <2>1, <2>2, <2>3 DEF State
  <2> QED BY <2>4 DEF d
<1> HIDE DEF final
<1>7. <<final>> \in Seq(State) /\ Len(<<final>>) = 1 /\ <<final>>[1] = final BY <1>6
<1>8. /\ Deleting(s, f) \in Seq(State) /\ Len(Deleting(s, f)) = n + 1
      /\ \A i \in 1 .. n + 1 :
           Deleting(s, f)[i] = IF i <= n THEN marks[i] ELSE <<final>>[i - n]
  <2> HIDE DEF marks, n
  <2> QED BY <1>2, <1>5, <1>7, ConcatProperties
<1>9. \A i \in 1 .. n : Deleting(s, f)[i] = marks[i]
  <2> HIDE DEF marks, n
  <2> QED BY <1>1, <1>8
<1>10. Deleting(s, f)[n + 1] = final
  <2> HIDE DEF marks, n
  <2>1. n + 1 \in 1 .. n + 1 /\ ~(n + 1 <= n) /\ (n + 1) - n = 1 BY <1>1
  <2> QED BY <2>1, <1>8, <1>7
<1>11. \A i \in 1 .. n : marks[i].flash = Marked(s.flash, Range(SubSeq(blocks, 1, i - 1)))
  BY <1>3, SetDirtyState
<1>12. Last(Deleting(s, f)) = final BY <1>8, <1>10 DEF Last
<1> QED BY <1>1, <1>8, <1>9, <1>10, <1>11, <1>12 DEF final

(* The file that was deleted is gone, and the others are as they were. *)
LEMMA TrashedFile ==
    ASSUME NEW s, Volume(s), NEW f \in Files, Enumerates(s.list[f], ValidOf(s.flash, f))
    PROVE  /\ Volume(Trashed(s, f))
           /\ OnFile(Trashed(s, f), f) /\ Trashed(s, f).size[f] = -1
           /\ \A g \in Files \ {f} : Alike(s, Trashed(s, f), g)
           /\ Trashed(s, f).flash = Marked(s.flash, ValidOf(s.flash, f))
           /\ Trashed(s, f).dirty = s.dirty \o s.list[f]
<1> DEFINE t == Trashed(s, f)
           blocks == s.list[f]
           d == SetDirty(s, blocks)
           S == ValidOf(s.flash, f)
<1>1. s \in State /\ s.mode = "on" /\ FlashOk(s.flash) BY DEF Volume
<1>2. blocks \in Seq(Blocks) /\ Range(blocks) = S BY DEF Enumerates
<1>3. t = [d EXCEPT !.list[f] = <<>>, !.size[f] = -1] /\ t \in State
  <2>1. Len(s.list[f]) + 1 \in 1 .. Len(Deleting(s, f))
    <3>1. Len(Deleting(s, f)) = Len(s.list[f]) + 1 /\ Len(s.list[f]) \in Nat
      BY <1>1, DeletingStates
    <3> QED BY <3>1
  <2>2. Deleting(s, f)[Len(s.list[f]) + 1] \in State BY <2>1, <1>1, DeletingStates, ElementOfSeq
  <2>3. Last(Deleting(s, f)) = Deleting(s, f)[Len(s.list[f]) + 1] BY <1>1, DeletingStates
  <2>4. Last(Deleting(s, f)) = [SetDirty(s, s.list[f]) EXCEPT !.list[f] = <<>>, !.size[f] = -1]
    BY <1>1, DeletingStates
  <2> QED BY <2>2, <2>3, <2>4 DEF Trashed
<1>4. /\ d \in State /\ d.mode = "on" /\ d.flash = Marked(s.flash, S) /\ d.free = s.free
      /\ d.dirty = s.dirty \o blocks /\ d.list = s.list /\ d.size = s.size
  <2>1. s \in State /\ blocks \in Seq(Blocks) BY <1>1, <1>2
  <2> HIDE DEF blocks
  <2>2. /\ SetDirty(s, blocks) \in State /\ SetDirty(s, blocks).mode = s.mode
        /\ SetDirty(s, blocks).flash = Marked(s.flash, Range(blocks))
        /\ SetDirty(s, blocks).free = s.free /\ SetDirty(s, blocks).dirty = s.dirty \o blocks
        /\ SetDirty(s, blocks).list = s.list /\ SetDirty(s, blocks).size = s.size
    BY <2>1, SetDirtyState
  <2> QED BY <2>2, <1>1, <1>2
<1> HIDE DEF d, t
<1>5. /\ t.mode = "on" /\ t.flash = Marked(s.flash, S) /\ t.free = s.free
      /\ t.dirty = s.dirty \o blocks
      /\ t.list = [s.list EXCEPT ![f] = <<>>] /\ t.size = [s.size EXCEPT ![f] = -1]
  BY <1>3, <1>4 DEF State
<1>6. t.list[f] = <<>> /\ t.size[f] = -1
      /\ \A g \in Files \ {f} : t.list[g] = s.list[g] /\ t.size[g] = s.size[g]
  BY <1>1, <1>5, StateType
<1>7. \A b \in S : b \in Blocks /\ s.flash[b].hdr = "valid" BY DEF ValidOf
<1>8. Volume(t)
  <2>1. /\ Headed(t.flash, "bad") = Headed(s.flash, "bad") \cup S
        /\ Headed(s.flash, "bad") \cap S = {}
        /\ Headed(t.flash, "erased") = Headed(s.flash, "erased")
        /\ Headed(t.flash, "garbled") = Headed(s.flash, "garbled")
    BY <1>5, <1>7, MarkedHeaders
  <2>2. FlashOk(t.flash) BY <1>1, <1>5, MarkedOk
  <2>3. Enumerates(s.dirty, Headed(s.flash, "bad")) BY DEF Volume
  <2>4. Enumerates(t.dirty, Headed(t.flash, "bad")) BY <2>1, <2>3, <1>5, EnumeratesBoth
  <2> QED BY <2>1, <2>2, <2>4, <1>3, <1>5 DEF Volume
<1>9. ValidOf(t.flash, f) = {}
  <2>1. Blank("bad").hdr = "bad" BY BlockType
  <2> QED BY <2>1, <1>5 DEF ValidOf, Marked
<1>10. \A g \in Files \ {f} : Alike(s, t, g)
  <2> TAKE g \in Files \ {f}
  <2>1. S \cap ValidOf(s.flash, g) = {} BY ValidOfOne
  <2>2. Untouched(s.flash, t.flash, g) BY <2>1, <1>5, MarkedUntouched
  <2> QED BY <2>2, <1>6 DEF Alike
<1>11. OnFile(t, f) BY <1>6, <1>9 DEF OnFile
<1> QED BY <1>5, <1>6, <1>8, <1>10, <1>11 DEF t

(* A deletion that is cut short has marked the head of the file, if any of it: a file
   without its head is deleted by the next mount. *)
LEMMA DeletingCut ==
    ASSUME NEW flash, FlashOk(flash), NEW f, NEW blocks, Enumerates(blocks, ValidOf(flash, f)),
           \/ \A b \in ValidOf(flash, f) : flash[b].blk # 0
           \/ blocks # <<>> => flash[blocks[1]].blk = 0,
           NEW A, Gone \in A, Off(flash, f, A), NEW i \in 0 .. Len(blocks)
    PROVE  /\ FlashOk(Marked(flash, Range(SubSeq(blocks, 1, i))))
           /\ Off(Marked(flash, Range(SubSeq(blocks, 1, i))), f, A)
           /\ \A g : g # f => Untouched(flash, Marked(flash, Range(SubSeq(blocks, 1, i))), g)
<1> DEFINE S == Range(SubSeq(blocks, 1, i))
<1>1. /\ blocks \in Seq(Blocks) /\ Len(blocks) \in Nat
      /\ \A k \in 1 .. Len(blocks) : blocks[k] \in ValidOf(flash, f)
  BY EnumeratesMember
<1>2. /\ SubSeq(blocks, 1, i) \in Seq(Blocks)
      /\ Len(SubSeq(blocks, 1, i)) = i
      /\ \A k \in 1 .. i : SubSeq(blocks, 1, i)[k] = blocks[k]
  <2>1. \A k \in 1 .. i : blocks[k] \in Blocks BY <1>1, ElementOfSeq
  <2> QED BY <2>1, <1>1, SubSeqProperties
<1>3. S = {blocks[k] : k \in 1 .. i}
  <2>1. DOMAIN SubSeq(blocks, 1, i) = 1 .. i BY <1>2, LenProperties
  <2> QED BY <2>1, <1>2 DEF Range
<1> HIDE DEF S
<1>4. S \subseteq ValidOf(flash, f) BY <1>1, <1>3
<1>5. FlashOk(Marked(flash, S)) BY MarkedOk
<1>6. ASSUME NEW b \in S, NEW c \in ValidOf(flash, f), flash[c].blk = 0 PROVE c \in S
  <2>1. i >= 1 /\ blocks # <<>> BY <1>1, <1>3
  <2>2. flash[blocks[1]].blk = 0 BY <2>1, <1>6
  <2>3. blocks[1] \in S /\ blocks[1] \in ValidOf(flash, f) BY <2>1, <1>1, <1>3
  <2>4. At(flash, f, 0) = c /\ At(flash, f, 0) = blocks[1] BY <2>2, <2>3, <1>6, AtNumber
  <2> QED BY <2>3, <2>4
<1>7. \A b \in S \cap ValidOf(flash, f) :
        /\ Gone \in A
        /\ \A c \in ValidOf(flash, f) : flash[c].blk = 0 => c \in S
  BY <1>6
<1>8. Off(Marked(flash, S), f, A) BY <1>7, MarkedOff
<1>9. \A g : g # f => Untouched(flash, Marked(flash, S), g)
  BY <1>4, ValidOfOne, MarkedUntouched
<1> QED BY <1>5, <1>8, <1>9 DEF S

LEMMA DeletingJournal ==
    ASSUME NEW s, Good(s), NEW f \in Files, s.size[f] # -1, NEW A, Gone \in A, Contents(s, f) \in A
    PROVE  /\ Journal(Deleting(s, f), s, f, A)
           /\ Contents(Last(Deleting(s, f)), f) = Gone
           /\ Last(Deleting(s, f)).size[f] = -1
           /\ Headed(s.flash, "bad") \subseteq Headed(Last(Deleting(s, f)).flash, "bad")
<1> DEFINE J == Deleting(s, f)
           n == Len(s.list[f])
<1>1. s \in State /\ Volume(s) /\ FlashOk(s.flash) BY DEF Good, Volume
<1>2. Enumerates(s.list[f], ValidOf(s.flash, f)) BY GoodList
<1>3. /\ n \in 1 .. NBlocks
      /\ \A k \in 1 .. n : s.list[f][k] \in ValidOf(s.flash, f) /\ s.flash[s.list[f][k]].blk = k - 1
  BY GoodFile
<1>4. /\ J \in Seq(State) /\ Len(J) = n + 1 /\ n \in Nat
      /\ \A i \in 1 .. n : J[i].flash = Marked(s.flash, Range(SubSeq(s.list[f], 1, i - 1)))
      /\ Last(J) = J[n + 1] /\ Last(J) = Trashed(s, f)
  BY <1>1, DeletingStates DEF Trashed
<1>5. /\ Volume(Last(J)) /\ OnFile(Last(J), f) /\ Last(J).size[f] = -1
      /\ \A g \in Files \ {f} : Alike(s, Last(J), g)
      /\ Last(J).flash = Marked(s.flash, ValidOf(s.flash, f))
  BY <1>1, <1>2, <1>4, TrashedFile
<1> HIDE DEF J, n
<1>6. Good(Last(J)) /\ \A g \in Files \ {f} : Contents(Last(J), g) = Contents(s, g)
  BY <1>5, GoodBy
<1>7. Contents(Last(J), f) = Gone BY <1>5, <1>6, GoodNoFile
<1>8. Off(s.flash, f, A)
  <2>1. Off(s.flash, f, {Contents(s, f)}) BY GoodOff
  <2> QED BY <2>1, MoreOff
<1>9. ASSUME NEW k \in 1 .. Len(J) PROVE CutOk(s, f, A, J[k].flash)
  <2>1. CASE k = n + 1
    <3>1. CutOk(Last(J), f, A, Last(J).flash) BY <1>6, <1>7, GoodCut
    <3>2. CutOk(s, f, A, Last(J).flash) BY <3>1, <1>6, CutMore
    <3> QED BY <3>2, <2>1, <1>4
  <2>2. CASE k # n + 1
    <3>1. k \in 1 .. n /\ k - 1 \in 0 .. n BY <2>2, <1>4
    <3>2. s.flash[s.list[f][1]].blk = 0 BY <1>3
    <3>3. k - 1 \in 0 .. Len(s.list[f]) BY <3>1 DEF n
    <3>4. /\ FlashOk(J[k].flash) /\ Off(J[k].flash, f, A)
          /\ \A g : g # f => Untouched(s.flash, J[k].flash, g)
      BY <3>1, <3>2, <3>3, <1>1, <1>2, <1>4, <1>8, DeletingCut
    <3> QED BY <3>4, CutBy
  <2> QED BY <2>1, <2>2
<1>10. Len(J) # 1 /\ J # <<>> BY <1>3, <1>4
<1>11. Headed(s.flash, "bad") \subseteq Headed(Last(J).flash, "bad")
  <2>1. \A b \in ValidOf(s.flash, f) : b \in Blocks /\ s.flash[b].hdr = "valid" BY DEF ValidOf
  <2>2. Headed(Last(J).flash, "bad") = Headed(s.flash, "bad") \cup ValidOf(s.flash, f)
    BY <2>1, <1>5, MarkedHeaders
  <2> QED BY <2>2
<1>12. Journal(J, s, f, A) BY <1>4, <1>6, <1>9, <1>10 DEF Journal
<1> QED BY <1>5, <1>7, <1>11, <1>12 DEF J

-----------------------------------------------------------------------------
(* Changing one block                                                        *)

LEMMA PutOk ==
    ASSUME NEW flash, FlashOk(flash), NEW b \in Blocks, NEW block \in Block,
           Len(block.log) <= PhysPages,
           block.hdr = "erased" => block = Blank("erased"),
           block.hdr = "valid" => \A c \in Blocks \ {b} :
               flash[c].hdr = "valid" /\ flash[c].file = block.file => flash[c].blk # block.blk,
           block.hdr = "garbled" => \A c \in Blocks \ {b} : flash[c].hdr # "garbled"
    PROVE  FlashOk(Put(flash, b, block))
<1> DEFINE put == Put(flash, b, block)
<1>1. flash \in [Blocks -> Block] BY DEF FlashOk
<1>2. put \in [Blocks -> Block] /\ put[b] = block /\ \A c \in Blocks \ {b} : put[c] = flash[c]
  BY <1>1 DEF Put
<1> HIDE DEF put
<1>3. \A c \in Blocks : c = b \/ c \in Blocks \ {b} OBVIOUS
<1>4. \A c \in Blocks : Len(put[c].log) <= PhysPages BY <1>2, <1>3 DEF FlashOk
<1>5. \A c \in Blocks : put[c].hdr = "erased" => put[c] = Blank("erased")
  BY <1>2, <1>3 DEF FlashOk
<1>6. ASSUME NEW c \in Blocks, NEW d \in Blocks, put[c].hdr = "valid", put[d].hdr = "valid",
             put[c].file = put[d].file, put[c].blk = put[d].blk
      PROVE  c = d
  <2>1. CASE c = b /\ d # b BY <2>1, <1>2, <1>6
  <2>2. CASE c # b /\ d = b BY <2>2, <1>2, <1>6
  <2>3. CASE c # b /\ d # b BY <2>3, <1>2, <1>6 DEF FlashOk
  <2> QED BY <2>1, <2>2, <2>3
<1>7. ASSUME NEW c \in Blocks, NEW d \in Blocks, put[c].hdr = "garbled", put[d].hdr = "garbled"
      PROVE  c = d
  <2>1. CASE c = b /\ d # b BY <2>1, <1>2, <1>7
  <2>2. CASE c # b /\ d = b BY <2>2, <1>2, <1>7
  <2>3. CASE c # b /\ d # b BY <2>3, <1>2, <1>7 DEF FlashOk
  <2> QED BY <2>1, <2>2, <2>3
<1>8. FlashOk(put) BY <1>2, <1>4, <1>5, <1>6, <1>7 DEF FlashOk
<1> QED BY <1>8 DEF put

LEMMA PutBlock ==
    ASSUME NEW flash \in [Blocks -> Block], NEW b \in Blocks, NEW block
    PROVE  /\ Put(flash, b, block)[b] = block
           /\ \A c \in Blocks \ {b} : Put(flash, b, block)[c] = flash[c]
           /\ block \in Block => Put(flash, b, block) \in [Blocks -> Block]
           /\ \A f : ValidOf(Put(flash, b, block), f)
                         = IF block.hdr = "valid" /\ block.file = f THEN ValidOf(flash, f) \cup {b}
                                                                    ELSE ValidOf(flash, f) \ {b}
           /\ \A f : b \notin ValidOf(flash, f) /\ ~(block.hdr = "valid" /\ block.file = f)
                         => Untouched(flash, Put(flash, b, block), f)
<1> DEFINE put == Put(flash, b, block)
<1>1. put[b] = block /\ \A c \in Blocks \ {b} : put[c] = flash[c] BY DEF Put
<1>2. block \in Block => put \in [Blocks -> Block] BY DEF Put
<1> HIDE DEF put
<1>4. \A f : ValidOf(put, f) = IF block.hdr = "valid" /\ block.file = f
                               THEN ValidOf(flash, f) \cup {b} ELSE ValidOf(flash, f) \ {b}
  BY <1>1 DEF ValidOf
<1>5. ASSUME NEW f, b \notin ValidOf(flash, f), ~(block.hdr = "valid" /\ block.file = f)
      PROVE  Untouched(flash, put, f)
  <2>1. ValidOf(put, f) = ValidOf(flash, f) BY <1>4, <1>5
  <2>2. \A c \in ValidOf(flash, f) : c \in Blocks \ {b} BY <1>5 DEF ValidOf
  <2> QED BY <2>1, <2>2, <1>1 DEF Untouched
<1> QED BY <1>1, <1>2, <1>4, <1>5 DEF put

LEMMA PutHeaded ==
    ASSUME NEW flash \in [Blocks -> Block], NEW b \in Blocks, NEW block, NEW hdr
    PROVE  Headed(Put(flash, b, block), hdr)
             = IF block.hdr = hdr THEN Headed(flash, hdr) \cup {b} ELSE Headed(flash, hdr) \ {b}
BY DEF Put, Headed

LEMMA EnumeratesCount ==
    ASSUME NEW S, NEW seq, Enumerates(seq, S)
    PROVE  IsFiniteSet(S) /\ Cardinality(S) = Len(seq)
<1>1. /\ seq \in Seq(Blocks) /\ S \subseteq Blocks
      /\ Len(seq) \in Nat /\ DOMAIN seq = 1 .. Len(seq)
      /\ \A i \in 1 .. Len(seq) : seq[i] \in S
      /\ \A b \in S : \E i \in 1 .. Len(seq) : seq[i] = b
      /\ \A i, j \in 1 .. Len(seq) : seq[i] = seq[j] => i = j
  BY EnumeratesMember
<1>2. seq \in [1 .. Len(seq) -> S] BY <1>1
<1>3. seq \in Bijection(1 .. Len(seq), S)
  BY <1>1, <1>2 DEF Bijection, Injection, Surjection, IsInjective
<1>4. ExistsBijection(1 .. Len(seq), S) BY <1>3 DEF ExistsBijection
<1>5. Cardinality(S) = Len(seq) BY <1>1, <1>4, FS_CountingElements
<1> QED BY <1>1, <1>5, BlocksFinite

(* While a block is not in a file, the file has less than all blocks. *)
LEMMA FewBlocks ==
    ASSUME NEW S, NEW seq, Enumerates(seq, S), NEW b \in Blocks, b \notin S
    PROVE  Len(seq) \in 0 .. NBlocks - 1
<1>1. S \subseteq Blocks /\ Len(seq) \in Nat BY EnumeratesMember
<1>2. IsFiniteSet(S) /\ Cardinality(S) = Len(seq) BY EnumeratesCount
<1>3. IsFiniteSet(S \cup {b}) /\ Cardinality(S \cup {b}) = Len(seq) + 1
  BY <1>2, FS_AddElement
<1>4. Cardinality(Blocks) = NBlocks
  <2>1. 0 \in Int /\ NBlocks - 1 \in Int BY Sizes
  <2>2. Cardinality(0 .. NBlocks - 1) = IF 0 > NBlocks - 1 THEN 0 ELSE (NBlocks - 1) - 0 + 1
    BY <2>1, FS_Interval
  <2> QED BY <2>2, Sizes DEF Blocks
<1>5. Cardinality(S \cup {b}) <= Cardinality(Blocks)
  <2>1. S \cup {b} \in SUBSET Blocks BY <1>1
  <2> QED BY <2>1, BlocksFinite, FS_Subset
<1> QED BY <1>1, <1>3, <1>4, <1>5, Sizes

-----------------------------------------------------------------------------
(* A new block for a file                                                    *)

LEMMA ErasedHeader ==
    ASSUME NEW block, block = Blank("erased"), NEW hdr \in {"garbled", "bad"}
    PROVE  \E new \in Block : /\ new = [block EXCEPT !.hdr = hdr]
                              /\ new.hdr = hdr /\ Len(new.log) = 0
<1> DEFINE new == [block EXCEPT !.hdr = hdr]
<1>1. block \in Block /\ block.log = <<>> BY BlockType
<1>2. new \in Block /\ new.hdr = hdr /\ new.log = <<>> BY <1>1 DEF Block
<1> QED BY <1>2

Fresh(block, f, n) == [block EXCEPT !.hdr = "valid", !.file = f, !.blk = n]

LEMMA ErasedBlock ==
    ASSUME NEW block, block = Blank("erased"), NEW f \in Files, NEW n \in Blocks
    PROVE  /\ Fresh(block, f, n) \in Block
           /\ Fresh(block, f, n).hdr = "valid" /\ Fresh(block, f, n).file = f
           /\ Fresh(block, f, n).blk = n
           /\ Fresh(block, f, n).log = <<>> /\ ~Fresh(block, f, n).torn
<1>1. block \in Block /\ block.log = <<>> /\ block.torn = FALSE BY BlockType DEF Blank
<1>2. Fresh(block, f, n) \in Block BY <1>1 DEF Block, Fresh
<1>3. /\ Fresh(block, f, n).hdr = "valid" /\ Fresh(block, f, n).file = f
      /\ Fresh(block, f, n).blk = n
      /\ Fresh(block, f, n).log = <<>> /\ Fresh(block, f, n).torn = FALSE
  BY <1>1 DEF Block, Fresh
<1> QED BY <1>2, <1>3

LEMMA AllocStates ==
    ASSUME NEW s \in State, NEW f \in Files, s.free # <<>>, NEW b \in Blocks, b = Head(s.free),
           s.flash[b] = Blank("erased"), Len(s.list[f]) \in Blocks
    PROVE  \E g, d, t \in State, half \in Block, dead \in Block, new \in Block :
             /\ AllocBlock(s, f) = <<s, g, d, t>>
             /\ g.flash = Put(s.flash, b, half) /\ half.hdr = "garbled" /\ Len(half.log) = 0
             /\ d.flash = Put(s.flash, b, dead) /\ dead.hdr = "bad" /\ Len(dead.log) = 0
             /\ new.hdr = "valid" /\ new.file = f /\ new.blk = Len(s.list[f])
             /\ new.log = <<>> /\ ~new.torn
             /\ t.mode = s.mode /\ t.flash = Put(s.flash, b, new) /\ t.free = Tail(s.free)
             /\ t.dirty = s.dirty /\ t.size = s.size
             /\ t.list = [s.list EXCEPT ![f] = Append(s.list[f], b)]
<1> DEFINE taken == [s EXCEPT !.free = Tail(s.free)]
           half == [s.flash[b] EXCEPT !.hdr = "garbled"]
           dead == [s.flash[b] EXCEPT !.hdr = "bad"]
           new == [s.flash[b] EXCEPT !.hdr = "valid", !.file = f, !.blk = Len(s.list[f])]
           g == [taken EXCEPT !.flash[b].hdr = "garbled"]
           d == [taken EXCEPT !.flash[b].hdr = "bad"]
           t == [taken EXCEPT !.flash[b] = new, !.list[f] = Append(s.list[f], b)]
<1>1. /\ s.flash \in [Blocks -> Block] /\ s.free \in Seq(Blocks)
      /\ s.list \in [Files -> Seq(Blocks)] /\ s.list[f] \in Seq(Blocks)
  BY StateType
<1>2. Tail(s.free) \in Seq(Blocks) BY <1>1, HeadTailProperties
<1>3. Append(s.list[f], b) \in Seq(Blocks) BY <1>1, AppendProperties
<1>4. /\ half \in Block /\ half.hdr = "garbled" /\ Len(half.log) = 0
      /\ dead \in Block /\ dead.hdr = "bad" /\ Len(dead.log) = 0
      /\ new \in Block /\ new.hdr = "valid" /\ new.file = f /\ new.blk = Len(s.list[f])
      /\ new.log = <<>> /\ new.torn = FALSE
  <2> DEFINE block == s.flash[b]
  <2>1. block = Blank("erased") OBVIOUS
  <2>2. PICK n \in Blocks : n = Len(s.list[f]) OBVIOUS
  <2>3. half = [block EXCEPT !.hdr = "garbled"] /\ dead = [block EXCEPT !.hdr = "bad"]
        /\ new = Fresh(block, f, n)
    BY <2>2 DEF Fresh
  <2> HIDE DEF block, half, dead, new
  <2>4. \E x \in Block : /\ x = [block EXCEPT !.hdr = "garbled"]
                         /\ x.hdr = "garbled" /\ Len(x.log) = 0
    BY <2>1, ErasedHeader
  <2>5. \E x \in Block : /\ x = [block EXCEPT !.hdr = "bad"]
                         /\ x.hdr = "bad" /\ Len(x.log) = 0
    BY <2>1, ErasedHeader
  <2>6. /\ Fresh(block, f, n) \in Block
        /\ Fresh(block, f, n).hdr = "valid" /\ Fresh(block, f, n).file = f
        /\ Fresh(block, f, n).blk = n
        /\ Fresh(block, f, n).log = <<>> /\ ~Fresh(block, f, n).torn
    BY <2>1, ErasedBlock
  <2>7. half \in Block /\ half.hdr = "garbled" /\ Len(half.log) = 0 BY <2>3, <2>4
  <2>8. dead \in Block /\ dead.hdr = "bad" /\ Len(dead.log) = 0 BY <2>3, <2>5
  <2>9. /\ new \in Block /\ new.hdr = "valid" /\ new.file = f /\ new.blk = n
        /\ new.log = <<>> /\ new.torn = FALSE
    BY <2>3, <2>6, BlockType
  <2> QED BY <2>2, <2>7, <2>8, <2>9
<1>5. /\ taken \in State /\ taken.mode = s.mode /\ taken.flash = s.flash
      /\ taken.free = Tail(s.free) /\ taken.dirty = s.dirty /\ taken.list = s.list
      /\ taken.size = s.size
  BY <1>2 DEF State
<1>6. /\ g = [taken EXCEPT !.flash = Put(s.flash, b, half)]
      /\ d = [taken EXCEPT !.flash = Put(s.flash, b, dead)]
  <2> HIDE DEF taken
  <2> QED BY <1>5 DEF State, Put
<1>7. t = [taken EXCEPT !.flash = Put(s.flash, b, new),
                        !.list = [s.list EXCEPT ![f] = Append(s.list[f], b)]]
  <2> HIDE DEF taken, new
  <2> QED BY <1>5 DEF State, Put
<1>8. AllocBlock(s, f) = <<s, g, d, t>> BY DEF AllocBlock
<1> HIDE DEF taken, half, dead, new, g, d, t
<1>9. /\ Put(s.flash, b, half) \in [Blocks -> Block] /\ Put(s.flash, b, dead) \in [Blocks -> Block]
      /\ Put(s.flash, b, new) \in [Blocks -> Block]
  BY <1>1, <1>4, PutBlock
<1>10. [s.list EXCEPT ![f] = Append(s.list[f], b)] \in [Files -> Seq(Blocks)] BY <1>1, <1>3
<1>11. g \in State /\ g.flash = Put(s.flash, b, half) BY <1>5, <1>6, <1>9 DEF State
<1>12. d \in State /\ d.flash = Put(s.flash, b, dead) BY <1>5, <1>6, <1>9 DEF State
<1>13. /\ t \in State /\ t.mode = s.mode /\ t.flash = Put(s.flash, b, new)
       /\ t.free = Tail(s.free) /\ t.dirty = s.dirty /\ t.size = s.size
       /\ t.list = [s.list EXCEPT ![f] = Append(s.list[f], b)]
  BY <1>5, <1>7, <1>9, <1>10 DEF State
<1> QED BY <1>4, <1>8, <1>11, <1>12, <1>13

LEMMA AllocFile ==
    ASSUME NEW flash, FlashOk(flash), NEW f \in Files, NEW n \in 0 .. NBlocks - 1, NEW size \in Nat,
           size = n * DataPages, Shape(flash, f, n, size), Whole(flash, f),
           NEW b \in Blocks, flash[b].hdr = "erased",
           NEW new \in Block, new.hdr = "valid", new.file = f, new.blk = n, new.log = <<>>, ~new.torn
    PROVE  /\ FlashOk(Put(flash, b, new))
           /\ Shape(Put(flash, b, new), f, n + 1, size)
           /\ Whole(Put(flash, b, new), f)
           /\ Text(Put(flash, b, new), f, size) = Text(flash, f, size)
           /\ \A k \in 0 .. n - 1 : At(Put(flash, b, new), f, k) = At(flash, f, k)
           /\ At(Put(flash, b, new), f, n) = b
<1> DEFINE put == Put(flash, b, new)
<1>1. /\ flash \in [Blocks -> Block] /\ n \in Nat /\ \A c \in ValidOf(flash, f) : flash[c].blk \in Nat
  BY Sizes, FlashType
<1>2. /\ put[b] = new /\ \A c \in Blocks \ {b} : put[c] = flash[c]
      /\ ValidOf(put, f) = ValidOf(flash, f) \cup {b}
  BY <1>1, PutBlock
<1>3. b \notin ValidOf(flash, f) /\ ValidOf(flash, f) \subseteq Blocks \ {b} BY DEF ValidOf
<1>4. \A c \in ValidOf(flash, f) : put[c] = flash[c] /\ flash[c].blk < n BY <1>2, <1>3 DEF Shape
<1>5. FlashOk(put)
  <2>1. \A c \in Blocks \ {b} :
          flash[c].hdr = "valid" /\ flash[c].file = new.file => flash[c].blk # new.blk
    BY <1>1, <1>4 DEF ValidOf
  <2>2. Len(new.log) <= PhysPages BY Sizes
  <2>3. new.hdr # "erased" /\ new.hdr # "garbled" OBVIOUS
  <2> QED BY <2>1, <2>2, <2>3, PutOk
<1> HIDE DEF put
<1>6. Indices(new) = {} BY IndicesType
<1>7. Shape(put, f, n + 1, size)
  <2>1. ((n + 1) - 1) * DataPages <= size /\ size <= (n + 1) * DataPages
    <3>1. (n + 1) - 1 = n BY <1>1
    <3>2. n * DataPages + DataPages <= (n + 1) * DataPages BY <1>1, Multiples
    <3>3. n * DataPages \in Nat /\ (n + 1) * DataPages \in Nat BY <1>1, Sizes
    <3> QED BY <3>1, <3>2, <3>3, Sizes
  <2>2. \A c \in ValidOf(put, f) : put[c].blk < n + 1 BY <1>1, <1>2, <1>4
  <2>3. ASSUME NEW k \in 0 .. (n + 1) - 1 PROVE \E c \in ValidOf(put, f) : put[c].blk = k
    <3>1. CASE k = n BY <3>1, <1>2
    <3>2. CASE k # n
      <4>1. k \in 0 .. n - 1 BY <3>2, <1>1
      <4>2. PICK c \in ValidOf(flash, f) : flash[c].blk = k BY <4>1 DEF Shape
      <4> QED BY <4>2, <1>2, <1>4
    <3> QED BY <3>1, <3>2
  <2>4. ASSUME NEW c \in ValidOf(put, f) PROVE Indices(put[c]) = InBlock(size, put[c].blk)
    <3>1. CASE c = b
      <4>1. InBlock(size, n) = {}
        <5>1. size <= n * DataPages OBVIOUS
        <5> QED BY <5>1, <1>1, InBlockPages
      <4> QED BY <3>1, <4>1, <1>2, <1>6
    <3>2. CASE c # b
      <4>1. c \in ValidOf(flash, f) BY <3>2, <1>2
      <4> QED BY <4>1, <1>4 DEF Shape
    <3> QED BY <3>1, <3>2
  <2> QED BY <2>1, <2>2, <2>3, <2>4 DEF Shape
<1>8. Whole(put, f) BY <1>2, <1>4, <1>6 DEF Whole
<1>9. \A k \in 0 .. n - 1 : At(put, f, k) = At(flash, f, k)
  <2> TAKE k \in 0 .. n - 1
  <2>1. At(flash, f, k) \in ValidOf(flash, f) /\ flash[At(flash, f, k)].blk = k BY AtBlock
  <2>2. At(flash, f, k) \in ValidOf(put, f) /\ put[At(flash, f, k)].blk = k BY <2>1, <1>2, <1>4
  <2>3. At(put, f, put[At(flash, f, k)].blk) = At(flash, f, k) BY <2>2, <1>5, AtNumber
  <2> QED BY <2>2, <2>3
<1>10. At(put, f, n) = b
  <2>1. At(put, f, put[b].blk) = b BY <1>2, <1>5, AtNumber
  <2> QED BY <2>1, <1>2
<1>11. Text(put, f, size) = Text(flash, f, size)
  <2>1. ASSUME NEW i \in 1 .. size PROVE PageAt(put, f, i - 1) = PageAt(flash, f, i - 1)
    <3>1. i - 1 \in 0 .. size - 1 BY <1>1, Sizes
    <3>2. /\ (i - 1) \div DataPages \in 0 .. n - 1
          /\ At(flash, f, (i - 1) \div DataPages) \in ValidOf(flash, f)
      BY <3>1, <1>1, PageOf
    <3> QED BY <3>2, <1>4, <1>9 DEF PageAt
  <2> QED BY <2>1 DEF Text
<1> QED BY <1>5, <1>7, <1>8, <1>9, <1>10, <1>11 DEF put

(* The state u is the one after a block was allocated, with the size of the file set. *)
Allocated(s, f, size, u) ==
    /\ u.mode = "on" /\ u.flash = Last(AllocBlock(s, f)).flash
    /\ u.free = Last(AllocBlock(s, f)).free /\ u.dirty = Last(AllocBlock(s, f)).dirty
    /\ u.list = Last(AllocBlock(s, f)).list
    /\ u.size = [s.size EXCEPT ![f] = size]

(* The file has one more block, an empty one. *)
Longer(s, f, u) ==
    /\ Good(u)
    /\ \A g \in Files \ {f} : Contents(u, g) = Contents(s, g)
    /\ Contents(u, f) = IF s.size[f] = -1 THEN <<>> ELSE Contents(s, f)
    /\ Headed(u.flash, "bad") = Headed(s.flash, "bad")
    /\ Len(u.list[f]) = Len(s.list[f]) + 1 /\ Len(s.list[f]) \in Nat
    /\ Len(u.flash[u.list[f][Len(s.list[f]) + 1]].log) = 0

(* The next block of a file, or the first one of a new file: the flash while it is allocated,
   and the file with it. *)
LEMMA AllocGood ==
    ASSUME NEW s, Good(s), NEW f \in Files, s.free # <<>>, NEW size \in 0 .. MaxPages,
           size = Len(s.list[f]) * DataPages, s.size[f] \in {-1, size},
           NEW A, Contents(s, f) \in A, s.size[f] = -1 => <<>> \in A
    PROVE  /\ AllocBlock(s, f) \in Seq(State) /\ Len(AllocBlock(s, f)) = 4
           /\ \A k \in 1 .. 4 : CutOk(s, f, A, AllocBlock(s, f)[k].flash)
           /\ Last(AllocBlock(s, f)).size = s.size /\ Last(AllocBlock(s, f)).mode = "on"
           /\ \A t \in State : Allocated(s, f, size, t) => Longer(s, f, t)
<1> DEFINE b == Head(s.free)
           n == Len(s.list[f])
           J == AllocBlock(s, f)
<1>1. /\ s \in State /\ s.mode = "on" /\ FlashOk(s.flash) /\ s.flash \in [Blocks -> Block]
      /\ Headed(s.flash, "garbled") = {}
      /\ Enumerates(s.free, Headed(s.flash, "erased"))
      /\ Enumerates(s.dirty, Headed(s.flash, "bad"))
  BY FlashType DEF Good, Volume
<1>2. /\ b \in Headed(s.flash, "erased")
      /\ Enumerates(Tail(s.free), Headed(s.flash, "erased") \ {b})
  BY <1>1, EnumeratesTail
<1>3. b \in Blocks /\ s.flash[b].hdr = "erased" /\ s.flash[b] = Blank("erased")
  BY <1>1, <1>2 DEF Headed, FlashOk
<1>4. \A g \in Files : b \notin ValidOf(s.flash, g) BY <1>3 DEF ValidOf
<1>5. n \in 0 .. NBlocks - 1 /\ n \in Nat /\ size \in Nat /\ n \in Blocks
  <2>1. Enumerates(s.list[f], ValidOf(s.flash, f)) BY GoodList
  <2>2. n \in 0 .. NBlocks - 1 BY <2>1, <1>3, <1>4, FewBlocks
  <2> QED BY <2>2, Sizes DEF Blocks
<1>6. /\ Shape(s.flash, f, n, size) /\ Whole(s.flash, f)
      /\ s.list[f] \in Seq(Blocks) /\ \A k \in 1 .. n : s.list[f][k] = At(s.flash, f, k - 1)
  <2>1. CASE s.size[f] = -1
    <3>1. s.list[f] = <<>> /\ ValidOf(s.flash, f) = {} BY <2>1, GoodNoFile
    <3>2. n = 0 /\ size = 0 BY <3>1, Sizes
    <3>3. (0 - 1) * DataPages <= 0 /\ 0 <= 0 * DataPages BY Sizes
    <3>4. Shape(s.flash, f, 0, 0) BY <3>1, <3>3 DEF Shape
    <3>5. Whole(s.flash, f) BY <3>1 DEF Whole
    <3>6. s.list[f] \in Seq(Blocks) BY <3>1
    <3> QED BY <3>2, <3>4, <3>5, <3>6
  <2>2. CASE s.size[f] # -1
    <3>1. s.size[f] = size BY <2>2
    <3> QED BY <3>1, <2>2, GoodFile
  <2> QED BY <2>1, <2>2
<1>7. PICK g, d, t \in State, half \in Block, dead \in Block, new \in Block :
         /\ AllocBlock(s, f) = <<s, g, d, t>>
         /\ g.flash = Put(s.flash, b, half) /\ half.hdr = "garbled" /\ Len(half.log) = 0
         /\ d.flash = Put(s.flash, b, dead) /\ dead.hdr = "bad" /\ Len(dead.log) = 0
         /\ new.hdr = "valid" /\ new.file = f /\ new.blk = Len(s.list[f]) /\ new.log = <<>> /\ ~new.torn
         /\ t.mode = s.mode /\ t.flash = Put(s.flash, b, new) /\ t.free = Tail(s.free)
         /\ t.dirty = s.dirty /\ t.size = s.size
         /\ t.list = [s.list EXCEPT ![f] = Append(s.list[f], b)]
  <2>1. /\ s \in State /\ f \in Files /\ s.free # <<>> /\ b \in Blocks /\ b = Head(s.free)
        /\ s.flash[b] = Blank("erased") /\ Len(s.list[f]) \in Blocks
    BY <1>1, <1>3, <1>5
  <2> HIDE DEF b, J, n
  <2> QED BY <2>1, AllocStates
<1>8. /\ J \in Seq(State) /\ Len(J) = 4 /\ J[1] = s /\ J[2] = g /\ J[3] = d /\ J[4] = t
      /\ Last(J) = t
  BY <1>1, <1>7 DEF Last
<1>7a. new.blk = n BY <1>7
<1> HIDE DEF J, b, n
<1>9. /\ FlashOk(t.flash) /\ Shape(t.flash, f, n + 1, size) /\ Whole(t.flash, f)
      /\ Text(t.flash, f, size) = Text(s.flash, f, size)
      /\ \A k \in 0 .. n - 1 : At(t.flash, f, k) = At(s.flash, f, k)
      /\ At(t.flash, f, n) = b
  <2>1. size = n * DataPages BY DEF n
  <2>2. new.hdr = "valid" /\ new.file = f /\ new.blk = n /\ new.log = <<>> /\ ~new.torn
    BY <1>7, <1>7a
  <2>3. /\ FlashOk(Put(s.flash, b, new))
        /\ Shape(Put(s.flash, b, new), f, n + 1, size)
        /\ Whole(Put(s.flash, b, new), f)
        /\ Text(Put(s.flash, b, new), f, size) = Text(s.flash, f, size)
        /\ \A k \in 0 .. n - 1 : At(Put(s.flash, b, new), f, k) = At(s.flash, f, k)
        /\ At(Put(s.flash, b, new), f, n) = b
    BY <2>1, <2>2, <1>1, <1>3, <1>5, <1>6, AllocFile
  <2> QED BY <2>3, <1>7
<1>10. \A h \in Files \ {f} : Untouched(s.flash, t.flash, h) BY <1>1, <1>3, <1>4, <1>7, PutBlock
<1>11. s.size[f] # -1 => Contents(s, f) = Text(s.flash, f, size) BY GoodContents
<1>12. Text(t.flash, f, size) \in A
  <2>1. CASE s.size[f] # -1 BY <2>1, <1>9, <1>11
  <2>2. CASE s.size[f] = -1
    <3>1. n = 0 BY <2>2, GoodNoFile DEF n
    <3>2. size = 0 BY <3>1, Sizes DEF n
    <3>3. Text(t.flash, f, 0) = <<>> BY DEF Text
    <3> QED BY <2>2, <3>2, <3>3
  <2> QED BY <2>1, <2>2
<1>13. Off(t.flash, f, A)
  <2>1. n + 1 \in 1 .. NBlocks BY <1>5, Sizes
  <2> QED BY <2>1, <1>9, <1>12, OffBy
<1>14. Off(s.flash, f, A)
  <2>1. Off(s.flash, f, {Contents(s, f)}) BY GoodOff
  <2> QED BY <2>1, MoreOff
<1>15. ASSUME NEW block \in Block, Len(block.log) = 0, block.hdr \in {"garbled", "bad"}
       PROVE  CutOk(s, f, A, Put(s.flash, b, block))
  <2>1. FlashOk(Put(s.flash, b, block))
    <3>1. \A c \in Blocks \ {b} : s.flash[c].hdr # "garbled" BY <1>1 DEF Headed
    <3>2. Len(block.log) <= PhysPages /\ block.hdr # "erased" /\ block.hdr # "valid"
      BY <1>15, Sizes
    <3> QED BY <3>1, <3>2, <1>1, <1>3, PutOk
  <2>2. \A h \in Files : Untouched(s.flash, Put(s.flash, b, block), h)
    BY <1>1, <1>3, <1>4, <1>15, PutBlock
  <2>3. Off(Put(s.flash, b, block), f, A)
    <3>1. Untouched(s.flash, Put(s.flash, b, block), f) BY <2>2
    <3> QED BY <3>1, <1>1, <1>14, SameOff DEF Untouched
  <2> QED BY <2>1, <2>2, <2>3, CutBy
<1>16. ASSUME NEW k \in 1 .. 4 PROVE CutOk(s, f, A, J[k].flash)
  <2>1. CutOk(s, f, A, s.flash) BY GoodCut
  <2>2. CutOk(s, f, A, g.flash) BY <1>7, <1>15
  <2>3. CutOk(s, f, A, d.flash) BY <1>7, <1>15
  <2>4. CutOk(s, f, A, t.flash) BY <1>9, <1>10, <1>13, CutBy
  <2>5. k = 1 \/ k = 2 \/ k = 3 \/ k = 4 OBVIOUS
  <2> QED BY <2>1, <2>2, <2>3, <2>4, <2>5, <1>8
<1>17. ASSUME NEW u \in State, u.mode = "on", u.flash = t.flash, u.free = t.free,
              u.dirty = t.dirty, u.list = t.list, u.size = [s.size EXCEPT ![f] = size]
       PROVE  /\ Good(u)
              /\ \A h \in Files \ {f} : Contents(u, h) = Contents(s, h)
              /\ Contents(u, f) = IF s.size[f] = -1 THEN <<>> ELSE Contents(s, f)
              /\ Headed(u.flash, "bad") = Headed(s.flash, "bad")
              /\ Len(u.list[f]) = n + 1
              /\ Len(u.flash[u.list[f][n + 1]].log) = 0
  <2>1. /\ u.list[f] = Append(s.list[f], b) /\ u.size[f] = size
        /\ \A h \in Files \ {f} : u.list[h] = s.list[h] /\ u.size[h] = s.size[h]
    <3>1. s.list \in [Files -> Seq(Blocks)] /\ s.size \in [Files -> -1 .. MaxPages] BY <1>1, StateType
    <3>2. u.list = [s.list EXCEPT ![f] = Append(s.list[f], b)] BY <1>7, <1>17
    <3>3. u.size = [s.size EXCEPT ![f] = size] BY <1>17
    <3> HIDE DEF b
    <3>4. u.list[f] = Append(s.list[f], b) /\ \A h \in Files \ {f} : u.list[h] = s.list[h]
      BY <3>1, <3>2
    <3>5. u.size[f] = size /\ \A h \in Files \ {f} : u.size[h] = s.size[h] BY <3>1, <3>3
    <3> QED BY <3>4, <3>5
  <2>2. /\ Len(u.list[f]) = n + 1 /\ u.list[f] \in Seq(Blocks)
        /\ \A k \in 1 .. n : u.list[f][k] = s.list[f][k]
        /\ u.list[f][n + 1] = b
    BY <2>1, <1>3, <1>6, AppendProperties DEF n
  <2>3. \A k \in 1 .. n + 1 : u.list[f][k] = At(u.flash, f, k - 1)
    <3> TAKE k \in 1 .. n + 1
    <3>1. CASE k = n + 1
      <4>1. k - 1 = n BY <3>1, <1>5
      <4> QED BY <3>1, <4>1, <2>2, <1>9, <1>17
    <3>2. CASE k # n + 1
      <4>1. k \in 1 .. n /\ k - 1 \in 0 .. n - 1 BY <3>2, <1>5
      <4> QED BY <4>1, <2>2, <1>6, <1>9, <1>17
    <3> QED BY <3>1, <3>2
  <2>4. u.list[f] = [k \in 1 .. n + 1 |-> At(u.flash, f, k - 1)]
    <3>1. DOMAIN u.list[f] = 1 .. n + 1 BY <2>2, LenProperties
    <3>2. u.list[f] \in [1 .. n + 1 -> Blocks] BY <2>2, LenProperties
    <3> QED BY <2>3, <3>2
  <2>5. OnFile(u, f)
    <3>1. n + 1 \in 1 .. NBlocks BY <1>5, Sizes
    <3>2. size # -1 BY <1>5
    <3> QED BY <3>1, <3>2, <2>1, <2>2, <2>4, <1>9, <1>17 DEF OnFile
  <2>6. \A h \in Files \ {f} : Alike(s, u, h) BY <2>1, <1>10, <1>17 DEF Alike
  <2>7. Volume(u) /\ Headed(u.flash, "bad") = Headed(s.flash, "bad")
    <3>1. /\ Headed(u.flash, "erased") = Headed(s.flash, "erased") \ {b}
          /\ Headed(u.flash, "bad") = Headed(s.flash, "bad") \ {b}
          /\ Headed(u.flash, "garbled") = Headed(s.flash, "garbled") \ {b}
      <4>1. ASSUME NEW hdr, hdr # "valid"
            PROVE  Headed(Put(s.flash, b, new), hdr) = Headed(s.flash, hdr) \ {b}
        <5>1. Headed(Put(s.flash, b, new), hdr)
                = IF new.hdr = hdr THEN Headed(s.flash, hdr) \cup {b}
                                   ELSE Headed(s.flash, hdr) \ {b}
          <6>1. s.flash \in [Blocks -> Block] /\ b \in Blocks BY <1>1, <1>3
          <6> QED BY <6>1 DEF Put, Headed
        <5> QED BY <5>1, <4>1, <1>7
      <4>2. new.hdr = "valid" /\ u.flash = Put(s.flash, b, new) BY <1>7, <1>17
      <4> QED BY <4>1, <4>2
    <3>2. b \notin Headed(s.flash, "bad") BY <1>3 DEF Headed
    <3>3. Headed(u.flash, "bad") = Headed(s.flash, "bad") BY <3>1, <3>2
    <3>4. Enumerates(u.free, Headed(u.flash, "erased")) BY <3>1, <1>2, <1>7, <1>17
    <3>5. Enumerates(u.dirty, Headed(u.flash, "bad")) BY <3>3, <1>1, <1>7, <1>17
    <3> QED BY <3>1, <3>3, <3>4, <3>5, <1>1, <1>9, <1>17 DEF Volume
  <2>8. Good(u) /\ \A h \in Files \ {f} : Contents(u, h) = Contents(s, h)
    BY <2>5, <2>6, <2>7, GoodBy
  <2>9. Contents(u, f) = Text(s.flash, f, size)
    <3>1. u.size[f] # -1 BY <2>1, <1>5
    <3>2. Contents(u, f) = Text(u.flash, f, size) BY <3>1, <2>1, <2>8, GoodContents
    <3> QED BY <3>2, <1>9, <1>17
  <2>10. Contents(u, f) = IF s.size[f] = -1 THEN <<>> ELSE Contents(s, f)
    <3>1. CASE s.size[f] # -1 BY <3>1, <2>9, <1>11
    <3>2. CASE s.size[f] = -1
      <4>1. n = 0 BY <3>2, GoodNoFile DEF n
      <4>2. size = 0 BY <4>1, Sizes DEF n
      <4>3. Text(s.flash, f, 0) = <<>> BY DEF Text
      <4> QED BY <3>2, <4>2, <4>3, <2>9
    <3> QED BY <3>1, <3>2
  <2>11. Len(u.flash[u.list[f][n + 1]].log) = 0
    <3>1. u.flash[b] = new BY <1>1, <1>3, <1>7, <1>17, PutBlock
    <3> QED BY <3>1, <2>2, <1>7
  <2> QED BY <2>2, <2>7, <2>8, <2>10, <2>11
<1>18. Last(J).size = s.size /\ Last(J).mode = "on" BY <1>1, <1>7, <1>8
<1>19. ASSUME NEW u \in State, Allocated(s, f, size, u) PROVE Longer(s, f, u)
  <2>1. /\ u.mode = "on" /\ u.flash = t.flash /\ u.free = t.free
        /\ u.dirty = t.dirty /\ u.list = t.list /\ u.size = [s.size EXCEPT ![f] = size]
    BY <1>8, <1>19 DEF Allocated, J
  <2> QED BY <2>1, <1>5, <1>17 DEF Longer, n
<1> QED BY <1>8, <1>16, <1>18, <1>19 DEF J

-----------------------------------------------------------------------------
(* A block of a file is replaced by a copy of it                             *)

(* A copy of a good block. *)
IsCopy(copy, block) ==
    /\ copy \in Block /\ copy.hdr = "valid" /\ copy.file = block.file /\ copy.blk = block.blk
    /\ ~copy.torn /\ Len(copy.log) \in 0 .. DataPages
    /\ Indices(copy) = Indices(block)
    /\ \A i \in Indices(copy) : Held(copy, i) = Held(block, i)

(* The flash after block old was replaced by block b. *)
Swap(flash, old, b, copy) == Put(Marked(flash, {old}), b, copy)

LEMMA SwapFile ==
    ASSUME NEW flash, FlashOk(flash), NEW f \in Files, NEW n \in Nat, NEW size \in Nat,
           Shape(flash, f, n, size), Whole(flash, f),
           NEW old \in ValidOf(flash, f), NEW b \in Blocks, flash[b].hdr = "erased",
           NEW copy, IsCopy(copy, flash[old])
    PROVE  /\ FlashOk(Swap(flash, old, b, copy)) /\ Swap(flash, old, b, copy)[b] = copy
           /\ Shape(Swap(flash, old, b, copy), f, n, size) /\ Whole(Swap(flash, old, b, copy), f)
           /\ Text(Swap(flash, old, b, copy), f, size) = Text(flash, f, size)
           /\ \A k \in 0 .. n - 1 :
                At(Swap(flash, old, b, copy), f, k) = IF k = flash[old].blk THEN b ELSE At(flash, f, k)
           /\ \A g \in Files \ {f} : Untouched(flash, Swap(flash, old, b, copy), g)
<1> DEFINE marked == Marked(flash, {old})
           m == Swap(flash, old, b, copy)
<1>0. /\ copy \in Block /\ copy.hdr = "valid" /\ copy.file = f /\ copy.blk = flash[old].blk
      /\ ~copy.torn /\ Len(copy.log) <= PhysPages /\ Indices(copy) = Indices(flash[old])
      /\ \A i \in Indices(copy) : Held(copy, i) = Held(flash[old], i)
  BY Sizes DEF IsCopy, ValidOf
<1>0a. copy \in Block /\ copy.hdr = "valid" /\ copy.file = f BY <1>0
<1>1. /\ flash \in [Blocks -> Block] /\ \A c \in ValidOf(flash, f) : flash[c].blk \in Nat
      /\ ValidOf(flash, f) \subseteq Blocks
  BY FlashType
<1>2. /\ FlashOk(marked) /\ marked \in [Blocks -> Block]
  BY MarkedOk, FlashType
<1>3. /\ old \in Blocks /\ flash[old].hdr = "valid" /\ flash[old].file = f /\ b # old
  BY DEF ValidOf
<1>4. /\ marked[old] = Blank("bad") /\ \A c \in Blocks \ {old} : marked[c] = flash[c]
      /\ Blank("bad").hdr = "bad"
  BY <1>3, BlockType DEF Marked
<1>5. /\ m[b] = copy /\ \A c \in Blocks \ {b} : m[c] = marked[c]
      /\ ValidOf(m, f) = ValidOf(marked, f) \cup {b}
  <2> HIDE DEF marked
  <2>1. m = Put(marked, b, copy) BY DEF marked, Swap
  <2>2. /\ Put(marked, b, copy)[b] = copy
        /\ \A c \in Blocks \ {b} : Put(marked, b, copy)[c] = marked[c]
    BY <1>2 DEF Put
  <2>3. ValidOf(Put(marked, b, copy), f) = ValidOf(marked, f) \cup {b} BY <1>0a, <1>2, PutBlock
  <2> QED BY <2>1, <2>2, <2>3
<1> HIDE DEF m
<1>6. ValidOf(marked, f) = ValidOf(flash, f) \ {old} BY <1>3, <1>4 DEF ValidOf
<1>7. b \notin ValidOf(flash, f) BY DEF ValidOf
<1>8. \A c \in ValidOf(flash, f) \ {old} : m[c] = flash[c] /\ flash[c].blk # flash[old].blk
  <2> TAKE c \in ValidOf(flash, f) \ {old}
  <2>1. m[c] = flash[c] BY <1>1, <1>4, <1>5, <1>7
  <2>2. flash[c].blk # flash[old].blk BY <1>1, <1>3 DEF ValidOf, FlashOk
  <2> QED BY <2>1, <2>2
<1>9. FlashOk(m)
  <2>1. \A c \in Blocks \ {b} :
          marked[c].hdr = "valid" /\ marked[c].file = copy.file => marked[c].blk # copy.blk
    <3> TAKE c \in Blocks \ {b}
    <3>1. CASE c = old BY <3>1, <1>4
    <3>2. CASE c # old
      <4>1. marked[c] = flash[c] BY <3>2, <1>4
      <4>2. flash[c].hdr = "valid" /\ flash[c].file = f => c \in ValidOf(flash, f) \ {old}
        BY <3>2 DEF ValidOf
      <4> QED BY <4>1, <4>2, <1>0, <1>8
    <3> QED BY <3>1, <3>2, <1>0
  <2>2. copy.hdr # "erased" /\ copy.hdr # "garbled" BY <1>0
  <2> HIDE DEF marked
  <2>3. FlashOk(Put(marked, b, copy)) BY <1>0, <1>2, <2>1, <2>2, PutOk
  <2> QED BY <2>3 DEF marked, m, Swap
<1>10. ValidOf(m, f) = (ValidOf(flash, f) \ {old}) \cup {b} BY <1>5, <1>6
<1>11. Shape(m, f, n, size)
  <2>1. ASSUME NEW c \in ValidOf(m, f) PROVE m[c].blk < n
    <3>1. CASE c = b BY <3>1, <1>0, <1>5 DEF Shape
    <3>2. CASE c # b BY <3>2, <1>8, <1>10 DEF Shape
    <3> QED BY <3>1, <3>2
  <2>2. ASSUME NEW k \in 0 .. n - 1 PROVE \E c \in ValidOf(m, f) : m[c].blk = k
    <3>1. PICK c \in ValidOf(flash, f) : flash[c].blk = k BY DEF Shape
    <3>2. CASE c = old BY <3>1, <3>2, <1>0, <1>5, <1>10
    <3>3. CASE c # old BY <3>1, <3>3, <1>8, <1>10
    <3> QED BY <3>2, <3>3
  <2>3. ASSUME NEW c \in ValidOf(m, f) PROVE Indices(m[c]) = InBlock(size, m[c].blk)
    <3>1. CASE c = b BY <3>1, <1>0, <1>5 DEF Shape
    <3>2. CASE c # b BY <3>2, <1>8, <1>10 DEF Shape
    <3> QED BY <3>1, <3>2
  <2> QED BY <2>1, <2>2, <2>3 DEF Shape
<1>12. Whole(m, f)
  <2> SUFFICES ASSUME NEW c \in ValidOf(m, f)
               PROVE  ~m[c].torn /\ \A i \in Indices(m[c]) : Held(m[c], i) # "bad"
    BY DEF Whole
  <2>1. CASE c = b BY <2>1, <1>0, <1>5 DEF Whole
  <2>2. CASE c # b BY <2>2, <1>8, <1>10 DEF Whole
  <2> QED BY <2>1, <2>2
<1>13. \A k \in 0 .. n - 1 : At(m, f, k) = IF k = flash[old].blk THEN b ELSE At(flash, f, k)
  <2> TAKE k \in 0 .. n - 1
  <2>1. At(flash, f, k) \in ValidOf(flash, f) /\ flash[At(flash, f, k)].blk = k BY AtBlock
  <2>2. \A c \in ValidOf(m, f) : At(m, f, m[c].blk) = c BY <1>9, AtNumber
  <2>3. CASE k = flash[old].blk BY <2>2, <2>3, <1>0, <1>5, <1>10
  <2>4. CASE k # flash[old].blk
    <3>1. At(flash, f, k) \in ValidOf(flash, f) \ {old} BY <2>1, <2>4
    <3>2. At(flash, f, k) \in ValidOf(m, f) /\ m[At(flash, f, k)].blk = k BY <3>1, <2>1, <1>8, <1>10
    <3>3. At(m, f, m[At(flash, f, k)].blk) = At(flash, f, k) BY <2>2, <3>2
    <3> QED BY <3>2, <3>3, <2>4
  <2> QED BY <2>3, <2>4
<1>14. Text(m, f, size) = Text(flash, f, size)
  <2>1. ASSUME NEW i \in 1 .. size PROVE PageAt(m, f, i - 1) = PageAt(flash, f, i - 1)
    <3>1. i - 1 \in 0 .. size - 1 OBVIOUS
    <3> DEFINE k == (i - 1) \div DataPages
               c == At(flash, f, k)
    <3>2. /\ k \in 0 .. n - 1 /\ c \in ValidOf(flash, f) /\ flash[c].blk = k
          /\ (i - 1) % DataPages \in Indices(flash[c])
      BY <3>1, PageOf
    <3>3. CASE k = flash[old].blk
      <4>1. c = old BY <3>2, <3>3, <1>8
      <4>2. At(m, f, k) = b
        <5>1. k \in 0 .. n - 1 /\ k = flash[old].blk BY <3>2, <3>3
        <5> HIDE DEF k
        <5> QED BY <5>1, <1>13
      <4>3. Held(m[b], (i - 1) % DataPages) = Held(flash[old], (i - 1) % DataPages)
        BY <4>1, <3>2, <1>0, <1>5
      <4> QED BY <4>1, <4>2, <4>3 DEF PageAt
    <3>4. CASE k # flash[old].blk
      <4>1. c \in ValidOf(flash, f) \ {old} BY <3>2, <3>4
      <4>2. At(m, f, k) = c
        <5>1. k \in 0 .. n - 1 /\ k # flash[old].blk BY <3>2, <3>4
        <5> HIDE DEF k
        <5> QED BY <5>1, <1>13
      <4>3. m[c] = flash[c] BY <4>1, <1>8
      <4> QED BY <4>2, <4>3 DEF PageAt
    <3> QED BY <3>3, <3>4
  <2> QED BY <2>1 DEF Text
<1>15. ASSUME NEW g \in Files \ {f} PROVE Untouched(flash, m, g)
  <2>1. ValidOf(m, g) = ValidOf(flash, g)
    <3>1. b \notin ValidOf(flash, g) /\ old \notin ValidOf(flash, g) BY <1>3, <1>15 DEF ValidOf
    <3>2. b \notin ValidOf(m, g) /\ old \notin ValidOf(m, g)
      BY <1>0, <1>3, <1>4, <1>5, <1>15 DEF ValidOf
    <3>3. \A c \in Blocks \ {b, old} : m[c] = flash[c] BY <1>4, <1>5
    <3> QED BY <3>1, <3>2, <3>3 DEF ValidOf
  <2>2. ASSUME NEW c \in ValidOf(flash, g) PROVE m[c] = flash[c]
    <3>1. c \in Blocks /\ c # b /\ c # old BY <1>3, <1>15 DEF ValidOf
    <3> QED BY <3>1, <1>4, <1>5
  <2> QED BY <2>1, <2>2 DEF Untouched
<1>16. \A g \in Files \ {f} : Untouched(flash, m, g) BY <1>15
<1>17. m[b] = copy BY <1>5
<1> HIDE DEF marked
<1> QED BY <1>9, <1>11, <1>12, <1>13, <1>14, <1>16, <1>17 DEF m

Swapped(list, k, b) == [list EXCEPT ![k] = b]

(* The state t after block n of file f was replaced by block b. *)
Renewed(s, f, n, b, old, copy, t) ==
    /\ t.mode = s.mode /\ t.flash = Swap(s.flash, old, b, copy)
    /\ t.free = Tail(s.free) /\ t.dirty = s.dirty \o <<old>> /\ t.size = s.size
    /\ t.list = [s.list EXCEPT ![f] = Swapped(s.list[f], n + 1, b)]
    /\ Swapped(s.list[f], n + 1, b) \in Seq(Blocks)

LEMMA ReplaceStates ==
    ASSUME ~ReplaceWindow, NEW s \in State, NEW f \in Files, s.free # <<>>,
           NEW n \in Nat, n < Len(s.list[f]), NEW b \in Blocks, b = Head(s.free),
           NEW old \in Blocks, old = s.list[f][n + 1], old # b,
           NEW copy \in Block, copy = CopyOf(s.flash[old])
    PROVE  \E g, d, t \in State, half \in Block :
             /\ Replace(s, f, n) = <<s, g, d, t>>
             /\ g.flash = Put(s.flash, b, half) /\ half.hdr = "garbled" /\ half.log = copy.log
             /\ d.flash = Put(s.flash, b, Blank("bad"))
             /\ Renewed(s, f, n, b, old, copy, t)
<1> DEFINE taken == [s EXCEPT !.free = Tail(s.free)]
           half == [copy EXCEPT !.hdr = "garbled"]
           list == [s.list[f] EXCEPT ![n + 1] = b]
           lists == [s.list EXCEPT ![f] = list]
           g == [taken EXCEPT !.flash = Put(s.flash, b, half)]
           d == [taken EXCEPT !.flash = Put(s.flash, b, Blank("bad"))]
           both == [taken EXCEPT !.flash = Put(s.flash, b, copy), !.list = lists]
           t == SetDirty(both, <<old>>)
<1>1. /\ s.flash \in [Blocks -> Block] /\ s.free \in Seq(Blocks)
      /\ s.list \in [Files -> Seq(Blocks)] /\ s.list[f] \in Seq(Blocks)
  BY StateType
<1>2. Tail(s.free) \in Seq(Blocks) BY <1>1, HeadTailProperties
<1>3. list \in Seq(Blocks)
  <2>1. s.list[f] \in Seq(Blocks) BY <1>1
  <2> QED BY <2>1, ExceptSeq
<1>4. lists \in [Files -> Seq(Blocks)] BY <1>1, <1>3
<1>5. half \in Block /\ half.hdr = "garbled" /\ half.log = copy.log BY DEF Block
<1>6. Blank("bad") \in Block BY BlockType
<1>7. /\ taken \in State /\ taken.mode = s.mode /\ taken.flash = s.flash
      /\ taken.free = Tail(s.free) /\ taken.dirty = s.dirty /\ taken.list = s.list
      /\ taken.size = s.size
  BY <1>2 DEF State
<1>8. Replace(s, f, n)
        = <<s, [taken EXCEPT !.flash[b] = half], [taken EXCEPT !.flash[b] = Blank("bad")]>>
            \o <<>> \o <<SetDirty([taken EXCEPT !.flash[b] = copy, !.list[f][n + 1] = b], <<old>>)>>
  BY DEF Replace
<1>9. /\ [taken EXCEPT !.flash[b] = half] = g
      /\ [taken EXCEPT !.flash[b] = Blank("bad")] = d
  <2> HIDE DEF taken, half
  <2> QED BY <1>7 DEF State, Put
<1>10. [taken EXCEPT !.flash[b] = copy, !.list[f][n + 1] = b] = both
  <2> HIDE DEF taken
  <2> QED BY <1>7 DEF State, Put
<1> HIDE DEF taken, half, g, d, list, lists
<1>11. /\ Put(s.flash, b, half) \in [Blocks -> Block]
       /\ Put(s.flash, b, Blank("bad")) \in [Blocks -> Block]
       /\ Put(s.flash, b, copy) \in [Blocks -> Block]
  BY <1>1, <1>5, <1>6, PutBlock
<1>12. g \in State /\ g.flash = Put(s.flash, b, half) BY <1>7, <1>11 DEF State, g
<1>13. d \in State /\ d.flash = Put(s.flash, b, Blank("bad")) BY <1>7, <1>11 DEF State, d
<1>14. /\ both \in State /\ both.mode = s.mode /\ both.flash = Put(s.flash, b, copy)
       /\ both.free = Tail(s.free) /\ both.dirty = s.dirty /\ both.size = s.size
       /\ both.list = lists
  BY <1>4, <1>7, <1>11, Zenon DEF State
<1> HIDE DEF both
<1>15. /\ t \in State /\ t.mode = s.mode /\ t.flash = Marked(Put(s.flash, b, copy), Range(<<old>>))
       /\ t.free = Tail(s.free) /\ t.dirty = s.dirty \o <<old>> /\ t.size = s.size
       /\ t.list = lists
  <2>1. both \in State /\ <<old>> \in Seq(Blocks) BY <1>14
  <2>2. /\ SetDirty(both, <<old>>) \in State
        /\ SetDirty(both, <<old>>).mode = both.mode
        /\ SetDirty(both, <<old>>).flash = Marked(both.flash, Range(<<old>>))
        /\ SetDirty(both, <<old>>).free = both.free
        /\ SetDirty(both, <<old>>).dirty = both.dirty \o <<old>>
        /\ SetDirty(both, <<old>>).list = both.list
        /\ SetDirty(both, <<old>>).size = both.size
    BY <2>1, SetDirtyState
  <2> QED BY <2>2, <1>14
<1>16. Range(<<old>>) = {old}
  <2>1. Enumerates(<<old>>, {old}) BY EnumeratesOne
  <2> QED BY <2>1 DEF Enumerates
<1>17. Marked(Put(s.flash, b, copy), {old}) = Swap(s.flash, old, b, copy)
  BY <1>1, Zenon DEF Marked, Put, Swap
<1>18. Replace(s, f, n) = <<s, g, d, t>>
  <2>1. Replace(s, f, n) = <<s, g, d>> \o <<>> \o <<t>> BY <1>8, <1>9, <1>10
  <2> HIDE DEF t
  <2>2. s \in State /\ g \in State /\ d \in State /\ t \in State BY <1>12, <1>13, <1>15 DEF t
  <2>3. <<s, g, d>> \in Seq(State) BY <2>2
  <2>4. <<s, g, d>> \o <<>> = <<s, g, d>> BY <2>3, ConcatEmptySeq
  <2>5. <<s, g, d>> \o <<t>> = <<s, g, d, t>>
    <3> DEFINE x == <<s, g, d>> \o <<t>>
               y == <<s, g, d, t>>
    <3>1. <<t>> \in Seq(State) /\ Len(<<t>>) = 1 /\ Len(<<s, g, d>>) = 3 BY <2>2
    <3>2. x \in Seq(State) /\ Len(x) = 4 BY <2>3, <3>1, ConcatProperties
    <3>3. x[1] = s /\ x[2] = g /\ x[3] = d /\ x[4] = t BY <2>3, <3>1, ConcatProperties
    <3>4. y \in Seq(State) /\ Len(y) = 4 BY <2>2
    <3>5. y[1] = s /\ y[2] = g /\ y[3] = d /\ y[4] = t OBVIOUS
    <3> HIDE DEF x, y
    <3>6. ASSUME NEW i \in 1 .. 4 PROVE x[i] = y[i]
      <4>1. i = 1 \/ i = 2 \/ i = 3 \/ i = 4 OBVIOUS
      <4> QED BY <4>1, <3>3, <3>5
    <3>7. x = y BY <3>2, <3>4, <3>6, SeqEqual
    <3> QED BY <3>7 DEF x, y
  <2> QED BY <2>1, <2>4, <2>5
<1>19. t \in State /\ Renewed(s, f, n, b, old, copy, t)
  <2> HIDE DEF t
  <2> QED BY <1>3, <1>15, <1>16, <1>17 DEF list, lists, Swapped, Renewed, Swap
<1> HIDE DEF t
<1> QED BY <1>5, <1>12, <1>13, <1>18, <1>19

(* ffs_page_i16_replace_block, when the power does not fail between its last two writes. *)
LEMMA ReplaceGood ==
    ASSUME ~ReplaceWindow, NEW s, Good(s), NEW f \in Files, s.size[f] # -1, s.free # <<>>,
           NEW n \in 0 .. Len(s.list[f]) - 1, NEW A, Contents(s, f) \in A
    PROVE  /\ Journal(Replace(s, f, n), s, f, A)
           /\ Contents(Last(Replace(s, f, n)), f) = Contents(s, f)
           /\ Last(Replace(s, f, n)).size = s.size
           /\ Headed(s.flash, "bad") \subseteq Headed(Last(Replace(s, f, n)).flash, "bad")
           /\ Len(Last(Replace(s, f, n)).list[f]) = Len(s.list[f])
           /\ Len(Last(Replace(s, f, n)).flash[Last(Replace(s, f, n)).list[f][n + 1]].log) \in 0 .. DataPages
<1> DEFINE b == Head(s.free)
           old == s.list[f][n + 1]
           size == s.size[f]
           len == Len(s.list[f])
           copy == CopyOf(s.flash[old])
           J == Replace(s, f, n)
<1>1. /\ s \in State /\ s.mode = "on" /\ FlashOk(s.flash) /\ s.flash \in [Blocks -> Block]
      /\ Headed(s.flash, "garbled") = {}
      /\ Enumerates(s.free, Headed(s.flash, "erased"))
      /\ Enumerates(s.dirty, Headed(s.flash, "bad"))
  BY FlashType DEF Good, Volume
<1>2. /\ b \in Headed(s.flash, "erased")
      /\ Enumerates(Tail(s.free), Headed(s.flash, "erased") \ {b})
  BY <1>1, EnumeratesTail
<1>3. b \in Blocks /\ s.flash[b].hdr = "erased" BY <1>2 DEF Headed
<1>4. /\ size \in 0 .. MaxPages /\ len \in 1 .. NBlocks
      /\ Shape(s.flash, f, len, size) /\ Whole(s.flash, f)
      /\ s.list[f] \in Seq(Blocks) /\ DOMAIN s.list[f] = 1 .. len
      /\ \A k \in 1 .. len : /\ s.list[f][k] \in ValidOf(s.flash, f)
                             /\ s.list[f][k] = At(s.flash, f, k - 1)
                             /\ s.flash[s.list[f][k]].blk = k - 1
  BY GoodFile
<1>5. n \in Nat /\ n + 1 \in 1 .. len /\ (n + 1) - 1 = n /\ n < len /\ size \in Nat /\ len \in Nat
  BY <1>4, Sizes
<1>6. /\ old \in ValidOf(s.flash, f) /\ s.flash[old].blk = n /\ old \in Blocks
      /\ s.flash[old] \in Block /\ s.flash[old].hdr = "valid" /\ s.flash[old].file = f
      /\ ~s.flash[old].torn
  <2>1. old \in ValidOf(s.flash, f) /\ s.flash[old].blk = n BY <1>4, <1>5
  <2>2. old \in Blocks /\ s.flash[old].hdr = "valid" /\ s.flash[old].file = f BY <2>1 DEF ValidOf
  <2> QED BY <2>1, <2>2, <1>1, <1>4 DEF Whole
<1>7. /\ copy \in Block /\ copy.hdr = "valid" /\ copy.file = f /\ copy.blk = s.flash[old].blk
      /\ ~copy.torn /\ Len(copy.log) \in 0 .. DataPages /\ Len(copy.log) <= PhysPages
      /\ Indices(copy) = Indices(s.flash[old])
      /\ \A i \in Indices(copy) : Held(copy, i) = Held(s.flash[old], i)
  <2> DEFINE block == s.flash[old]
  <2>1. Indices(block) = InBlock(size, n) BY <1>4, <1>6 DEF Shape
  <2>2. PICK m \in 0 .. DataPages : InBlock(size, n) = 0 .. m - 1 BY <1>5, InBlockPages
  <2>3. block \in Block /\ Indices(block) = 0 .. m - 1 BY <2>1, <2>2, <1>6
  <2> HIDE DEF block
  <2>4. /\ CopyOf(block) \in Block
        /\ CopyOf(block).hdr = block.hdr /\ CopyOf(block).file = block.file
        /\ CopyOf(block).blk = block.blk /\ CopyOf(block).torn = block.torn
        /\ Len(CopyOf(block).log) <= DataPages
        /\ Indices(CopyOf(block)) = Indices(block)
        /\ \A i \in Indices(block) : Held(CopyOf(block), i) = Held(block, i)
    BY <2>3, CopyOfBlock
  <2>5. Len(CopyOf(block).log) \in Nat BY <2>4, LogType
  <2>6. Len(CopyOf(block).log) \in 0 .. DataPages /\ Len(CopyOf(block).log) <= PhysPages
    BY <2>4, <2>5, Sizes
  <2> QED BY <2>4, <2>6, <1>6 DEF block
<1> HIDE DEF copy
<1>8. b # old BY <1>3, <1>6
<1>9. PICK g, d, t \in State, half \in Block :
         /\ Replace(s, f, n) = <<s, g, d, t>>
         /\ g.flash = Put(s.flash, b, half) /\ half.hdr = "garbled" /\ half.log = copy.log
         /\ d.flash = Put(s.flash, b, Blank("bad"))
         /\ Renewed(s, f, n, b, old, copy, t)
  <2>1. b = Head(s.free) /\ old = s.list[f][n + 1] /\ n < Len(s.list[f]) /\ copy = CopyOf(s.flash[old])
    BY <1>5 DEF copy
  <2>2. /\ s \in State /\ n \in Nat /\ b \in Blocks /\ old \in Blocks /\ old # b
        /\ copy \in Block
    BY <1>1, <1>3, <1>5, <1>6, <1>7, <1>8
  <2> HIDE DEF b, old, len, J
  <2> QED BY <2>1, <2>2, ReplaceStates
<1>9a. /\ t.mode = s.mode /\ t.flash = Swap(s.flash, old, b, copy)
       /\ t.free = Tail(s.free)
       /\ t.dirty = s.dirty \o <<old>> /\ t.size = s.size
       /\ t.list = [s.list EXCEPT ![f] = Swapped(s.list[f], n + 1, b)]
       /\ Swapped(s.list[f], n + 1, b) \in Seq(Blocks)
  BY <1>9 DEF Renewed
<1>10. /\ J \in Seq(State) /\ Len(J) = 4 /\ J[1] = s /\ J[2] = g /\ J[3] = d /\ J[4] = t
       /\ Last(J) = t
  BY <1>1, <1>9, <1>9a DEF Last
<1> HIDE DEF J, b, old, size, len
<1>11. /\ FlashOk(t.flash) /\ t.flash[b] = copy
       /\ Shape(t.flash, f, len, size) /\ Whole(t.flash, f)
       /\ Text(t.flash, f, size) = Text(s.flash, f, size)
       /\ \A k \in 0 .. len - 1 : At(t.flash, f, k) = IF k = n THEN b ELSE At(s.flash, f, k)
       /\ \A h \in Files \ {f} : Untouched(s.flash, t.flash, h)
  <2>1. /\ FlashOk(s.flash) /\ len \in Nat /\ size \in Nat
        /\ Shape(s.flash, f, len, size) /\ Whole(s.flash, f)
        /\ old \in ValidOf(s.flash, f) /\ b \in Blocks /\ s.flash[b].hdr = "erased"
    BY <1>1, <1>3, <1>4, <1>5, <1>6
  <2>2. IsCopy(copy, s.flash[old]) BY <1>6, <1>7 DEF IsCopy
  <2> DEFINE m == Swap(s.flash, old, b, copy)
  <2>3. /\ FlashOk(m) /\ m[b] = copy
        /\ Shape(m, f, len, size) /\ Whole(m, f)
        /\ Text(m, f, size) = Text(s.flash, f, size)
        /\ \A k \in 0 .. len - 1 :
             At(m, f, k) = IF k = s.flash[old].blk THEN b ELSE At(s.flash, f, k)
        /\ \A h \in Files \ {f} : Untouched(s.flash, m, h)
    BY <2>1, <2>2, SwapFile
  <2>4. t.flash = m BY <1>9a
  <2> HIDE DEF m
  <2> QED BY <2>3, <2>4, <1>6
<1>12. Contents(s, f) = Text(s.flash, f, size) BY GoodContents DEF size
<1>13. Off(t.flash, f, A) BY <1>4, <1>11, <1>12, OffBy
<1>14. Off(s.flash, f, A)
  <2>1. Off(s.flash, f, {Contents(s, f)}) BY GoodOff
  <2> QED BY <2>1, MoreOff
<1>15. ASSUME NEW block \in Block, Len(block.log) <= PhysPages, block.hdr \in {"garbled", "bad"}
       PROVE  CutOk(s, f, A, Put(s.flash, b, block))
  <2>1. FlashOk(Put(s.flash, b, block))
    <3>1. \A c \in Blocks \ {b} : s.flash[c].hdr # "garbled" BY <1>1 DEF Headed
    <3>2. block.hdr # "erased" /\ block.hdr # "valid" BY <1>15
    <3> QED BY <3>1, <3>2, <1>1, <1>3, <1>15, PutOk
  <2>2. \A h \in Files : b \notin ValidOf(s.flash, h) BY <1>3 DEF ValidOf
  <2>3. \A h \in Files : Untouched(s.flash, Put(s.flash, b, block), h)
    BY <2>2, <1>1, <1>3, <1>15, PutBlock
  <2>4. Off(Put(s.flash, b, block), f, A)
    <3>1. Untouched(s.flash, Put(s.flash, b, block), f) BY <2>3
    <3> QED BY <3>1, <1>1, <1>14, SameOff DEF Untouched
  <2> QED BY <2>1, <2>3, <2>4, CutBy
<1>16. ASSUME NEW k \in 1 .. 4 PROVE CutOk(s, f, A, J[k].flash)
  <2>1. CutOk(s, f, A, s.flash) BY GoodCut
  <2>2. CutOk(s, f, A, g.flash)
    <3>1. Len(half.log) <= PhysPages BY <1>7, <1>9, <1>9a
    <3> QED BY <3>1, <1>9, <1>9a, <1>15
  <2>3. CutOk(s, f, A, d.flash)
    <3>1. /\ Blank("bad") \in Block /\ Len(Blank("bad").log) <= PhysPages
          /\ Blank("bad").hdr = "bad"
      BY BlockType, Sizes
    <3> QED BY <3>1, <1>9, <1>9a, <1>15
  <2>4. CutOk(s, f, A, t.flash)
    <3> QED BY <1>11, <1>13, CutBy
  <2>5. k = 1 \/ k = 2 \/ k = 3 \/ k = 4 OBVIOUS
  <2> QED BY <2>1, <2>2, <2>3, <2>4, <2>5, <1>10
<1>17. /\ t.list[f] \in Seq(Blocks) /\ Len(t.list[f]) = len /\ t.size[f] = size
       /\ t.list[f][n + 1] = b
       /\ \A k \in 1 .. len : k # n + 1 => t.list[f][k] = s.list[f][k]
       /\ \A h \in Files \ {f} : t.list[h] = s.list[h] /\ t.size[h] = s.size[h]
  <2>1. s.list \in [Files -> Seq(Blocks)] /\ DOMAIN s.list[f] = 1 .. len BY <1>1, <1>4, StateType
  <2>2. /\ t.list[f] = [s.list[f] EXCEPT ![n + 1] = b]
        /\ \A h \in Files \ {f} : t.list[h] = s.list[h]
    BY <2>1, <1>9, <1>9a DEF Swapped
  <2>3. t.list[f] \in Seq(Blocks) BY <2>2, <1>9, <1>9a DEF Swapped
  <2>4. DOMAIN t.list[f] = 1 .. len BY <2>1, <2>2
  <2>5. Len(t.list[f]) = len BY <2>3, <2>4, <1>5, LenProperties
  <2>6. t.list[f][n + 1] = b /\ \A k \in 1 .. len : k # n + 1 => t.list[f][k] = s.list[f][k]
    BY <2>1, <2>2, <1>5
  <2> QED BY <2>2, <2>3, <2>5, <2>6, <1>9, <1>9a DEF size
<1>18. \A k \in 1 .. len : t.list[f][k] = At(t.flash, f, k - 1)
  <2> TAKE k \in 1 .. len
  <2>1. k - 1 \in 0 .. len - 1 BY <1>5
  <2>2. CASE k = n + 1 BY <2>1, <2>2, <1>5, <1>11, <1>17
  <2>3. CASE k # n + 1
    <3>1. k - 1 # n BY <2>3, <1>5
    <3> QED BY <2>1, <2>3, <3>1, <1>4, <1>11, <1>17
  <2> QED BY <2>2, <2>3
<1>19. OnFile(t, f)
  <2>1. DOMAIN t.list[f] = 1 .. len BY <1>17, LenProperties
  <2>2. t.list[f] = [k \in 1 .. len |-> At(t.flash, f, k - 1)]
    <3>1. t.list[f] \in [1 .. len -> Blocks] BY <1>17, LenProperties
    <3> QED BY <3>1, <1>18
  <2>3. size # -1 BY <1>4
  <2> QED BY <2>2, <2>3, <1>4, <1>11, <1>17 DEF OnFile
<1>20. \A h \in Files \ {f} : Alike(s, t, h) BY <1>11, <1>17 DEF Alike
<1>21. /\ Headed(t.flash, "bad") = Headed(s.flash, "bad") \cup {old}
       /\ Headed(s.flash, "bad") \cap {old} = {}
       /\ Headed(t.flash, "erased") = Headed(s.flash, "erased") \ {b}
       /\ Headed(t.flash, "garbled") = {}
  <2> DEFINE marked == Marked(s.flash, {old})
  <2>1. marked \in [Blocks -> Block] BY <1>1, MarkedOk, FlashType
  <2>2. \A c \in {old} : c \in Blocks /\ s.flash[c].hdr = "valid" BY <1>6
  <2>3. /\ Headed(marked, "bad") = Headed(s.flash, "bad") \cup {old}
        /\ Headed(s.flash, "bad") \cap {old} = {}
        /\ Headed(marked, "erased") = Headed(s.flash, "erased")
        /\ Headed(marked, "garbled") = Headed(s.flash, "garbled")
    BY <2>2, MarkedHeaders
  <2>4. t.flash = Put(marked, b, copy) BY <1>9a DEF Swap
  <2> HIDE DEF marked
  <2>5. ASSUME NEW hdr, hdr # "valid"
        PROVE  Headed(t.flash, hdr) = Headed(marked, hdr) \ {b}
    <3>1. marked \in [Blocks -> Block] /\ b \in Blocks /\ copy.hdr # hdr BY <2>1, <2>5, <1>3, <1>7
    <3> QED BY <3>1, <2>4 DEF Put, Headed
  <2>6. b \notin Headed(s.flash, "bad") BY <1>3 DEF Headed
  <2>7. /\ Headed(t.flash, "bad") = Headed(marked, "bad") \ {b}
        /\ Headed(t.flash, "erased") = Headed(marked, "erased") \ {b}
        /\ Headed(t.flash, "garbled") = Headed(marked, "garbled") \ {b}
    BY <2>5
  <2> QED BY <2>3, <2>6, <2>7, <1>1, <1>8
<1>22. Volume(t)
  <2>1. Enumerates(t.free, Headed(t.flash, "erased")) BY <1>2, <1>9, <1>9a, <1>21
  <2>2. Enumerates(t.dirty, Headed(t.flash, "bad"))
    <3>1. Enumerates(<<old>>, {old}) BY <1>6, EnumeratesOne
    <3>2. Enumerates(s.dirty \o <<old>>, Headed(s.flash, "bad") \cup {old})
      BY <3>1, <1>1, <1>21, EnumeratesBoth
    <3> QED BY <3>2, <1>9, <1>9a, <1>21
  <2> QED BY <2>1, <2>2, <1>1, <1>9, <1>9a, <1>11, <1>21 DEF Volume
<1>23. Good(t) /\ \A h \in Files \ {f} : Contents(t, h) = Contents(s, h)
  BY <1>19, <1>20, <1>22, GoodBy
<1>24. Contents(t, f) = Contents(s, f)
  <2>1. t.size[f] # -1 BY <1>4, <1>17
  <2>2. Contents(t, f) = Text(t.flash, f, size) BY <2>1, <1>17, <1>23, GoodContents
  <2> QED BY <2>2, <1>11, <1>12
<1>25. Journal(J, s, f, A)
  <2>1. Len(J) # 1 /\ J # <<>>
    <3>1. Len(J) = 4 BY <1>10
    <3>2. Len(<<>>) = 0 OBVIOUS
    <3> QED BY <3>1, <3>2
  <2>2. \A k \in 1 .. Len(J) : CutOk(s, f, A, J[k].flash) BY <1>10, <1>16
  <2>3. Good(Last(J)) /\ \A h \in Files \ {f} : Contents(Last(J), h) = Contents(s, h)
    BY <1>10, <1>23
  <2> QED BY <2>1, <2>2, <2>3, <1>10 DEF Journal
<1>26. Len(t.flash[t.list[f][n + 1]].log) \in 0 .. DataPages BY <1>7, <1>11, <1>17
<1> QED BY <1>9, <1>9a, <1>10, <1>17, <1>21, <1>24, <1>25, <1>26 DEF J, len

-----------------------------------------------------------------------------
(* A page is written                                                         *)

Grown(size, p) == IF p < size THEN size ELSE p + 1

(* The flash when the index of block b says that its newest page is page p of the file. *)
Wrote(flash, b, p, d) == Put(flash, b, More(flash[b], p % DataPages, d))

(* The pages of each block after page p was written. *)
LEMMA GrownPages ==
    ASSUME NEW size \in Nat, NEW p \in 0 .. size, NEW n \in Nat
    PROVE  InBlock(Grown(size, p), n)
             = IF n = p \div DataPages THEN InBlock(size, n) \cup {p % DataPages}
                                       ELSE InBlock(size, n)
<1> DEFINE k == p \div DataPages
           i == p % DataPages
<1>1. p \in Nat /\ k \in Nat /\ i \in 0 .. DataPages - 1 /\ p = (k * DataPages) + i
  BY DivMod
<1>2. ASSUME NEW j \in 0 .. DataPages - 1
      PROVE  n * DataPages + j < Grown(size, p) <=> (n * DataPages + j < size \/ (n = k /\ j = i))
  <2>1. n * DataPages \in Nat /\ n * DataPages + j \in Nat BY Sizes
  <2>2. n = k /\ j = i => n * DataPages + j = p BY <1>1
  <2>3. n * DataPages + j = p => n = k /\ j = i
    <3>1. CASE n * DataPages + j = p
      <4>1. p \div DataPages = n /\ p % DataPages = j BY <3>1, <1>1, DivUnique
      <4> QED BY <4>1
    <3> QED BY <3>1
  <2> HIDE DEF k, i
  <2>4. CASE p < size BY <2>1, <2>2, <2>4 DEF Grown
  <2>5. CASE ~(p < size)
    <3>1. p = size /\ Grown(size, p) = p + 1 BY <2>5 DEF Grown
    <3> QED BY <3>1, <2>1, <2>2, <2>3
  <2> QED BY <2>4, <2>5
<1> HIDE DEF k, i
<1>3. CASE n = k
  <2>1. InBlock(Grown(size, p), n) = InBlock(size, n) \cup {i} BY <1>1, <1>2, <1>3 DEF InBlock
  <2> QED BY <2>1, <1>3 DEF k, i
<1>4. CASE n # k
  <2>1. InBlock(Grown(size, p), n) = InBlock(size, n) BY <1>2, <1>4 DEF InBlock
  <2> QED BY <2>1, <1>4 DEF k
<1> QED BY <1>3, <1>4

(* A block of a file gets other pages, but neither another file nor another number. *)
LEMMA PutFile ==
    ASSUME NEW flash, FlashOk(flash), NEW f \in Files, NEW b \in ValidOf(flash, f),
           NEW new \in Block, new.hdr = "valid", new.file = f, new.blk = flash[b].blk,
           Len(new.log) <= PhysPages
    PROVE  /\ FlashOk(Put(flash, b, new))
           /\ ValidOf(Put(flash, b, new), f) = ValidOf(flash, f)
           /\ Put(flash, b, new)[b] = new
           /\ \A c \in ValidOf(flash, f) \ {b} : Put(flash, b, new)[c] = flash[c]
           /\ \A c \in ValidOf(flash, f) : Put(flash, b, new)[c].blk = flash[c].blk
           /\ \A g \in Files \ {f} : Untouched(flash, Put(flash, b, new), g)
<1> DEFINE put == Put(flash, b, new)
<1>1. /\ flash \in [Blocks -> Block] /\ b \in Blocks /\ flash[b].hdr = "valid" /\ flash[b].file = f
      /\ ValidOf(flash, f) \subseteq Blocks
  BY FlashType DEF ValidOf
<1>2. put[b] = new /\ \A c \in Blocks \ {b} : put[c] = flash[c] BY <1>1 DEF Put
<1>3. FlashOk(put)
  <2>1. \A c \in Blocks \ {b} :
          flash[c].hdr = "valid" /\ flash[c].file = new.file => flash[c].blk # new.blk
    BY <1>1 DEF FlashOk
  <2>2. new.hdr # "erased" /\ new.hdr # "garbled" OBVIOUS
  <2> QED BY <1>1, <2>1, <2>2, PutOk
<1> HIDE DEF put
<1>4. ValidOf(put, f) = ValidOf(flash, f) BY <1>1, <1>2 DEF ValidOf
<1>5. \A c \in ValidOf(flash, f) \ {b} : put[c] = flash[c] BY <1>1, <1>2
<1>6. \A c \in ValidOf(flash, f) : put[c].blk = flash[c].blk BY <1>2, <1>5
<1>7. ASSUME NEW g \in Files \ {f} PROVE Untouched(flash, put, g)
  <2>1. b \notin ValidOf(flash, g) /\ b \notin ValidOf(put, g) BY <1>1, <1>2, <1>7 DEF ValidOf
  <2>2. ValidOf(put, g) = ValidOf(flash, g) BY <2>1, <1>2 DEF ValidOf
  <2>3. \A c \in ValidOf(flash, g) : put[c] = flash[c] BY <2>1, <1>2 DEF ValidOf
  <2> QED BY <2>2, <2>3 DEF Untouched
<1> QED BY <1>2, <1>3, <1>4, <1>5, <1>6, <1>7 DEF put

(* The index of a block is half written. *)
LEMMA TornFile ==
    ASSUME NEW flash, FlashOk(flash), NEW f \in Files, NEW n \in 1 .. NBlocks,
           NEW size \in 0 .. MaxPages, Shape(flash, f, n, size), NEW b \in ValidOf(flash, f),
           NEW A, Gone \in A
    PROVE  FlashOk(Put(flash, b, Torn(flash[b]))) /\ Off(Put(flash, b, Torn(flash[b])), f, A)
<1> DEFINE new == Torn(flash[b])
           put == Put(flash, b, new)
<1>1. flash[b] \in Block /\ flash[b].hdr = "valid" /\ flash[b].file = f /\ Len(flash[b].log) <= PhysPages
  BY FlashType DEF ValidOf
<1>2. /\ new \in Block /\ new.hdr = "valid" /\ new.file = f /\ new.blk = flash[b].blk
      /\ new.torn /\ new.log = flash[b].log
  <2>1. "bad" \in PageData \cup {"bad"} /\ 0 \in 0 .. DataPages - 1 BY Sizes
  <2> QED BY <2>1, <1>1, BlockWritten
<1> HIDE DEF new
<1>3. /\ FlashOk(put) /\ ValidOf(put, f) = ValidOf(flash, f) /\ put[b] = new
      /\ \A c \in ValidOf(flash, f) \ {b} : put[c] = flash[c]
      /\ \A c \in ValidOf(flash, f) : put[c].blk = flash[c].blk
  <2>1. Len(new.log) <= PhysPages BY <1>1, <1>2
  <2> QED BY <2>1, <1>2, PutFile
<1> HIDE DEF put
<1>4. \A c \in ValidOf(flash, f) : Indices(put[c]) = Indices(flash[c])
  <2> TAKE c \in ValidOf(flash, f)
  <2>1. put[c].log = flash[c].log BY <1>2, <1>3
  <2> QED BY <2>1, SameLog
<1>5. Shape(put, f, n, size) BY <1>3, <1>4 DEF Shape
<1>6. ~Whole(put, f) BY <1>2, <1>3 DEF Whole
<1>7. Off(put, f, A) BY <1>5, <1>6, OffBy
<1> QED BY <1>3, <1>7 DEF put, new

(* The page is in the index of the block that has room for it; with what it should hold it is
   written, otherwise its checksum is wrong. *)
LEMMA LoggedFile ==
    ASSUME NEW flash, FlashOk(flash), NEW f \in Files, NEW n \in 1 .. NBlocks,
           NEW size \in Nat, Shape(flash, f, n, size), Whole(flash, f),
           NEW p \in 0 .. size, NEW b \in ValidOf(flash, f), flash[b].blk = p \div DataPages,
           Len(flash[b].log) < PhysPages,
           NEW d \in PageData \cup {"bad"}
    PROVE  /\ FlashOk(Wrote(flash, b, p, d))
           /\ Shape(Wrote(flash, b, p, d), f, n, Grown(size, p))
           /\ d = "bad" => ~Whole(Wrote(flash, b, p, d), f)
           /\ d # "bad" => Whole(Wrote(flash, b, p, d), f)
           /\ Text(Wrote(flash, b, p, d), f, Grown(size, p))
                = WithPage(Text(flash, f, size), p, d)
           /\ \A k \in 0 .. n - 1 :
                At(Wrote(flash, b, p, d), f, k) = At(flash, f, k)
<1> DEFINE new == More(flash[b], p % DataPages, d)
           put == Put(flash, b, new)
           k == p \div DataPages
           i == p % DataPages
<1>1. flash[b] \in Block /\ flash[b].hdr = "valid" /\ flash[b].file = f
  BY FlashType DEF ValidOf
<1>2. p \in Nat /\ k \in Nat /\ i \in 0 .. DataPages - 1 /\ p = (k * DataPages) + i
  BY DivMod
<1>3. /\ new \in Block /\ new.hdr = "valid" /\ new.file = f /\ new.blk = flash[b].blk
      /\ new.torn = flash[b].torn /\ new.log = Logged(flash[b].log, i, d)
  BY <1>1, <1>2, BlockWritten
<1>4. /\ Len(new.log) = Len(flash[b].log) + 1
      /\ Indices(new) = Indices(flash[b]) \cup {i}
      /\ Held(new, i) = d
      /\ \A j \in Indices(flash[b]) : j # i => Held(new, j) = Held(flash[b], j)
  <2>1. flash[b] \in Block /\ i \in 0 .. DataPages - 1 BY <1>1, <1>2
  <2> QED BY <2>1, LoggedPage
<1> HIDE DEF new
<1>5. /\ FlashOk(put) /\ ValidOf(put, f) = ValidOf(flash, f) /\ put[b] = new
      /\ \A c \in ValidOf(flash, f) \ {b} : put[c] = flash[c]
      /\ \A c \in ValidOf(flash, f) : put[c].blk = flash[c].blk
  <2>1. Len(new.log) <= PhysPages
    <3>1. Len(flash[b].log) \in Nat BY <1>1, LogType
    <3> QED BY <3>1, <1>4, Sizes
  <2> QED BY <2>1, <1>3, PutFile
<1> HIDE DEF put, k, i
<1>6. \A c \in ValidOf(flash, f) : flash[c].blk \in Nat /\ flash[c].blk < n
  BY FlashType DEF Shape
<1>7. k < n /\ flash[b].blk = k BY <1>6 DEF k
<1>8. \A m \in Nat : InBlock(Grown(size, p), m)
                       = IF m = k THEN InBlock(size, m) \cup {i} ELSE InBlock(size, m)
  BY GrownPages DEF k, i
<1>9. Grown(size, p) \in Nat /\ size <= Grown(size, p) /\ (p < size => Grown(size, p) = size)
      /\ (~(p < size) => p = size /\ Grown(size, p) = p + 1)
  BY DEF Grown
<1>10. Shape(put, f, n, Grown(size, p))
  <2>1. (n - 1) * DataPages <= Grown(size, p) /\ Grown(size, p) <= n * DataPages
    <3>1. (n - 1) * DataPages <= size /\ size <= n * DataPages BY DEF Shape
    <3>2. (n - 1) * DataPages \in Int /\ n * DataPages \in Int BY Sizes
    <3>3. p + 1 <= n * DataPages
      <4>1. k * DataPages + DataPages <= n * DataPages BY <1>2, <1>7, Multiples
      <4>2. k * DataPages \in Nat BY <1>2, Sizes
      <4> QED BY <4>1, <4>2, <3>2, <1>2, Sizes
    <3> QED BY <3>1, <3>2, <3>3, <1>9
  <2>2. \A c \in ValidOf(put, f) : put[c].blk < n BY <1>5, <1>6
  <2>3. \A m \in 0 .. n - 1 : \E c \in ValidOf(put, f) : put[c].blk = m BY <1>5 DEF Shape
  <2>4. ASSUME NEW c \in ValidOf(put, f)
        PROVE  Indices(put[c]) = InBlock(Grown(size, p), put[c].blk)
    <3>1. c \in ValidOf(flash, f) /\ put[c].blk = flash[c].blk /\ flash[c].blk \in Nat
          /\ Indices(flash[c]) = InBlock(size, flash[c].blk)
      BY <1>5, <1>6 DEF Shape
    <3>2. CASE c = b BY <3>1, <3>2, <1>4, <1>5, <1>7, <1>8
    <3>3. CASE c # b
      <4>1. flash[c].blk # k
        <5>1. c \in Blocks /\ flash[c].hdr = "valid" /\ flash[c].file = f /\ b \in Blocks
          BY <3>1 DEF ValidOf
        <5> QED BY <5>1, <3>3, <1>1, <1>7 DEF FlashOk
      <4>2. put[c] = flash[c] BY <3>1, <3>3, <1>5
      <4> QED BY <4>1, <4>2, <3>1, <1>8
    <3> QED BY <3>2, <3>3
  <2> QED BY <2>1, <2>2, <2>3, <2>4 DEF Shape
<1>11. d = "bad" => ~Whole(put, f)
  <2>1. b \in ValidOf(put, f) /\ i \in Indices(put[b]) /\ Held(put[b], i) = d BY <1>4, <1>5
  <2> QED BY <2>1 DEF Whole
<1>12. d # "bad" => Whole(put, f)
  <2> SUFFICES ASSUME d # "bad", NEW c \in ValidOf(flash, f)
               PROVE  ~put[c].torn /\ \A j \in Indices(put[c]) : Held(put[c], j) # "bad"
    BY <1>5 DEF Whole
  <2>1. ~flash[c].torn /\ \A j \in Indices(flash[c]) : Held(flash[c], j) # "bad" BY DEF Whole
  <2>2. CASE c = b BY <2>1, <2>2, <1>3, <1>4, <1>5
  <2>3. CASE c # b BY <2>1, <2>3, <1>5
  <2> QED BY <2>2, <2>3
<1>13. \A m \in 0 .. n - 1 : At(put, f, m) = At(flash, f, m)
  <2> TAKE m \in 0 .. n - 1
  <2>1. At(flash, f, m) \in ValidOf(flash, f) /\ flash[At(flash, f, m)].blk = m BY AtBlock
  <2>2. At(flash, f, m) \in ValidOf(put, f) /\ put[At(flash, f, m)].blk = m BY <2>1, <1>5
  <2>3. At(put, f, put[At(flash, f, m)].blk) = At(flash, f, m) BY <2>2, <1>5, AtNumber
  <2> QED BY <2>2, <2>3
<1>14. At(flash, f, k) = b /\ k \in 0 .. n - 1
  <2>1. At(flash, f, flash[b].blk) = b BY AtNumber
  <2> QED BY <2>1, <1>2, <1>7
<1>15. PageAt(put, f, p) = d
  <2>1. At(put, f, k) = b BY <1>13, <1>14
  <2> QED BY <2>1, <1>4, <1>5 DEF PageAt, k, i
<1>16. ASSUME NEW q \in 0 .. size - 1, q # p
       PROVE  PageAt(put, f, q) = PageAt(flash, f, q)
  <2> DEFINE m == q \div DataPages
             j == q % DataPages
             c == At(flash, f, m)
  <2>1. /\ m \in 0 .. n - 1 /\ c \in ValidOf(flash, f) /\ flash[c].blk = m
        /\ j \in Indices(flash[c])
    BY PageOf
  <2>2. q = (m * DataPages) + j BY DivMod
  <2>3. At(put, f, m) = c BY <2>1, <1>13
  <2>4. Held(put[c], j) = Held(flash[c], j)
    <3> HIDE DEF m, j, c
    <3>1. CASE c = b
      <4>1. m = k BY <3>1, <2>1, <1>7
      <4>2. j # i BY <4>1, <2>2, <1>2, <1>16
      <4> QED BY <3>1, <4>2, <2>1, <1>4, <1>5
    <3>2. CASE c # b BY <3>2, <2>1, <1>5
    <3> QED BY <3>1, <3>2
  <2> QED BY <2>3, <2>4 DEF PageAt
<1>17. Text(put, f, Grown(size, p)) = WithPage(Text(flash, f, size), p, d)
  <2> DEFINE text == Text(flash, f, size)
  <2>1. text \in Seq(PageData \cup {"bad"}) /\ Len(text) = size
        /\ \A q \in 1 .. size : text[q] = PageAt(flash, f, q - 1)
    <3>1. \A q \in 1 .. size : PageAt(flash, f, q - 1) \in PageData \cup {"bad"}
      <4> TAKE q \in 1 .. size
      <4>1. q - 1 \in 0 .. size - 1 OBVIOUS
      <4> QED BY <4>1, PageOf
    <3>2. text \in [1 .. size -> PageData \cup {"bad"}] BY <3>1 DEF Text
    <3>3. text \in Seq(PageData \cup {"bad"}) BY <3>2 DEF Seq
    <3>4. DOMAIN text = 1 .. size BY <3>2
    <3>5. Len(text) = size BY <3>3, <3>4, LenProperties
    <3>6. \A q \in 1 .. size : text[q] = PageAt(flash, f, q - 1) BY DEF Text
    <3> QED BY <3>3, <3>5, <3>6
  <2>2. Text(put, f, Grown(size, p)) = [q \in 1 .. Grown(size, p) |-> PageAt(put, f, q - 1)]
    BY DEF Text
  <2>3. \A q \in 1 .. size : q # p + 1 => PageAt(put, f, q - 1) = text[q]
    <3> TAKE q \in 1 .. size
    <3>1. q - 1 \in 0 .. size - 1 /\ (q # p + 1 => q - 1 # p) OBVIOUS
    <3> QED BY <3>1, <2>1, <1>16
  <2>4. PageAt(put, f, (p + 1) - 1) = d
    <3>1. (p + 1) - 1 = p OBVIOUS
    <3> QED BY <3>1, <1>15
  <2> HIDE DEF text
  <2>5. CASE p < size
    <3>1. DOMAIN text = 1 .. size BY <2>1, LenProperties
    <3>2. WithPage(text, p, d) = [text EXCEPT ![p + 1] = d] BY <2>1, <2>5 DEF WithPage
    <3>3. Grown(size, p) = size /\ p + 1 \in 1 .. size BY <2>5, <1>9
    <3>4. text \in [1 .. size -> PageData \cup {"bad"}] BY <2>1, <3>1, LenProperties
    <3>5. \A q \in 1 .. size : PageAt(put, f, q - 1) = IF q = p + 1 THEN d ELSE text[q]
      BY <2>3, <2>4
    <3>6. [text EXCEPT ![p + 1] = d] = [q \in 1 .. size |-> IF q = p + 1 THEN d ELSE text[q]]
      BY <3>3, <3>4
    <3> QED BY <2>2, <3>2, <3>3, <3>5, <3>6 DEF text
  <2>6. CASE ~(p < size)
    <3>1. p = size /\ Grown(size, p) = size + 1 BY <2>6, <1>9
    <3>2. WithPage(text, p, d) = Append(text, d) BY <2>1, <2>6 DEF WithPage
    <3>3. /\ Append(text, d) \in Seq(PageData \cup {"bad"})
          /\ Len(Append(text, d)) = size + 1
          /\ \A q \in 1 .. size : Append(text, d)[q] = text[q]
          /\ Append(text, d)[size + 1] = d
      BY <2>1, AppendProperties
    <3>4. \A q \in 1 .. size + 1 : PageAt(put, f, q - 1) = Append(text, d)[q]
      <4> TAKE q \in 1 .. size + 1
      <4>1. CASE q = size + 1 BY <4>1, <3>1, <3>3, <2>4
      <4>2. CASE q # size + 1
        <5>1. q \in 1 .. size /\ q # p + 1 BY <4>2, <3>1
        <5> QED BY <5>1, <3>3, <2>3
      <4> QED BY <4>1, <4>2
    <3>5. Append(text, d) \in [1 .. size + 1 -> PageData \cup {"bad"}]
      BY <3>3, LenProperties
    <3> QED BY <2>2, <3>1, <3>2, <3>4, <3>5 DEF text
  <2> QED BY <2>5, <2>6
<1> QED BY <1>5, <1>10, <1>11, <1>12, <1>13, <1>17 DEF put, new, i, Wrote

(* ffs_page_i8_write, once its block has room for the page. *)
InPlace(t, f, p, d) ==
    LET b == t.list[f][p \div DataPages + 1]
        log == t.flash[b].log
        i == PageIndex(p)
    IN  <<t, [t EXCEPT !.flash[b].torn = TRUE],
             [t EXCEPT !.flash[b].log = Logged(log, i, "bad")],
             [t EXCEPT !.flash[b].log = Logged(log, i, d),
                       !.size[f] = IF p < @ THEN @ ELSE p + 1]>>

(* The state t2 after that. *)
Written(t, f, p, d, b, t2) ==
    /\ t2.mode = t.mode /\ t2.flash = Wrote(t.flash, b, p, d)
    /\ t2.free = t.free /\ t2.dirty = t.dirty /\ t2.list = t.list
    /\ t2.size = [t.size EXCEPT ![f] = Grown(t.size[f], p)]

LEMMA InPlaceStates ==
    ASSUME NEW t \in State, NEW f \in Files, NEW p \in Nat, p < MaxPages,
           NEW d \in PageData, NEW b \in Blocks, b = t.list[f][p \div DataPages + 1]
    PROVE  \E t1, t2, t3 \in State :
             /\ InPlace(t, f, p, d) = <<t, t1, t2, t3>>
             /\ t1.flash = Put(t.flash, b, Torn(t.flash[b]))
             /\ t2.flash = Wrote(t.flash, b, p, "bad")
             /\ Written(t, f, p, d, b, t3)
<1> DEFINE i == p % DataPages
           block == t.flash[b]
           sizes == [t.size EXCEPT ![f] = Grown(t.size[f], p)]
           x1 == Torn(block)
           x2 == More(block, i, "bad")
           x3 == More(block, i, d)
           t1 == [t EXCEPT !.flash = Put(t.flash, b, x1)]
           t2 == [t EXCEPT !.flash = Put(t.flash, b, x2)]
           t3 == [t EXCEPT !.flash = Put(t.flash, b, x3), !.size = sizes]
<1>1. /\ t.flash \in [Blocks -> Block] /\ t.size \in [Files -> -1 .. MaxPages]
      /\ block \in Block /\ t.size[f] \in -1 .. MaxPages
  BY StateType
<1>2. i \in 0 .. DataPages - 1 BY DivMod
<1>3. x1 \in Block /\ x2 \in Block /\ x3 \in Block
  <2>1. d \in PageData \cup {"bad"} /\ "bad" \in PageData \cup {"bad"} OBVIOUS
  <2> HIDE DEF block, i
  <2> QED BY <2>1, <1>1, <1>2, BlockWritten
<1>4. sizes \in [Files -> -1 .. MaxPages]
  <2>1. Grown(t.size[f], p) \in -1 .. MaxPages BY <1>1, Sizes DEF Grown
  <2> QED BY <2>1, <1>1
<1>5. [t EXCEPT !.flash[b].torn = TRUE] = t1 BY <1>1 DEF State, Put, Torn
<1>6. [t EXCEPT !.flash[b].log = Logged(t.flash[b].log, i, "bad")] = t2
  BY <1>1 DEF State, Put, More
<1>7. [t EXCEPT !.flash[b].log = Logged(t.flash[b].log, i, d),
                !.size[f] = IF p < t.size[f] THEN t.size[f] ELSE p + 1] = t3
  BY <1>1 DEF State, Put, More, Grown
<1>8. InPlace(t, f, p, d) = <<t, t1, t2, t3>>
  BY <1>5, <1>6, <1>7, Zenon DEF InPlace, PageIndex
<1> HIDE DEF x1, x2, x3, sizes
<1>9. /\ Put(t.flash, b, x1) \in [Blocks -> Block] /\ Put(t.flash, b, x2) \in [Blocks -> Block]
      /\ Put(t.flash, b, x3) \in [Blocks -> Block]
  BY <1>1, <1>3, PutBlock
<1>10. t1 \in State /\ t1.flash = Put(t.flash, b, x1) BY <1>9 DEF State
<1>11. t2 \in State /\ t2.flash = Put(t.flash, b, x2) BY <1>9 DEF State
<1>12. /\ t3 \in State /\ t3.mode = t.mode /\ t3.flash = Put(t.flash, b, x3) /\ t3.free = t.free
       /\ t3.dirty = t.dirty /\ t3.list = t.list /\ t3.size = sizes
  BY <1>4, <1>9 DEF State
<1> HIDE DEF t1, t2, t3
<1>13. Written(t, f, p, d, b, t3) BY <1>12 DEF Written, Wrote, x3, sizes
<1>14. t2.flash = Wrote(t.flash, b, p, "bad") BY <1>11 DEF Wrote, x2
<1> QED BY <1>8, <1>10, <1>11, <1>12, <1>13, <1>14 DEF x1

LEMMA InPlaceJournal ==
    ASSUME NEW t, Good(t), NEW f \in Files, NEW p \in 0 .. t.size[f], p < MaxPages,
           HasRoom(t, f, p \div DataPages), NEW d \in PageData,
           NEW A, Gone \in A, Contents(t, f) \in A, WithPage(Contents(t, f), p, d) \in A
    PROVE  /\ Journal(InPlace(t, f, p, d), t, f, A) /\ Len(InPlace(t, f, p, d)) = 4
           /\ Contents(Last(InPlace(t, f, p, d)), f) = WithPage(Contents(t, f), p, d)
           /\ Last(InPlace(t, f, p, d)).size[f] = Grown(t.size[f], p)
           /\ Headed(Last(InPlace(t, f, p, d)).flash, "bad") = Headed(t.flash, "bad")
<1> DEFINE J == InPlace(t, f, p, d)
           k == p \div DataPages
           b == t.list[f][k + 1]
           size == t.size[f]
           n == Len(t.list[f])
<1>1. /\ t \in State /\ t.mode = "on" /\ FlashOk(t.flash) /\ t.flash \in [Blocks -> Block]
      /\ Headed(t.flash, "garbled") = {}
      /\ Enumerates(t.free, Headed(t.flash, "erased"))
      /\ Enumerates(t.dirty, Headed(t.flash, "bad"))
  BY FlashType DEF Good, Volume
<1>2. size # -1 /\ p \in Nat /\ size \in -1 .. MaxPages BY <1>1, StateType
<1>3. /\ size \in 0 .. MaxPages /\ n \in 1 .. NBlocks
      /\ Shape(t.flash, f, n, size) /\ Whole(t.flash, f)
      /\ t.list[f] \in Seq(Blocks) /\ DOMAIN t.list[f] = 1 .. n
      /\ \A m \in 1 .. n : /\ t.list[f][m] \in ValidOf(t.flash, f)
                           /\ t.list[f][m] = At(t.flash, f, m - 1)
                           /\ t.flash[t.list[f][m]].blk = m - 1
  BY <1>2, GoodFile
<1>4. k \in Nat /\ k < n /\ Len(t.flash[b].log) < PhysPages BY <1>2, DivMod DEF HasRoom
<1>5. b \in ValidOf(t.flash, f) /\ t.flash[b].blk = k /\ b \in Blocks
  <2>1. k + 1 \in 1 .. n /\ (k + 1) - 1 = k BY <1>3, <1>4, Sizes
  <2> HIDE DEF k, n
  <2>2. b \in ValidOf(t.flash, f) /\ t.flash[b].blk = k BY <2>1, <1>3
  <2> QED BY <2>2 DEF ValidOf
<1>6. PICK t1, t2, t3 \in State :
             /\ InPlace(t, f, p, d) = <<t, t1, t2, t3>>
             /\ t1.flash = Put(t.flash, b, Torn(t.flash[b]))
             /\ t2.flash = Wrote(t.flash, b, p, "bad")
             /\ Written(t, f, p, d, b, t3)
  <2>1. b = t.list[f][p \div DataPages + 1] OBVIOUS
  <2> HIDE DEF b, J
  <2> QED BY <2>1, <1>1, <1>2, <1>5, InPlaceStates
<1>6a. /\ t3.mode = t.mode /\ t3.flash = Wrote(t.flash, b, p, d)
       /\ t3.free = t.free /\ t3.dirty = t.dirty /\ t3.list = t.list
       /\ t3.size = [t.size EXCEPT ![f] = Grown(size, p)]
  BY <1>6 DEF Written
<1>7. /\ J \in Seq(State) /\ Len(J) = 4 /\ J[1] = t /\ J[2] = t1 /\ J[3] = t2 /\ J[4] = t3
      /\ Last(J) = t3
  BY <1>1, <1>6 DEF Last
<1> HIDE DEF J, b, size, n
<1>8. /\ p \in 0 .. size /\ t.flash[b].blk = p \div DataPages /\ n \in 1 .. NBlocks /\ size \in Nat
      /\ d \in PageData \cup {"bad"} /\ "bad" \in PageData \cup {"bad"} /\ n \in Nat
  BY <1>3, <1>5, Sizes DEF size
<1>9. Grown(size, p) \in 0 .. MaxPages /\ Grown(size, p) # -1 BY <1>2, <1>3, Sizes DEF Grown
<1>10. d # "bad" BY FlashFsAssumption DEF PageData
<1> HIDE DEF k
<1>11. ASSUME NEW e \in PageData \cup {"bad"}
       PROVE  /\ FlashOk(Wrote(t.flash, b, p, e))
              /\ Shape(Wrote(t.flash, b, p, e), f, n, Grown(size, p))
              /\ e = "bad" => ~Whole(Wrote(t.flash, b, p, e), f)
              /\ e # "bad" => Whole(Wrote(t.flash, b, p, e), f)
              /\ Text(Wrote(t.flash, b, p, e), f, Grown(size, p))
                = WithPage(Text(t.flash, f, size), p, e)
              /\ \A m \in 0 .. n - 1 :
                At(Wrote(t.flash, b, p, e), f, m) = At(t.flash, f, m)
  <2>1. /\ FlashOk(t.flash) /\ Shape(t.flash, f, n, size) /\ Whole(t.flash, f)
        /\ b \in ValidOf(t.flash, f) /\ Len(t.flash[b].log) < PhysPages
    BY <1>1, <1>3, <1>4, <1>5
  <2>2. n \in 1 .. NBlocks /\ size \in Nat /\ p \in 0 .. size /\ t.flash[b].blk = p \div DataPages
    BY <1>8
  <2> QED BY <2>1, <2>2, LoggedFile
<1>12. ASSUME NEW new \in Block, new.hdr = "valid", new.file = f, new.blk = t.flash[b].blk,
              Len(new.log) <= PhysPages
       PROVE  \A g \in Files \ {f} : Untouched(t.flash, Put(t.flash, b, new), g)
  BY <1>1, <1>5, <1>12, PutFile
<1>13. t.flash[b] \in Block /\ t.flash[b].hdr = "valid" /\ t.flash[b].file = f
  BY <1>1, <1>5 DEF ValidOf
<1>14. ASSUME NEW i \in 0 .. DataPages - 1, NEW e \in PageData \cup {"bad"}
       PROVE  \A g \in Files \ {f} : Untouched(t.flash, Put(t.flash, b, More(t.flash[b], i, e)), g)
  <2> DEFINE new == More(t.flash[b], i, e)
  <2>1. /\ new \in Block /\ new.hdr = t.flash[b].hdr /\ new.file = t.flash[b].file
        /\ new.blk = t.flash[b].blk /\ new.log = Logged(t.flash[b].log, i, e)
    BY <1>13, BlockWritten
  <2>2. Len(new.log) <= PhysPages
    <3>1. Len(new.log) = Len(t.flash[b].log) + 1 /\ Len(t.flash[b].log) \in Nat
      BY <1>13, LoggedPage, LogType
    <3> QED BY <3>1, <1>4, Sizes DEF b
  <2> HIDE DEF new
  <2>3. \A g \in Files \ {f} : Untouched(t.flash, Put(t.flash, b, new), g)
    BY <2>1, <2>2, <1>12, <1>13
  <2> QED BY <2>3 DEF new
<1>15. CutOk(t, f, A, t1.flash)
  <2>1. /\ FlashOk(Put(t.flash, b, Torn(t.flash[b])))
        /\ Off(Put(t.flash, b, Torn(t.flash[b])), f, A)
    BY <1>1, <1>3, <1>5, <1>8, TornFile
  <2>2. \A g \in Files \ {f} : Untouched(t.flash, Put(t.flash, b, Torn(t.flash[b])), g)
    <3> DEFINE new == Torn(t.flash[b])
    <3>1. /\ new \in Block /\ new.hdr = t.flash[b].hdr /\ new.file = t.flash[b].file
          /\ new.blk = t.flash[b].blk /\ new.log = t.flash[b].log
      <4>1. 0 \in 0 .. DataPages - 1 BY Sizes
      <4> QED BY <4>1, <1>8, <1>13, BlockWritten
    <3>2. Len(new.log) <= PhysPages BY <3>1, <1>1, <1>5, FlashType
    <3> HIDE DEF new
    <3>3. \A g \in Files \ {f} : Untouched(t.flash, Put(t.flash, b, new), g)
      BY <3>1, <3>2, <1>12, <1>13
    <3> QED BY <3>3 DEF new
  <2> QED BY <2>1, <2>2, <1>6, CutBy
<1>16. p % DataPages \in 0 .. DataPages - 1 BY <1>2, DivMod
<1>17. CutOk(t, f, A, t2.flash)
  <2>1. FlashOk(t2.flash) /\ Shape(t2.flash, f, n, Grown(size, p)) /\ ~Whole(t2.flash, f)
    BY <1>6, <1>8, <1>11
  <2>2. Off(t2.flash, f, A) BY <2>1, <1>8, <1>9, OffBy
  <2>3. \A g \in Files \ {f} : Untouched(t.flash, t2.flash, g) BY <1>6, <1>8, <1>14, <1>16 DEF Wrote
  <2> QED BY <2>1, <2>2, <2>3, CutBy
<1>18. Contents(t, f) = Text(t.flash, f, size) BY <1>2, GoodContents DEF size
<1>19. /\ FlashOk(t3.flash) /\ Shape(t3.flash, f, n, Grown(size, p)) /\ Whole(t3.flash, f)
       /\ Text(t3.flash, f, Grown(size, p)) = WithPage(Contents(t, f), p, d)
       /\ \A m \in 0 .. n - 1 : At(t3.flash, f, m) = At(t.flash, f, m)
  BY <1>6a, <1>8, <1>10, <1>11, <1>18
<1>20. \A g \in Files \ {f} : Untouched(t.flash, t3.flash, g) BY <1>6a, <1>8, <1>14, <1>16 DEF Wrote
<1>21. CutOk(t, f, A, t3.flash)
  <2>1. Off(t3.flash, f, A) BY <1>8, <1>9, <1>19, OffBy
  <2> QED BY <2>1, <1>19, <1>20, CutBy
<1>22. ASSUME NEW j \in 1 .. 4 PROVE CutOk(t, f, A, J[j].flash)
  <2>1. CutOk(t, f, A, t.flash) BY GoodCut
  <2>2. j = 1 \/ j = 2 \/ j = 3 \/ j = 4 OBVIOUS
  <2> QED BY <2>1, <2>2, <1>7, <1>15, <1>17, <1>21
<1>23. /\ t3.list[f] = t.list[f] /\ t3.size[f] = Grown(size, p)
       /\ \A g \in Files \ {f} : t3.list[g] = t.list[g] /\ t3.size[g] = t.size[g]
  BY <1>1, <1>6a, StateType
<1>24. OnFile(t3, f)
  <2>1. t.list[f] = [m \in 1 .. n |-> At(t3.flash, f, m - 1)]
    <3>1. t.list[f] \in [1 .. n -> Blocks] BY <1>3, <1>8, LenProperties
    <3>2. ASSUME NEW m \in 1 .. n PROVE t.list[f][m] = At(t3.flash, f, m - 1)
      <4>1. m - 1 \in 0 .. n - 1 BY <1>8
      <4> QED BY <4>1, <1>3, <1>19
    <3> QED BY <3>1, <3>2
  <2>2. Len(t3.list[f]) = n BY <1>23 DEF n
  <2> QED BY <2>1, <2>2, <1>8, <1>9, <1>19, <1>23 DEF OnFile
<1>25. \A g \in Files \ {f} : Alike(t, t3, g) BY <1>20, <1>23 DEF Alike
<1>26. \A hdr \in {"erased", "bad", "garbled"} : Headed(t3.flash, hdr) = Headed(t.flash, hdr)
  <2> TAKE hdr \in {"erased", "bad", "garbled"}
  <2> DEFINE new == More(t.flash[b], p % DataPages, d)
  <2>1. new.hdr = "valid" BY <1>8, <1>13, <1>16, BlockWritten
  <2>2. t3.flash = Put(t.flash, b, new) BY <1>6a DEF Wrote
  <2> HIDE DEF new
  <2> QED BY <2>1, <2>2, <1>1, <1>5, <1>13 DEF Put, Headed
<1>27. Volume(t3) BY <1>1, <1>6a, <1>19, <1>26 DEF Volume
<1>28. Good(t3) /\ \A g \in Files \ {f} : Contents(t3, g) = Contents(t, g)
  BY <1>24, <1>25, <1>27, GoodBy
<1>29. Contents(t3, f) = WithPage(Contents(t, f), p, d)
  <2>1. Contents(t3, f) = Text(t3.flash, f, t3.size[f]) BY <1>9, <1>23, <1>28, GoodContents
  <2> QED BY <2>1, <1>19, <1>23
<1>30. Journal(J, t, f, A)
  <2>1. J # <<>> /\ Len(J) # 1
    <3>1. Len(<<>>) = 0 OBVIOUS
    <3>2. Len(J) = 4 BY <1>7
    <3>3. 4 # 0 /\ 4 # 1 OBVIOUS
    <3> HIDE DEF J
    <3> QED BY <3>1, <3>2, <3>3, Zenon
  <2>2. \A j \in 1 .. Len(J) : CutOk(t, f, A, J[j].flash) BY <1>7, <1>22
  <2>3. Good(Last(J)) /\ \A g \in Files \ {f} : Contents(Last(J), g) = Contents(t, g)
    BY <1>7, <1>28
  <2> QED BY <2>1, <2>2, <2>3, <1>7 DEF Journal
<1> QED BY <1>7, <1>23, <1>26, <1>29, <1>30 DEF J, size

LEMMA WriteStates ==
    ASSUME NEW s, NEW f, NEW p, NEW d, NEW room, room = MakeRoom(s, f, p \div DataPages),
           HasRoom(Last(room), f, p \div DataPages)
    PROVE  WritePage(s, f, p, d) = Then(room, InPlace(Last(room), f, p, d))
<1> DEFINE t == Last(room)
           b == t.list[f][p \div DataPages + 1]
           t1 == [t EXCEPT !.flash[b].torn = TRUE]
           t2 == [t EXCEPT !.flash[b].log = Logged(t.flash[b].log, PageIndex(p), "bad")]
           t3 == [t EXCEPT !.flash[b].log = Logged(t.flash[b].log, PageIndex(p), d),
                           !.size[f] = IF p < t.size[f] THEN t.size[f] ELSE p + 1]
<1>1. InPlace(t, f, p, d) = <<t, t1, t2, t3>> BY DEF InPlace
<1>2. WritePage(s, f, p, d) = room \o <<t1, t2, t3>> BY Zenon DEF WritePage
<1> HIDE DEF t, t1, t2, t3
<1>3. Tail(<<t, t1, t2, t3>>) = <<t1, t2, t3>> OBVIOUS
<1> QED BY <1>1, <1>2, <1>3 DEF Then, t

LEMMA WriteJournal ==
    ASSUME ~ReplaceWindow, NEW s, Good(s), NEW f \in Files, NEW p \in 0 .. s.size[f], p < MaxPages,
           NEW d \in PageData,
           NEW A, Gone \in A, Contents(s, f) \in A, WithPage(Contents(s, f), p, d) \in A
    PROVE  /\ Journal(WritePage(s, f, p, d), s, f, A)
           /\ Headed(s.flash, "bad") \subseteq Headed(Last(WritePage(s, f, p, d)).flash, "bad")
           /\ \/ WritePage(s, f, p, d) = <<s>> /\ Last(WritePage(s, f, p, d)) = s
              \/ /\ Contents(Last(WritePage(s, f, p, d)), f) = WithPage(Contents(s, f), p, d)
                 /\ Last(WritePage(s, f, p, d)).size[f] = Grown(s.size[f], p)
<1> DEFINE n == p \div DataPages
           len == Len(s.list[f])
           size == s.size[f]
           room == MakeRoom(s, f, n)
           t == Last(room)
<1>1. s \in State /\ s.mode = "on" /\ FlashOk(s.flash) /\ s.size \in [Files -> -1 .. MaxPages]
  BY StateType DEF Good, Volume
<1>2. size # -1 /\ p \in Nat /\ size \in -1 .. MaxPages BY <1>1, StateType
<1>3. /\ size \in 0 .. MaxPages /\ len \in 1 .. NBlocks
      /\ Shape(s.flash, f, len, size)
      /\ \A k \in 1 .. len : s.list[f][k] \in ValidOf(s.flash, f)
  BY <1>2, GoodFile
<1>4. n \in Nat /\ p % DataPages \in 0 .. DataPages - 1 /\ p = (n * DataPages) + (p % DataPages)
  BY <1>2, DivMod
<1>5. n \in 0 .. len /\ (n = len => size = len * DataPages /\ p = size)
  <2> HIDE DEF n, len, size
  <2>1. size <= len * DataPages /\ len \in Nat BY <1>3, Sizes DEF Shape
  <2>2. n * DataPages \in Nat /\ len * DataPages \in Nat BY <2>1, <1>4, Sizes
  <2>3. p <= size BY DEF size
  <2>4. n * DataPages <= p /\ p <= len * DataPages BY <2>1, <2>2, <2>3, <1>2, <1>3, <1>4, Sizes
  <2>5. n <= len
    <3>1. CASE len < n
      <4>1. len * DataPages + DataPages <= n * DataPages BY <3>1, <2>1, <1>4, Multiples
      <4> QED BY <4>1, <2>2, <2>4, <1>2, Sizes
    <3> QED BY <3>1, <2>1, <1>4
  <2>6. n = len => size = len * DataPages /\ p = size
    BY <2>1, <2>2, <2>3, <2>4, <1>2, <1>3
  <2> QED BY <2>1, <2>5, <2>6, <1>4
<1> HIDE DEF n, len, size, room, t
<1>6. HasRoom(t, f, n) => WritePage(s, f, p, d) = Then(room, InPlace(t, f, p, d))
  <2>1. room = MakeRoom(s, f, p \div DataPages) BY DEF room, n
  <2>2. HasRoom(Last(room), f, p \div DataPages)
          => WritePage(s, f, p, d) = Then(room, InPlace(Last(room), f, p, d))
    BY <2>1, WriteStates
  <2> QED BY <2>2 DEF t, n
<1>7. ~HasRoom(t, f, n) => WritePage(s, f, p, d) = <<s>> BY DEF WritePage, t, room, n
<1>8. Last(<<s>>) = s BY DEF Last
<1>9. \/ room = <<s>> /\ t = s
      \/ /\ Journal(room, s, f, A) /\ HasRoom(t, f, n)
         /\ Contents(t, f) = Contents(s, f) /\ t.size = s.size
         /\ Headed(s.flash, "bad") \subseteq Headed(t.flash, "bad")
  <2>1. CASE n = len
    <3>1. room = AllocBlock(s, f) BY <2>1 DEF room, len, MakeRoom
    <3>2. CASE s.free = <<>> BY <3>1, <3>2, <1>8 DEF AllocBlock, t
    <3>3. CASE s.free # <<>>
      <4>1. /\ AllocBlock(s, f) \in Seq(State) /\ Len(AllocBlock(s, f)) = 4
            /\ \A k \in 1 .. 4 : CutOk(s, f, A, AllocBlock(s, f)[k].flash)
            /\ Last(AllocBlock(s, f)).size = s.size /\ Last(AllocBlock(s, f)).mode = "on"
            /\ \A u \in State : Allocated(s, f, size, u) => Longer(s, f, u)
        <5>1. /\ size \in 0 .. MaxPages /\ size = Len(s.list[f]) * DataPages
              /\ s.size[f] \in {-1, size} /\ (s.size[f] = -1 => <<>> \in A)
          BY <2>1, <1>2, <1>3, <1>5 DEF size, len
        <5> QED BY <5>1, <3>3, AllocGood
      <4>2. /\ t \in State /\ t = room[4] /\ room # <<>> /\ Len(room) # 1
        <5>1. room \in Seq(State) /\ Len(room) = 4 BY <4>1, <3>1
        <5>2. 4 \in 1 .. Len(room) BY <5>1
        <5>3. room[4] \in State BY <5>1, <5>2, ElementOfSeq
        <5>5. Len(room) # 1 BY <5>1
        <5>7. room # <<>>
          <6> SUFFICES ASSUME room = <<>> PROVE FALSE OBVIOUS
          <6>1. Len(room) = Len(<<>>) OBVIOUS
          <6>2. Len(<<>>) = 0 OBVIOUS
          <6> QED BY <5>1, <6>1, <6>2
        <5>6. t = room[4] BY <5>1 DEF t, Last
        <5> QED BY <5>3, <5>5, <5>6, <5>7
      <4>3. t.size = [s.size EXCEPT ![f] = size] BY <4>1, <3>1, <1>1 DEF t, size
      <4>4. /\ Good(t)
            /\ \A g \in Files \ {f} : Contents(t, g) = Contents(s, g)
            /\ Contents(t, f) = IF s.size[f] = -1 THEN <<>> ELSE Contents(s, f)
            /\ Headed(t.flash, "bad") = Headed(s.flash, "bad")
            /\ Len(t.list[f]) = Len(s.list[f]) + 1 /\ Len(s.list[f]) \in Nat
            /\ Len(t.flash[t.list[f][Len(s.list[f]) + 1]].log) = 0
        <5>1. Allocated(s, f, size, t) BY <4>1, <4>3, <3>1 DEF Allocated, t
        <5> QED BY <5>1, <4>1, <4>2 DEF Longer
      <4>5. Contents(t, f) = Contents(s, f) BY <4>4, <1>2 DEF size
      <4>6. HasRoom(t, f, n)
        <5>1. Len(s.list[f]) = n /\ n \in Nat BY <2>1, <1>4 DEF len
        <5>2. Len(t.list[f]) = n + 1 /\ Len(t.flash[t.list[f][n + 1]].log) = 0 BY <5>1, <4>4
        <5> QED BY <5>1, <5>2, Sizes DEF HasRoom
      <4>7. Journal(room, s, f, A) BY <4>1, <4>2, <4>4, <3>1 DEF Journal, t
      <4> QED BY <4>1, <4>4, <4>5, <4>6, <4>7, <3>1 DEF t
    <3> QED BY <3>2, <3>3
  <2>2. CASE n # len
    <3>1. n \in 0 .. len - 1 /\ n + 1 \in 1 .. len /\ n < len BY <2>2, <1>3, <1>5, Sizes
    <3> DEFINE log == s.flash[s.list[f][n + 1]].log
    <3>2. Len(log) \in Nat /\ Len(log) <= PhysPages
      <4>1. s.list[f][n + 1] \in Blocks BY <3>1, <1>3 DEF ValidOf
      <4> QED BY <4>1, <1>1, FlashType, LogType
    <3>3. CASE Len(log) = PhysPages
      <4>1. room = Replace(s, f, n) BY <3>3, <2>2 DEF room, len, MakeRoom
      <4>2. CASE s.free = <<>> BY <4>1, <4>2, <1>8 DEF Replace, t
      <4>3. CASE s.free # <<>>
        <5>1. n \in 0 .. Len(s.list[f]) - 1 /\ s.size[f] # -1 BY <3>1, <1>2 DEF len, size
        <5>2. /\ Journal(Replace(s, f, n), s, f, A)
              /\ Contents(Last(Replace(s, f, n)), f) = Contents(s, f)
              /\ Last(Replace(s, f, n)).size = s.size
              /\ Headed(s.flash, "bad") \subseteq Headed(Last(Replace(s, f, n)).flash, "bad")
              /\ Len(Last(Replace(s, f, n)).list[f]) = Len(s.list[f])
              /\ Len(Last(Replace(s, f, n)).flash[Last(Replace(s, f, n)).list[f][n + 1]].log)
                   \in 0 .. DataPages
          BY <5>1, <4>3, ReplaceGood
        <5>3. HasRoom(t, f, n)
          <6>1. Len(t.list[f]) = len BY <5>2, <4>1 DEF t, len
          <6>2. Len(t.flash[t.list[f][n + 1]].log) \in 0 .. DataPages BY <5>2, <4>1 DEF t
          <6>3. Len(t.flash[t.list[f][n + 1]].log) < PhysPages BY <6>2, Sizes
          <6>4. n < Len(t.list[f]) BY <6>1, <3>1
          <6> QED BY <6>3, <6>4 DEF HasRoom
        <5> QED BY <5>2, <5>3, <4>1 DEF t
      <4> QED BY <4>2, <4>3
    <3>4. CASE Len(log) # PhysPages
      <4>1. room = <<s>> BY <3>4, <2>2 DEF room, len, MakeRoom
      <4> QED BY <4>1, <1>8 DEF t
    <3> QED BY <3>3, <3>4
  <2> QED BY <2>1, <2>2
<1>10. Journal(<<s>>, s, f, A) BY JournalStays
<1>11. CASE ~HasRoom(t, f, n) BY <1>7, <1>8, <1>10, <1>11
<1>12. CASE HasRoom(t, f, n)
  <2>1. /\ Journal(room, s, f, A) /\ Contents(t, f) = Contents(s, f) /\ t.size[f] = s.size[f]
        /\ Headed(s.flash, "bad") \subseteq Headed(t.flash, "bad")
    BY <1>9, <1>10
  <2>2. Good(t) BY <2>1 DEF Journal, t
  <2> DEFINE J == InPlace(t, f, p, d)
  <2>3. /\ Journal(J, t, f, A)
        /\ Contents(Last(J), f) = WithPage(Contents(t, f), p, d)
        /\ Last(J).size[f] = Grown(t.size[f], p)
        /\ Headed(Last(J).flash, "bad") = Headed(t.flash, "bad")
    <3>1. /\ p \in 0 .. t.size[f] /\ HasRoom(t, f, p \div DataPages)
          /\ Contents(t, f) \in A /\ WithPage(Contents(t, f), p, d) \in A
      BY <2>1, <1>12 DEF n
    <3> QED BY <3>1, <2>2, InPlaceJournal
  <2> HIDE DEF J
  <2>4. Journal(Then(room, J), s, f, A \cup A) /\ Last(Then(room, J)) = Last(J)
    BY <2>1, <2>3, JournalThen DEF t
  <2>5. A \cup A = A OBVIOUS
  <2>6. WritePage(s, f, p, d) = Then(room, J) BY <1>6, <1>12 DEF J
  <2> QED BY <2>1, <2>3, <2>4, <2>5, <2>6
<1> QED BY <1>11, <1>12

-----------------------------------------------------------------------------
(* A file is created                                                         *)

(* The first m pages of the meta data of a file. *)
Made(name, m) == [i \in 1 .. m |-> MetaData(name, i - 1)]

LEMMA MadePage ==
    ASSUME NEW name \in Names, NEW m \in Nat
    PROVE  /\ MetaData(name, m) \in PageData
           /\ Made(name, m) \in Seq(PageData) /\ Len(Made(name, m)) = m
           /\ WithPage(Made(name, m), m, MetaData(name, m)) = Made(name, m + 1)
<1>1. \A i \in Nat : MetaData(name, i) \in PageData BY DEF MetaData, PageData
<1>2. \A k \in Nat : Made(name, k) \in Seq(PageData) /\ Len(Made(name, k)) = k
  <2> TAKE k \in Nat
  <2>1. Made(name, k) \in [1 .. k -> PageData] BY <1>1 DEF Made
  <2>2. Made(name, k) \in Seq(PageData) BY <2>1 DEF Seq
  <2>3. DOMAIN Made(name, k) = 1 .. k BY <2>1
  <2> QED BY <2>2, <2>3, LenProperties
<1>3. WithPage(Made(name, m), m, MetaData(name, m)) = Append(Made(name, m), MetaData(name, m))
  <2>1. ~(m < Len(Made(name, m))) BY <1>2
  <2> QED BY <2>1 DEF WithPage
<1>4. Append(Made(name, m), MetaData(name, m)) = Made(name, m + 1)
  <2> DEFINE x == Made(name, m)
             d == MetaData(name, m)
             y == Append(x, d)
             z == Made(name, m + 1)
  <2>1. x \in Seq(PageData) /\ Len(x) = m /\ d \in PageData BY <1>1, <1>2
  <2>2. z \in Seq(PageData) /\ Len(z) = m + 1 BY <1>2
  <2>3. \A i \in 1 .. m : x[i] = MetaData(name, i - 1) BY DEF Made
  <2>4. \A i \in 1 .. m + 1 : z[i] = MetaData(name, i - 1) BY DEF Made
  <2> HIDE DEF x, z
  <2>5. /\ y \in Seq(PageData) /\ Len(y) = m + 1
        /\ \A i \in 1 .. m : y[i] = x[i]
        /\ y[m + 1] = d
    BY <2>1, AppendProperties
  <2> HIDE DEF y
  <2>6. ASSUME NEW i \in 1 .. m + 1 PROVE y[i] = z[i]
    <3>1. CASE i = m + 1
      <4>1. i - 1 = m BY <3>1
      <4> QED BY <4>1, <3>1, <2>4, <2>5 DEF d
    <3>2. CASE i # m + 1
      <4>1. i \in 1 .. m BY <3>2
      <4> QED BY <4>1, <2>3, <2>4, <2>5
    <3> QED BY <3>1, <3>2
  <2>7. y = z BY <2>2, <2>5, <2>6, SeqEqual
  <2> QED BY <2>7 DEF x, y, z, d
<1> QED BY <1>1, <1>2, <1>3, <1>4

(* The turns of ffs_i8_create_file: the journal x with page p - 1 of the meta data. *)
NextPage(x, f, name, p) ==
    IF Last(x).size[f] < p - 1 THEN x
    ELSE Then(x, WritePage(Last(x), f, p - 1, MetaData(name, p - 1)))

Pages(start, f, name) ==
    CHOOSE w : w = [p \in 0 .. MetaPages |->
                        IF p = 0 THEN start ELSE NextPage(w[p - 1], f, name, p)]

LEMMA PagesExist ==
    ASSUME NEW start, NEW f, NEW name
    PROVE  /\ Pages(start, f, name)[0] = start
           /\ \A p \in 1 .. MetaPages :
                Pages(start, f, name)[p] = NextPage(Pages(start, f, name)[p - 1], f, name, p)
<1> DEFINE Run(w, n) == w = [p \in 0 .. n |->
                                IF p = 0 THEN start ELSE NextPage(w[p - 1], f, name, p)]
           S == {n \in Nat : \E w : Run(w, n)}
<1>1. 0 \in S
  <2> DEFINE w == [p \in 0 .. 0 |-> start]
  <2>1. Run(w, 0) OBVIOUS
  <2> QED BY <2>1
<1>2. ASSUME NEW n \in Nat, n \in S PROVE n + 1 \in S
  <2>1. PICK w : Run(w, n) BY <1>2
  <2> DEFINE v == [p \in 0 .. n + 1 |-> IF p = n + 1 THEN NextPage(w[n], f, name, p) ELSE w[p]]
  <2>2. v = [p \in 0 .. n + 1 |-> IF p = 0 THEN start ELSE NextPage(v[p - 1], f, name, p)]
    <3>1. w[0] = start /\ \A p \in 1 .. n : w[p] = NextPage(w[p - 1], f, name, p) BY <2>1
    <3>2. ASSUME NEW p \in 0 .. n + 1
          PROVE  v[p] = IF p = 0 THEN start ELSE NextPage(v[p - 1], f, name, p)
      <4>1. CASE p = 0 BY <4>1, <3>1
      <4>2. CASE p = n + 1
        <5>1. p # 0 /\ p - 1 = n /\ n \in 0 .. n + 1 /\ n # n + 1 BY <4>2
        <5>2. v[p - 1] = w[n] BY <5>1
        <5> QED BY <5>1, <5>2, <4>2
      <4>3. CASE p # 0 /\ p # n + 1
        <5>1. p \in 1 .. n /\ p - 1 \in 0 .. n + 1 /\ p - 1 # n + 1 BY <4>3
        <5>2. v[p - 1] = w[p - 1] /\ v[p] = w[p] BY <5>1, <4>3
        <5> QED BY <5>1, <5>2, <4>3, <3>1
      <4> QED BY <4>1, <4>2, <4>3
    <3> HIDE DEF v
    <3>3. v = [p \in 0 .. n + 1 |-> v[p]] BY DEF v
    <3> QED BY <3>2, <3>3
  <2>3. Run(v, n + 1) BY <2>2
  <2> HIDE DEF Run, v
  <2>4. \E x : Run(x, n + 1) BY <2>3
  <2> QED BY <2>4
<1>3. MetaPages \in S
  <2> HIDE DEF S
  <2>1. Nat \subseteq S BY <1>1, <1>2, NatInduct
  <2> QED BY <2>1, Sizes
<1>4. \E w : Run(w, MetaPages) BY <1>3
<1>5. Run(Pages(start, f, name), MetaPages) BY <1>4 DEF Pages
<1>6. ASSUME NEW w, Run(w, MetaPages)
      PROVE  w[0] = start /\ \A p \in 1 .. MetaPages : w[p] = NextPage(w[p - 1], f, name, p)
  <2>1. 0 \in 0 .. MetaPages /\ \A p \in 1 .. MetaPages : p \in 0 .. MetaPages /\ p # 0
    BY Sizes
  <2> QED BY <1>6, <2>1
<1> QED BY <1>5, <1>6

(* What holds when a new file has got p pages, or as many as there was room for. *)
Started(x, s, f, A, name, p) ==
    /\ Journal(x, s, f, A)
    /\ Last(x).size[f] \in 0 .. p
    /\ Contents(Last(x), f) = Made(name, Last(x).size[f])
    /\ Headed(s.flash, "bad") \subseteq Headed(Last(x).flash, "bad")

LEMMA NextPageStarted ==
    ASSUME ~ReplaceWindow, NEW s, NEW f \in Files, NEW name \in Names,
           NEW A, Gone \in A, \A m \in 0 .. MetaPages : Made(name, m) \in A,
           NEW p \in 1 .. MetaPages, NEW x, Started(x, s, f, A, name, p - 1)
    PROVE  Started(NextPage(x, f, name, p), s, f, A, name, p)
<1> DEFINE t == Last(x)
           m == t.size[f]
           d == MetaData(name, p - 1)
           J == WritePage(t, f, p - 1, d)
<1>1. /\ Journal(x, s, f, A) /\ m \in 0 .. p - 1 /\ Contents(t, f) = Made(name, m)
      /\ Headed(s.flash, "bad") \subseteq Headed(t.flash, "bad") /\ Good(t)
  BY DEF Started, Journal
<1>2. p \in Nat /\ p - 1 \in Nat /\ (p - 1) + 1 = p /\ p - 1 \in 0 .. MetaPages /\ p \in 0 .. MetaPages
      /\ p - 1 < MaxPages
  BY Sizes
<1>3. CASE m < p - 1
  <2>1. NextPage(x, f, name, p) = x BY <1>3 DEF NextPage
  <2>2. m \in 0 .. p BY <1>1, <1>2
  <2> QED BY <2>1, <2>2, <1>1 DEF Started
<1>4. CASE ~(m < p - 1)
  <2>1. m = p - 1 BY <1>1, <1>2, <1>4
  <2>2. NextPage(x, f, name, p) = Then(x, J) BY <1>4 DEF NextPage
  <2>3. /\ d \in PageData
        /\ WithPage(Made(name, p - 1), p - 1, d) = Made(name, p)
    BY <1>2, MadePage
  <2> HIDE DEF d
  <2>4. /\ p - 1 \in 0 .. t.size[f] /\ Contents(t, f) \in A
        /\ WithPage(Contents(t, f), p - 1, d) \in A
    BY <2>1, <2>3, <1>1, <1>2
  <2>5. /\ Journal(J, t, f, A)
        /\ Headed(t.flash, "bad") \subseteq Headed(Last(J).flash, "bad")
        /\ \/ J = <<t>> /\ Last(J) = t
           \/ /\ Contents(Last(J), f) = WithPage(Contents(t, f), p - 1, d)
              /\ Last(J).size[f] = Grown(t.size[f], p - 1)
    BY <2>3, <2>4, <1>1, <1>2, WriteJournal
  <2> HIDE DEF J
  <2>6. Journal(Then(x, J), s, f, A \cup A) /\ Last(Then(x, J)) = Last(J)
    <3> HIDE DEF t
    <3>1. Journal(J, Last(x), f, A) BY <2>5 DEF t
    <3> QED BY <3>1, <1>1, JournalThen
  <2>7. A \cup A = A OBVIOUS
  <2>8. Last(J).size[f] \in 0 .. p /\ Contents(Last(J), f) = Made(name, Last(J).size[f])
    <3>1. CASE Last(J) = t
      <4>1. m \in 0 .. p BY <1>1, <1>2
      <4> QED BY <3>1, <4>1, <1>1
    <3>2. CASE /\ Contents(Last(J), f) = WithPage(Contents(t, f), p - 1, d)
               /\ Last(J).size[f] = Grown(t.size[f], p - 1)
      <4>1. Grown(t.size[f], p - 1) = p BY <2>1, <1>2 DEF Grown
      <4>2. p \in 0 .. p BY <1>2
      <4> QED BY <3>2, <4>1, <4>2, <2>1, <2>3, <1>1
    <3> QED BY <3>1, <3>2, <2>5
  <2>9. Headed(s.flash, "bad") \subseteq Headed(Last(J).flash, "bad") BY <2>5, <1>1
  <2> QED BY <2>2, <2>6, <2>7, <2>8, <2>9 DEF Started
<1> QED BY <1>3, <1>4

(* ffs_page_i8_create_file with a free block. *)
Start(s, f) ==
    LET first == AllocBlock(s, f)
    IN  Append(Front(first), [Last(first) EXCEPT !.size[f] = 0])

LEMMA CreateCases ==
    ASSUME NEW s, NEW f, NEW name
    PROVE  Create(s, f, name)
             = IF Len(AllocBlock(s, f)) = 1 THEN AllocBlock(s, f)
               ELSE IF Last(Pages(Start(s, f), f, name)[MetaPages]).size[f] = MetaPages
                    THEN Pages(Start(s, f), f, name)[MetaPages]
                    ELSE Then(Pages(Start(s, f), f, name)[MetaPages],
                              Deleting(Last(Pages(Start(s, f), f, name)[MetaPages]), f))
<1> DEFINE start == Start(s, f)
           w[p \in 0 .. MetaPages] ==
               IF p = 0 THEN start
               ELSE IF Last(w[p - 1]).size[f] < p - 1 THEN w[p - 1]
               ELSE Then(w[p - 1], WritePage(Last(w[p - 1]), f, p - 1, MetaData(name, p - 1)))
<1>1. Create(s, f, name)
             = IF Len(AllocBlock(s, f)) = 1 THEN AllocBlock(s, f)
               ELSE IF Last(w[MetaPages]).size[f] = MetaPages THEN w[MetaPages]
               ELSE Then(w[MetaPages], Deleting(Last(w[MetaPages]), f))
  BY DEF Create, Start
<1>2. w = Pages(start, f, name) BY DEF Pages, NextPage
<1> QED BY <1>1, <1>2

LEMMA AppendedState ==
    ASSUME NEW J \in Seq(State), NEW t \in State
    PROVE  /\ Append(J, t) \in Seq(State)
           /\ Len(Append(J, t)) = Len(J) + 1
           /\ \A i \in 1 .. Len(J) : Append(J, t)[i] = J[i]
           /\ Append(J, t)[Len(J) + 1] = t
<1> PICK S : S = State OBVIOUS
<1>1. J \in Seq(S) /\ t \in S OBVIOUS
<1>2. /\ Append(J, t) \in Seq(S)
      /\ Len(Append(J, t)) = Len(J) + 1
      /\ \A i \in 1 .. Len(J) : Append(J, t)[i] = J[i]
      /\ Append(J, t)[Len(J) + 1] = t
  BY <1>1, AppendProperties
<1> QED BY <1>2

LEMMA StartStarted ==
    ASSUME NEW s, Good(s), NEW f \in Files, s.size[f] = -1, s.free # <<>>, NEW name \in Names,
           NEW A, Gone \in A, \A m \in 0 .. MetaPages : Made(name, m) \in A
    PROVE  Started(Start(s, f), s, f, A, name, 0) /\ Len(AllocBlock(s, f)) = 4
<1> DEFINE first == AllocBlock(s, f)
           last == Last(first)
           t == [last EXCEPT !.size[f] = 0]
           J == Start(s, f)
<1>1. s \in State /\ s.size \in [Files -> -1 .. MaxPages] BY StateType DEF Good, Volume
<1>2. /\ s.list[f] = <<>> /\ Contents(s, f) = Gone BY GoodNoFile
<1>3. Made(name, 0) = <<>> /\ <<>> \in A
  <2>1. Made(name, 0) = <<>> BY DEF Made
  <2>2. 0 \in 0 .. MetaPages BY Sizes
  <2> QED BY <2>1, <2>2
<1>4. /\ first \in Seq(State) /\ Len(first) = 4
      /\ \A k \in 1 .. 4 : CutOk(s, f, A, first[k].flash)
      /\ last.size = s.size /\ last.mode = "on"
      /\ \A u \in State : Allocated(s, f, 0, u) => Longer(s, f, u)
  <2>1. 0 \in 0 .. MaxPages /\ 0 = Len(s.list[f]) * DataPages BY <1>2, Sizes
  <2>2. s.size[f] \in {-1, 0} /\ Contents(s, f) \in A BY <1>2
  <2> QED BY <2>1, <2>2, <1>3, AllocGood
<1>5. last \in State /\ last = first[4]
  <2>1. 4 \in 1 .. Len(first) BY <1>4
  <2>2. first[4] \in State BY <2>1, <1>4, ElementOfSeq
  <2> QED BY <2>2, <1>4 DEF Last
<1> HIDE DEF first, last
<1>6. /\ t \in State /\ t.mode = "on" /\ t.flash = last.flash /\ t.free = last.free
      /\ t.dirty = last.dirty /\ t.list = last.list /\ t.size = [s.size EXCEPT ![f] = 0]
  <2>1. [last.size EXCEPT ![f] = 0] \in [Files -> -1 .. MaxPages] BY <1>1, <1>4, Sizes
  <2>2. t = [last EXCEPT !.size = [last.size EXCEPT ![f] = 0]] BY <1>5 DEF State
  <2> QED BY <2>1, <2>2, <1>4, <1>5 DEF State
<1>7. J = Append(SubSeq(first, 1, 3), t)
  <2>1. J = Append(SubSeq(first, 1, Len(first) - 1), t) BY DEF Start, Front, first, last
  <2> QED BY <2>1, <1>4
<1> HIDE DEF t
<1>8. Longer(s, f, t)
  <2>1. Allocated(s, f, 0, t) BY <1>6 DEF Allocated, first, last
  <2> QED BY <2>1, <1>4, <1>6
<1>9. /\ J \in Seq(State) /\ Len(J) = 4 /\ J[4] = t
      /\ \A k \in 1 .. 3 : J[k] = first[k]
  <2> DEFINE front == SubSeq(first, 1, 3)
  <2>1. front \in Seq(State) /\ Len(front) = 3 /\ \A k \in 1 .. 3 : front[k] = first[k]
    <3>1. \A i \in 1 .. 3 : first[i] \in State
      <4>1. \A i \in 1 .. 3 : i \in 1 .. Len(first) BY <1>4
      <4> QED BY <4>1, <1>4, ElementOfSeq
    <3>2. /\ SubSeq(first, 1, 3) \in Seq(State)
          /\ Len(SubSeq(first, 1, 3)) = IF 1 <= 3 THEN 3 - 1 + 1 ELSE 0
          /\ \A i \in 1 .. 3 - 1 + 1 : SubSeq(first, 1, 3)[i] = first[1 + i - 1]
      BY <3>1, SubSeqProperties
    <3> QED BY <3>2
  <2> HIDE DEF front
  <2>2. /\ Append(front, t) \in Seq(State) /\ Len(Append(front, t)) = 4
        /\ Append(front, t)[4] = t /\ \A k \in 1 .. 3 : Append(front, t)[k] = front[k]
    <3>1. front \in Seq(State) /\ t \in State BY <2>1, <1>6
    <3>2. /\ Append(front, t) \in Seq(State)
          /\ Len(Append(front, t)) = Len(front) + 1
          /\ \A i \in 1 .. Len(front) : Append(front, t)[i] = front[i]
          /\ Append(front, t)[Len(front) + 1] = t
      BY <3>1, AppendedState
    <3> QED BY <2>1, <3>2
  <2> QED BY <2>1, <2>2, <1>7 DEF front
<1> HIDE DEF J
<1>10. Last(J) = t BY <1>9 DEF Last
<1>11. \A k \in 1 .. Len(J) : CutOk(s, f, A, J[k].flash)
  <2> TAKE k \in 1 .. Len(J)
  <2>1. CASE k = 4 BY <2>1, <1>4, <1>5, <1>6, <1>9
  <2>2. CASE k # 4
    <3>1. k \in 1 .. 3 /\ k \in 1 .. 4 BY <2>2, <1>9
    <3> QED BY <3>1, <1>4, <1>9
  <2> QED BY <2>1, <2>2
<1>12. J # <<>> /\ Len(J) # 1
  <2>1. Len(<<>>) = 0 OBVIOUS
  <2> QED BY <2>1, <1>9
<1>13. /\ Good(t) /\ \A g \in Files \ {f} : Contents(t, g) = Contents(s, g)
       /\ Contents(t, f) = <<>> /\ Headed(t.flash, "bad") = Headed(s.flash, "bad")
  BY <1>8 DEF Longer
<1>14. Journal(J, s, f, A) BY <1>9, <1>10, <1>11, <1>12, <1>13 DEF Journal
<1>15. t.size[f] = 0 BY <1>1, <1>6
<1>16. Started(J, s, f, A, name, 0)
  <2>1. 0 \in 0 .. 0 OBVIOUS
  <2> QED BY <2>1, <1>3, <1>10, <1>13, <1>14, <1>15 DEF Started
<1> QED BY <1>4, <1>16 DEF J, first

LEMMA PagesStarted ==
    ASSUME ~ReplaceWindow, NEW s, NEW f \in Files, NEW name \in Names,
           NEW A, Gone \in A, \A m \in 0 .. MetaPages : Made(name, m) \in A,
           NEW x, Started(x, s, f, A, name, 0)
    PROVE  Started(Pages(x, f, name)[MetaPages], s, f, A, name, MetaPages)
<1> DEFINE w == Pages(x, f, name)
           S == {p \in Nat : p <= MetaPages => Started(w[p], s, f, A, name, p)}
<1>1. w[0] = x /\ \A p \in 1 .. MetaPages : w[p] = NextPage(w[p - 1], f, name, p)
  BY PagesExist
<1> HIDE DEF w
<1>2. 0 \in S BY <1>1
<1>3. ASSUME NEW p \in Nat, p \in S PROVE p + 1 \in S
  <2> SUFFICES ASSUME p + 1 <= MetaPages PROVE Started(w[p + 1], s, f, A, name, p + 1)
    OBVIOUS
  <2>1. p + 1 \in 1 .. MetaPages /\ (p + 1) - 1 = p BY Sizes
  <2>2. Started(w[p], s, f, A, name, p) BY <1>3, <2>1, Sizes
  <2>3. w[p + 1] = NextPage(w[p], f, name, p + 1) BY <2>1, <1>1
  <2>4. Started(w[p], s, f, A, name, (p + 1) - 1) BY <2>1, <2>2
  <2>5. Started(NextPage(w[p], f, name, p + 1), s, f, A, name, p + 1)
    BY <2>1, <2>4, NextPageStarted
  <2> QED BY <2>3, <2>5
<1> HIDE DEF S
<1>4. Nat \subseteq S BY <1>2, <1>3, NatInduct
<1>5. MetaPages \in S BY <1>4, Sizes
<1> QED BY <1>5, Sizes DEF S, w

(* Creating a file makes it, or leaves the volume with the file gone. *)
LEMMA CreateJournal ==
    ASSUME ~ReplaceWindow, NEW s, Good(s), NEW f \in Files, s.size[f] = -1, NEW name \in Names,
           NEW A, Gone \in A, \A m \in 0 .. MetaPages : Made(name, m) \in A
    PROVE  /\ Journal(Create(s, f, name), s, f, A)
           /\ Headed(s.flash, "bad") \subseteq Headed(Last(Create(s, f, name)).flash, "bad")
           /\ \/ /\ Last(Create(s, f, name)).size[f] = -1
                 /\ Contents(Last(Create(s, f, name)), f) = Gone
              \/ /\ Last(Create(s, f, name)).size[f] = MetaPages
                 /\ Contents(Last(Create(s, f, name)), f) = Made(name, MetaPages)
<1>1. Contents(s, f) = Gone BY GoodNoFile
<1>2. Create(s, f, name)
        = IF Len(AllocBlock(s, f)) = 1 THEN AllocBlock(s, f)
               ELSE IF Last(Pages(Start(s, f), f, name)[MetaPages]).size[f] = MetaPages
                    THEN Pages(Start(s, f), f, name)[MetaPages]
                    ELSE Then(Pages(Start(s, f), f, name)[MetaPages],
                              Deleting(Last(Pages(Start(s, f), f, name)[MetaPages]), f))
  BY CreateCases
<1>3. CASE s.free = <<>>
  <2>1. AllocBlock(s, f) = <<s>> /\ Len(<<s>>) = 1 BY <1>3 DEF AllocBlock
  <2>2. Create(s, f, name) = <<s>> BY <2>1, <1>2
  <2>3. Journal(<<s>>, s, f, A) /\ Last(<<s>>) = s BY <1>1, JournalStays
  <2> QED BY <2>2, <2>3, <1>1
<1>4. CASE s.free # <<>>
  <2> DEFINE w == Pages(Start(s, f), f, name)[MetaPages]
             t == Last(w)
             D == Deleting(t, f)
  <2>1. Started(Start(s, f), s, f, A, name, 0) /\ Len(AllocBlock(s, f)) = 4
    BY <1>4, StartStarted
  <2>2. Started(w, s, f, A, name, MetaPages) BY <2>1, PagesStarted
  <2> HIDE DEF w
  <2>3. /\ Journal(w, s, f, A) /\ t.size[f] \in 0 .. MetaPages /\ Good(t)
        /\ Contents(t, f) = Made(name, t.size[f])
        /\ Headed(s.flash, "bad") \subseteq Headed(t.flash, "bad")
    BY <2>2 DEF Started, Journal
  <2>4. CASE t.size[f] = MetaPages
    <3>1. Create(s, f, name) = w BY <2>1, <2>4, <1>2 DEF w
    <3> QED BY <3>1, <2>3, <2>4
  <2>5. CASE t.size[f] # MetaPages
    <3>1. Create(s, f, name) = Then(w, D) BY <2>1, <2>5, <1>2 DEF w
    <3>2. t.size[f] # -1 /\ Contents(t, f) \in A BY <2>3
    <3>3. /\ Journal(D, t, f, A) /\ Contents(Last(D), f) = Gone /\ Last(D).size[f] = -1
          /\ Headed(t.flash, "bad") \subseteq Headed(Last(D).flash, "bad")
      BY <3>2, <2>3, DeletingJournal
    <3> HIDE DEF D
    <3>4. Journal(Then(w, D), s, f, A \cup A) /\ Last(Then(w, D)) = Last(D)
      BY <2>3, <3>3, JournalThen
    <3>5. A \cup A = A OBVIOUS
    <3> QED BY <3>1, <3>3, <3>4, <3>5, <2>3
  <2> QED BY <2>4, <2>5
<1> QED BY <1>3, <1>4

-----------------------------------------------------------------------------
(* Mounting: the blocks                                                      *)

(* What the turns of the loop over the files keep: rest are the blocks that the mount has
   marked dirty so far, and wherever it is cut short every file is one of its A. *)
Prefix(seq, n) == Range(SubSeq(seq, 1, n))

Marking(flash, rest, A) ==
    \A n \in 0 .. Len(rest) : \A f \in Files : Off(Marked(flash, Prefix(rest, n)), f, A[f])

Mounting(s, flash, A, done) ==
    /\ Partly(s, done)
    /\ \E rest \in Seq(Blocks) :
         /\ s.dirty = Ascending(Headed(flash, "bad")) \o rest
         /\ s.flash = Marked(flash, Range(rest))
         /\ Marking(flash, rest, A)

LEMMA PrefixMarks ==
    ASSUME NEW seq \in Seq(Blocks)
    PROVE  /\ Len(seq) \in Nat
           /\ \A n \in 0 .. Len(seq) : Prefix(seq, n) = {seq[k] : k \in 1 .. n}
           /\ Prefix(seq, Len(seq)) = Range(seq)
<1>0. DOMAIN seq = 1 .. Len(seq) BY LenProperties
<1>1. Len(seq) \in Nat /\ DOMAIN seq = 1 .. Len(seq) BY <1>0
<1>2. ASSUME NEW n \in 0 .. Len(seq) PROVE Prefix(seq, n) = {seq[k] : k \in 1 .. n}
  <2> DEFINE x == SubSeq(seq, 1, n)
  <2>1. \A k \in 1 .. n : seq[k] \in Blocks BY <1>1, ElementOfSeq
  <2>2. x \in Seq(Blocks) /\ Len(x) = n /\ \A k \in 1 .. n : x[k] = seq[k]
    BY <2>1, <1>1, SubSeqProperties
  <2> HIDE DEF x
  <2>3. DOMAIN x = 1 .. n BY <2>2, LenProperties
  <2>4. Range(x) = {seq[k] : k \in 1 .. n} BY <2>2, <2>3 DEF Range
  <2> QED BY <2>4 DEF Prefix, x
<1>3. Len(seq) \in 0 .. Len(seq) BY <1>1
<1>4. Prefix(seq, Len(seq)) = Range(seq) BY <1>1, <1>2, <1>3 DEF Range
<1> QED BY <1>1, <1>2, <1>4

LEMMA UncleanIs ==
    ASSUME NEW flash, FlashOk(flash)
    PROVE  Unclean(flash) = Headed(flash, "garbled")
<1> DEFINE G == Headed(flash, "garbled")
<1>1. Unclean(flash) = IF G = {} THEN {} ELSE {Min(G)} BY DEF Unclean, Headed
<1>2. \A b, c \in G : b = c BY DEF Headed, FlashOk
<1>3. G \in SUBSET Nat BY Sizes DEF Headed, Blocks
<1> HIDE DEF G
<1>4. ASSUME G # {} PROVE Unclean(flash) = G
  <2>1. Min(G) \in G BY <1>3, <1>4, MinIn
  <2>2. G = {Min(G)} BY <2>1, <1>2
  <2> QED BY <2>2, <1>1, <1>4
<1> QED BY <1>1, <1>4 DEF G

(* ffs_block_v_init *)
LEMMA ScanBlocksMounting ==
    ASSUME NEW flash, FlashOk(flash), NEW A, \A f \in Files : Off(flash, f, A[f])
    PROVE  Mounting(ScanBlocks(flash), flash, A, {})
<1> DEFINE s == ScanBlocks(flash)
           G == Headed(flash, "garbled")
           bad == Headed(flash, "bad")
           erased == Headed(flash, "erased")
           rest == Ascending(G)
<1>1. flash \in [Blocks -> Block] /\ \A b \in Blocks : flash[b] \in Block BY FlashType
<1>2. Unclean(flash) = G BY UncleanIs
<1>3. {b \in Blocks : flash[b].hdr \in {"erased", "garbled"}} \ G = erased BY DEF Headed
<1>4. /\ s.mode = "on" /\ s.flash = Marked(flash, G) /\ s.free = Ascending(erased)
      /\ s.dirty = Ascending(bad) \o rest
      /\ s.list = [f \in Files |-> Ascending(ValidOf(flash, f))]
      /\ s.size = [f \in Files |-> -1]
  BY <1>2, <1>3 DEF ScanBlocks, Headed, Marked, ValidOf
<1>5. s = [mode |-> s.mode, flash |-> s.flash, free |-> s.free, dirty |-> s.dirty,
           list |-> s.list, size |-> s.size]
  BY DEF ScanBlocks
<1> HIDE DEF s
<1>6. /\ Enumerates(Ascending(erased), erased) /\ Enumerates(Ascending(bad), bad)
      /\ Enumerates(rest, G)
      /\ \A f \in Files : Enumerates(Ascending(ValidOf(flash, f)), ValidOf(flash, f))
  <2>1. erased \in SUBSET Blocks /\ bad \in SUBSET Blocks /\ G \in SUBSET Blocks
        /\ \A f \in Files : ValidOf(flash, f) \in SUBSET Blocks
    BY DEF Headed, ValidOf
  <2> QED BY <2>1, AscendingEnumerates
<1>7. FlashOk(Marked(flash, G)) BY MarkedOk
<1>8. G \cap bad = {} /\ G \cap erased = {} /\ \A f : G \cap ValidOf(flash, f) = {}
  BY DEF Headed, ValidOf
<1>9. /\ Headed(s.flash, "garbled") = {} /\ Headed(s.flash, "erased") = erased
      /\ Headed(s.flash, "bad") = bad \cup G
      /\ \A f \in Files : ValidOf(s.flash, f) = ValidOf(flash, f)
  <2>1. Blank("bad").hdr = "bad" BY BlockType
  <2> QED BY <2>1, <1>4 DEF Headed, Marked, ValidOf
<1>10. Enumerates(s.dirty, Headed(s.flash, "bad"))
  <2> HIDE DEF rest, G, bad
  <2> QED BY <1>4, <1>6, <1>8, <1>9, EnumeratesBoth
<1>11. s \in State
  <2>1. s.dirty \in Seq(Blocks) /\ s.free \in Seq(Blocks) BY <1>4, <1>6, <1>10 DEF Enumerates
  <2>2. s.list \in [Files -> Seq(Blocks)] BY <1>4, <1>6 DEF Enumerates
  <2>3. s.size \in [Files -> -1 .. MaxPages] BY <1>4, Sizes
  <2>4. s.flash \in [Blocks -> Block] BY <1>4, <1>7 DEF FlashOk
  <2> QED BY <1>4, <1>5, <2>1, <2>2, <2>3, <2>4 DEF State
<1>12. Volume(s) BY <1>4, <1>6, <1>7, <1>9, <1>10, <1>11 DEF Volume
<1>13. \A f \in Files \ {} : s.size[f] = -1 /\ Enumerates(s.list[f], ValidOf(s.flash, f))
  BY <1>4, <1>6, <1>9
<1>14. Partly(s, {}) BY <1>12, <1>13 DEF Partly
<1>15. rest \in Seq(Blocks) /\ Range(rest) = G BY <1>6 DEF Enumerates
<1>16. Marking(flash, rest, A)
  <2> SUFFICES ASSUME NEW n \in 0 .. Len(rest), NEW f \in Files
               PROVE  Off(Marked(flash, Prefix(rest, n)), f, A[f])
    BY DEF Marking
  <2> DEFINE S == Prefix(rest, n)
  <2>1. S \subseteq G
    <3> HIDE DEF rest, G
    <3>1. S = {rest[k] : k \in 1 .. n} /\ Len(rest) \in Nat BY <1>15, PrefixMarks
    <3>1a. DOMAIN rest = 1 .. Len(rest) BY <1>15, LenProperties
    <3>2. \A k \in 1 .. n : rest[k] \in Range(rest) BY <3>1, <3>1a DEF Range
    <3> QED BY <3>1, <3>2, <1>15
  <2>2. S \cap ValidOf(flash, f) = {} BY <2>1, <1>8
  <2>3. Off(flash, f, A[f]) OBVIOUS
  <2> HIDE DEF S
  <2>4. Off(Marked(flash, S), f, A[f]) BY <2>2, <2>3, MarkedOff
  <2> QED BY <2>4 DEF S
<1>17. s.flash = Marked(flash, Range(rest)) BY <1>4, <1>15
<1>18. Mounting(s, flash, A, {}) BY <1>4, <1>14, <1>15, <1>16, <1>17 DEF Mounting
<1> QED BY <1>18 DEF s

-----------------------------------------------------------------------------
(* Mounting: the pages of a file                                             *)

(* A file has one shape. *)
LEMMA ShapeUnique ==
    ASSUME NEW flash, FlashOk(flash), NEW f, NEW n \in 1 .. NBlocks, NEW size \in Nat,
           NEW n2 \in 1 .. NBlocks, NEW size2 \in Nat,
           Shape(flash, f, n, size), Shape(flash, f, n2, size2)
    PROVE  n = n2 /\ size = size2
<1>1. n \in Nat /\ n2 \in Nat /\ n - 1 \in 0 .. n - 1 /\ n2 - 1 \in 0 .. n2 - 1 BY Sizes
<1>2. n - 1 < n2 /\ n2 - 1 < n
  <2>1. PICK b \in ValidOf(flash, f) : flash[b].blk = n - 1 BY <1>1 DEF Shape
  <2>2. PICK c \in ValidOf(flash, f) : flash[c].blk = n2 - 1 BY <1>1 DEF Shape
  <2>3. flash[b].blk < n2 /\ flash[c].blk < n BY DEF Shape
  <2> QED BY <2>1, <2>2, <2>3
<1>3. n = n2 BY <1>1, <1>2
<1> DEFINE start == (n - 1) * DataPages
<1>4. start \in Nat /\ n * DataPages = start + DataPages BY <1>1, Sizes
<1>5. InBlock(size, n - 1) = InBlock(size2, n - 1)
  <2>1. PICK b \in ValidOf(flash, f) : flash[b].blk = n - 1 BY <1>1 DEF Shape
  <2> QED BY <2>1, <1>3 DEF Shape
<1>6. start <= size /\ start <= size2 /\ size <= start + DataPages /\ size2 <= start + DataPages
  <2>1. /\ (n - 1) * DataPages <= size /\ size <= n * DataPages
        /\ (n - 1) * DataPages <= size2 /\ size2 <= n * DataPages
    BY <1>3 DEF Shape
  <2> QED BY <2>1, <1>4
<1>7. /\ InBlock(size, n - 1) = {i \in 0 .. DataPages - 1 : start + i < size}
      /\ InBlock(size2, n - 1) = {i \in 0 .. DataPages - 1 : start + i < size2}
  BY DEF InBlock
<1> HIDE DEF start
<1>8. ASSUME size < size2 PROVE FALSE
  <2>1. size - start \in 0 .. DataPages - 1 /\ start + (size - start) = size
    BY <1>4, <1>6, <1>8, Sizes
  <2>2. size - start \in InBlock(size2, n - 1) BY <2>1, <1>7, <1>8
  <2>3. size - start \notin InBlock(size, n - 1) BY <2>1, <1>7
  <2> QED BY <2>2, <2>3, <1>5
<1>9. ASSUME size2 < size PROVE FALSE
  <2>1. size2 - start \in 0 .. DataPages - 1 /\ start + (size2 - start) = size2
    BY <1>4, <1>6, <1>9, Sizes
  <2>2. size2 - start \in InBlock(size, n - 1) BY <2>1, <1>7, <1>9
  <2>3. size2 - start \notin InBlock(size2, n - 1) BY <2>1, <1>7
  <2> QED BY <2>2, <2>3, <1>5
<1> QED BY <1>3, <1>8, <1>9

(* What a mount finds of a mounted file is what its users read. *)
LEMMA GoodOffContents ==
    ASSUME NEW s, Good(s), NEW f \in Files, NEW A, Off(s.flash, f, A)
    PROVE  Contents(s, f) \in A
<1>1. FlashOk(s.flash) BY DEF Good, Volume
<1>2. CASE s.size[f] = -1
  <2>1. ValidOf(s.flash, f) = {} /\ Contents(s, f) = Gone BY <1>2, GoodNoFile
  <2>2. \A n \in 1 .. NBlocks, size \in 0 .. MaxPages : ~Shape(s.flash, f, n, size)
    <3> SUFFICES ASSUME NEW n \in 1 .. NBlocks, NEW size \in 0 .. MaxPages,
                        Shape(s.flash, f, n, size)
                 PROVE  FALSE
      OBVIOUS
    <3>1. 0 \in 0 .. n - 1 OBVIOUS
    <3> QED BY <3>1, <2>1 DEF Shape
  <2> QED BY <2>1, <2>2 DEF Off
<1>3. CASE s.size[f] # -1
  <2> DEFINE n == Len(s.list[f])
             size == s.size[f]
  <2>1. /\ size \in 0 .. MaxPages /\ n \in 1 .. NBlocks
        /\ Shape(s.flash, f, n, size) /\ Whole(s.flash, f)
    BY <1>3, GoodFile
  <2>2. Contents(s, f) = Text(s.flash, f, size) BY <1>3, GoodContents
  <2> HIDE DEF n, size
  <2>3. size \in Nat /\ 0 \in 0 .. n - 1 BY <2>1, Sizes
  <2>4. \E b \in ValidOf(s.flash, f) : s.flash[b].blk = 0 BY <2>1, <2>3 DEF Shape
  <2>5. PICK n2 \in 1 .. NBlocks, size2 \in 0 .. MaxPages :
          Shape(s.flash, f, n2, size2) /\ Text(s.flash, f, size2) \in A
    BY <2>1, <2>4 DEF Off
  <2>6. size2 \in Nat BY Sizes
  <2>7. size = size2 BY <2>1, <2>3, <2>5, <2>6, <1>1, ShapeUnique
  <2> QED BY <2>2, <2>5, <2>7
<1> QED BY <1>2, <1>3

(* The highest page in a block. *)
High(block) == Max({block.log[i][1] : i \in DOMAIN block.log} \cup {-1})

LEMMA HighIs ==
    ASSUME NEW block \in Block, NEW size \in Nat, NEW m \in Nat, Indices(block) = InBlock(size, m)
    PROVE  /\ size <= m * DataPages => High(block) = -1
           /\ m * DataPages < size /\ size <= m * DataPages + DataPages
                => High(block) = size - 1 - m * DataPages
<1> DEFINE start == m * DataPages
           I == InBlock(size, m)
           T == I \cup {-1}
<1>1. start \in Nat BY Sizes
<1>2. I = {i \in 0 .. DataPages - 1 : start + i < size} BY DEF InBlock
<1>3. High(block) = Max(T) BY DEF High, Indices
<1>4. T \in SUBSET (-1 .. DataPages) /\ T # {} BY <1>2, Sizes
<1>5. Max(T) \in T /\ \A i \in T : i <= Max(T)
  <2> HIDE DEF T
  <2> QED BY <1>4, Sizes, MaxIn
<1> HIDE DEF start, I
<1>6. ASSUME size <= start PROVE Max(T) = -1
  <2>1. I = {} BY <1>1, <1>2, <1>6
  <2> QED BY <2>1, <1>5
<1>7. ASSUME start < size, size <= start + DataPages PROVE Max(T) = size - 1 - start
  <2> DEFINE top == size - 1 - start
  <2>1. top \in 0 .. DataPages - 1 /\ start + top < size /\ start + top = size - 1
    BY <1>1, <1>7, Sizes
  <2>2. top \in T BY <2>1, <1>2
  <2>3. \A i \in T : i <= top
    <3>1. \A i \in I : i <= top BY <2>1, <1>1, <1>2
    <3>2. -1 <= top BY <2>1
    <3> QED BY <3>1, <3>2
  <2> HIDE DEF T, top
  <2>4. Max(T) <= top /\ top <= Max(T) BY <2>2, <2>3, <1>5
  <2>5. Max(T) \in -1 .. DataPages /\ top \in Int
    <3>1. Max(T) \in -1 .. DataPages BY <1>4, <1>5
    <3>2. top \in Int BY <2>1
    <3> QED BY <3>1, <3>2
  <2>6. Max(T) = top BY <2>4, <2>5
  <2> QED BY <2>6 DEF top
<1> HIDE DEF T
<1>8. size <= start => High(block) = -1 BY <1>3, <1>6
<1>9. start < size /\ size <= start + DataPages => High(block) = size - 1 - start
  BY <1>3, <1>7
<1> QED BY <1>8, <1>9 DEF start

(* The list of a file has its blocks in their order. *)
Listed(s, f, n, size) ==
    /\ FlashOk(s.flash)
    /\ Shape(s.flash, f, n, size)
    /\ s.list[f] = [k \in 1 .. n |-> At(s.flash, f, k - 1)]

LEMMA ListedBlocks ==
    ASSUME NEW s, NEW f, NEW n \in Nat, NEW size \in Nat, Listed(s, f, n, size)
    PROVE  /\ Enumerates(s.list[f], ValidOf(s.flash, f)) /\ Len(s.list[f]) = n
           /\ \A k \in 1 .. n : /\ s.list[f][k] = At(s.flash, f, k - 1)
                                /\ s.list[f][k] \in ValidOf(s.flash, f)
                                /\ s.flash[s.list[f][k]] \in Block
                                /\ Indices(s.flash[s.list[f][k]]) = InBlock(size, k - 1)
<1> DEFINE flash == s.flash
           list == s.list[f]
<1>1. FlashOk(flash) /\ Shape(flash, f, n, size) /\ list = [k \in 1 .. n |-> At(flash, f, k - 1)]
  BY DEF Listed
<1> HIDE DEF flash, list
<1>2. ASSUME NEW k \in 1 .. n
      PROVE  list[k] = At(flash, f, k - 1) /\ list[k] \in ValidOf(flash, f) /\ flash[list[k]].blk = k - 1
             /\ list[k] \in Blocks
  <2>1. k - 1 \in 0 .. n - 1 OBVIOUS
  <2>2. list[k] = At(flash, f, k - 1) BY <1>1
  <2>3. At(flash, f, k - 1) \in ValidOf(flash, f) /\ flash[At(flash, f, k - 1)].blk = k - 1
    BY <2>1, <1>1, AtBlock
  <2> QED BY <2>2, <2>3, <1>1, FlashType
<1>3. list \in Seq(Blocks) /\ Len(list) = n
  <2>1. list \in [1 .. n -> Blocks] BY <1>1, <1>2
  <2>2. DOMAIN list = 1 .. n BY <1>1
  <2> QED BY <2>1, <2>2, LenProperties
<1>4. ASSUME NEW b \in ValidOf(flash, f) PROVE \E i \in 1 .. Len(list) : list[i] = b
  <2>1. flash[b].blk \in Nat BY <1>1, FlashType
  <2>2. flash[b].blk < n BY <1>1 DEF Shape
  <2>3. flash[b].blk + 1 \in 1 .. n /\ (flash[b].blk + 1) - 1 = flash[b].blk BY <2>1, <2>2
  <2>4. At(flash, f, flash[b].blk) = b BY <1>1, AtNumber
  <2>5. list[flash[b].blk + 1] = b BY <2>3, <2>4, <1>2
  <2> QED BY <2>3, <2>5, <1>3
<1>5. \A i, j \in 1 .. Len(list) : list[i] = list[j] => i = j
  <2> TAKE i, j \in 1 .. Len(list)
  <2> HAVE list[i] = list[j]
  <2>1. i \in 1 .. n /\ j \in 1 .. n BY <1>3
  <2>2. i - 1 = j - 1 BY <2>1, <1>2
  <2> QED BY <2>1, <2>2
<1>6. \A i \in 1 .. Len(list) : list[i] \in ValidOf(flash, f) BY <1>2, <1>3
<1>7. Enumerates(list, ValidOf(flash, f)) BY <1>3, <1>4, <1>5, <1>6, EnumeratesBy
<1>8. \A k \in 1 .. n : flash[list[k]] \in Block /\ Indices(flash[list[k]]) = InBlock(size, k - 1)
  <2> TAKE k \in 1 .. n
  <2>1. list[k] \in ValidOf(flash, f) /\ flash[list[k]].blk = k - 1 BY <1>2
  <2>2. flash[list[k]] \in Block BY <2>1, <1>1, FlashType
  <2> QED BY <2>1, <2>2, <1>1 DEF Shape
<1> QED BY <1>2, <1>3, <1>7, <1>8 DEF flash, list

(* ffs_page_i8_read *)
LEMMA ReadableIs ==
    ASSUME NEW s, NEW f, NEW n \in Nat, NEW size \in Nat, Listed(s, f, n, size),
           NEW p \in 0 .. size - 1
    PROVE  IsReadable(s, f, p) <=> /\ ~s.flash[At(s.flash, f, p \div DataPages)].torn
                                   /\ PageAt(s.flash, f, p) # "bad"
<1> DEFINE m == p \div DataPages
           i == p % DataPages
           b == At(s.flash, f, m)
<1>1. FlashOk(s.flash) /\ Shape(s.flash, f, n, size) BY DEF Listed
<1>2. /\ m \in 0 .. n - 1 /\ b \in ValidOf(s.flash, f)
      /\ i \in Indices(s.flash[b])
  BY <1>1, PageOf
<1>3. p \in Nat /\ i \in 0 .. DataPages - 1 BY DivMod
<1>4. PageAt(s.flash, f, p) = Held(s.flash[b], i) BY DEF PageAt
<1>5. PageIndex(p) = i BY DEF PageIndex
<1>6. BlockOf(s, f, p) = s.flash[s.list[f][m + 1]] BY DEF BlockOf
<1>7. IsReadable(s, f, p) <=> /\ m < Len(s.list[f])
                              /\ ~BlockOf(s, f, p).torn
                              /\ Place(BlockOf(s, f, p), i) # 0
                              /\ BlockOf(s, f, p).log[Place(BlockOf(s, f, p), i)][2] # "bad"
  BY <1>5 DEF IsReadable
<1> HIDE DEF m, i
<1>8. s.list[f][m + 1] = b /\ m < Len(s.list[f])
  <2>1. m + 1 \in 1 .. n /\ (m + 1) - 1 = m BY <1>2
  <2>2. s.list[f][m + 1] = At(s.flash, f, (m + 1) - 1) /\ Len(s.list[f]) = n
    BY <2>1, ListedBlocks
  <2> QED BY <2>1, <2>2
<1> HIDE DEF b
<1>9. s.flash[b] \in Block BY <1>1, <1>2, FlashType
<1>10. Place(s.flash[b], i) # 0 BY <1>2, <1>3, <1>9, PlaceOf
<1> QED BY <1>4, <1>6, <1>7, <1>8, <1>10 DEF Held, b, m

(* All of a file is readable if it is whole; and if the scan finds its pages and its last
   block good, it is. *)
LEMMA WholeIs ==
    ASSUME NEW s, NEW f, NEW n \in 1 .. NBlocks, NEW size \in Nat, Listed(s, f, n, size)
    PROVE  Whole(s.flash, f) <=> /\ ~s.flash[At(s.flash, f, n - 1)].torn
                                 /\ \A p \in 0 .. size - 1 : IsReadable(s, f, p)
<1> DEFINE flash == s.flash
<1>1. FlashOk(flash) /\ Shape(flash, f, n, size) /\ n \in Nat BY Sizes DEF Listed
<1>2. ASSUME Whole(flash, f) PROVE ~flash[At(flash, f, n - 1)].torn
  <2>1. n - 1 \in 0 .. n - 1 BY <1>1
  <2>2. At(flash, f, n - 1) \in ValidOf(flash, f) BY <2>1, <1>1, AtBlock
  <2> QED BY <2>2, <1>2 DEF Whole
<1>3. ASSUME Whole(flash, f), NEW p \in 0 .. size - 1 PROVE IsReadable(s, f, p)
  <2>1. /\ At(flash, f, p \div DataPages) \in ValidOf(flash, f)
        /\ p % DataPages \in Indices(flash[At(flash, f, p \div DataPages)])
    BY <1>1, PageOf
  <2>2. PageAt(flash, f, p) # "bad" BY <2>1, <1>3 DEF Whole, PageAt
  <2>3. ~flash[At(flash, f, p \div DataPages)].torn BY <2>1, <1>3 DEF Whole
  <2> QED BY <2>2, <2>3, <1>1, ReadableIs
<1>4. ASSUME ~flash[At(flash, f, n - 1)].torn, \A p \in 0 .. size - 1 : IsReadable(s, f, p),
             NEW b \in ValidOf(flash, f)
      PROVE  ~flash[b].torn /\ \A i \in Indices(flash[b]) : Held(flash[b], i) # "bad"
  <2> DEFINE m == flash[b].blk
  <2>1. m \in Nat /\ At(flash, f, m) = b BY <1>1, FlashType, AtNumber
  <2>2. m < n /\ Indices(flash[b]) = InBlock(size, m) BY <1>1 DEF Shape
  <2> HIDE DEF m
  <2>3. ASSUME NEW i \in InBlock(size, m)
        PROVE  ~flash[b].torn /\ Held(flash[b], i) # "bad"
    <3> DEFINE p == m * DataPages + i
    <3>1. i \in 0 .. DataPages - 1 /\ p < size BY DEF InBlock
    <3>2. p \in Nat BY <3>1, <2>1, Sizes
    <3> HIDE DEF p
    <3>3. p \in 0 .. size - 1 BY <3>1, <3>2
    <3>4. p \div DataPages = m /\ p % DataPages = i BY <3>1, <3>2, <2>1, DivUnique DEF p
    <3>5. ~flash[At(flash, f, p \div DataPages)].torn /\ PageAt(flash, f, p) # "bad"
      BY <3>3, <1>1, <1>4, ReadableIs
    <3> QED BY <3>4, <3>5, <2>1 DEF PageAt
  <2>4. ~flash[b].torn
    <3>1. CASE m = n - 1 BY <3>1, <2>1, <1>4
    <3>2. CASE m # n - 1
      <4> DEFINE x == m * DataPages
                 y == (n - 1) * DataPages
      <4>1. m \in Int /\ n - 1 \in Int /\ m < n - 1 BY <3>2, <2>1, <2>2, <1>1
      <4>2. x + DataPages <= y BY <4>1, Multiples
      <4>3. y <= size BY <1>1 DEF Shape
      <4>4. x \in Int /\ y \in Int BY <4>1, Sizes
      <4> HIDE DEF x, y
      <4>5. x < size BY <4>2, <4>3, <4>4, Sizes
      <4>6. 0 \in InBlock(size, m) BY <4>5, <2>1, InBlockPages DEF x
      <4> QED BY <4>6, <2>3
    <3> QED BY <3>1, <3>2
  <2> QED BY <2>2, <2>3, <2>4
<1>5. ASSUME ~flash[At(flash, f, n - 1)].torn, \A p \in 0 .. size - 1 : IsReadable(s, f, p)
      PROVE  Whole(flash, f)
  BY <1>4, <1>5 DEF Whole
<1> QED BY <1>2, <1>3, <1>5

(* ffs_page_i32_scan_file_size finds the size of a file, or that it is not whole. *)
LEMMA ScanSizeIs ==
    ASSUME NEW s, NEW f, NEW n \in 1 .. NBlocks, NEW size \in Nat, Listed(s, f, n, size)
    PROVE  /\ ScanSize(s, f) \in {-1, size}
           /\ ScanSize(s, f) = size => ~s.flash[At(s.flash, f, n - 1)].torn
           /\ Whole(s.flash, f) => ScanSize(s, f) = size
<1> DEFINE flash == s.flash
           list == s.list[f]
           Top(k) == High(flash[list[k]])
           Bad(k) == flash[list[k]].torn
           x == n * DataPages
           y == (n - 1) * DataPages
           k == IF Top(n) < 0 /\ n > 1 THEN n - 1 ELSE n
           page == (k - 1) * DataPages + Top(k)
<1>1. n \in Nat /\ FlashOk(flash) /\ Shape(flash, f, n, size) BY Sizes DEF Listed
<1>2. /\ Len(list) = n
      /\ \A i \in 1 .. n : /\ list[i] = At(flash, f, i - 1) /\ list[i] \in ValidOf(flash, f)
                           /\ flash[list[i]] \in Block
                           /\ Indices(flash[list[i]]) = InBlock(size, i - 1)
  BY <1>1, ListedBlocks
<1>3. ScanSize(s, f) = IF Bad(n) \/ Bad(k) THEN -1
                       ELSE IF Top(k) < 0 THEN 0
                       ELSE IF IsReadable(s, f, page) THEN page + 1 ELSE -1
  BY <1>2 DEF ScanSize, High
<1>4. ASSUME NEW i \in 1 .. n
      PROVE  /\ size <= (i - 1) * DataPages => Top(i) = -1
             /\ (i - 1) * DataPages < size /\ size <= (i - 1) * DataPages + DataPages
                  => Top(i) = size - 1 - (i - 1) * DataPages
  <2>1. flash[list[i]] \in Block /\ Indices(flash[list[i]]) = InBlock(size, i - 1) BY <1>2
  <2>2. i - 1 \in Nat OBVIOUS
  <2> QED BY <2>1, <2>2, HighIs
<1>5. y <= size /\ size <= x /\ x = y + DataPages /\ y \in Nat /\ x \in Nat
  <2>1. y <= size /\ size <= x BY <1>1 DEF Shape
  <2>2. n - 1 \in Nat BY <1>1
  <2>3. y \in Nat /\ x = y + DataPages BY <1>1, <2>2, Sizes
  <2> QED BY <2>1, <2>3, Sizes
<1>6. n \in 1 .. n BY <1>1
<1>7. ~Bad(n) <=> ~flash[At(flash, f, n - 1)].torn BY <1>2, <1>6
<1>8. ASSUME Whole(flash, f), NEW i \in 1 .. n PROVE ~Bad(i)
  BY <1>2, <1>8 DEF Whole
<1>9. Whole(flash, f) => \A p \in 0 .. size - 1 : IsReadable(s, f, p) BY WholeIs
<1>10. CASE y < size
  <2>1. Top(n) = size - 1 - y
    <3>1. (n - 1) * DataPages < size /\ size <= (n - 1) * DataPages + DataPages BY <1>5, <1>10
    <3> QED BY <3>1, <1>4, <1>6
  <2> HIDE DEF y, Top
  <2>2. ~(Top(n) < 0) BY <2>1, <1>5, <1>10
  <2>3. k = n BY <2>2
  <2>4. page = size - 1
    <3>1. page = (n - 1) * DataPages + Top(n) BY <2>3
    <3>2. page = y + Top(n) BY <3>1 DEF y
    <3> HIDE DEF page
    <3> QED BY <3>2, <2>1, <1>5
  <2> HIDE DEF page, k
  <2>5. ScanSize(s, f) = IF Bad(n) THEN -1 ELSE IF IsReadable(s, f, page) THEN page + 1 ELSE -1
    BY <2>2, <2>3, <1>3
  <2>6. page + 1 = size /\ page \in 0 .. size - 1 BY <2>4, <1>5, <1>10
  <2> QED BY <2>5, <2>6, <1>6, <1>7, <1>8, <1>9
<1>11. CASE y = size
  <2>1. Top(n) = -1
    <3>1. size <= (n - 1) * DataPages BY <1>11
    <3> QED BY <3>1, <1>4, <1>6
  <2>2. CASE n = 1
    <3>1. y = 0 BY <2>2, Sizes
    <3>2. size = 0 BY <3>1, <1>11
    <3>3. k = n BY <2>2
    <3> HIDE DEF k, Top, page, y
    <3>4. ScanSize(s, f) = IF Bad(n) THEN -1 ELSE 0 BY <2>1, <3>3, <1>3
    <3> QED BY <3>2, <3>4, <1>6, <1>7, <1>8
  <2>3. CASE n # 1
    <3> DEFINE z == (n - 2) * DataPages
    <3>1. n - 1 \in 1 .. n /\ n > 1 /\ (n - 1) - 1 = n - 2 /\ n - 2 \in Nat BY <2>3, <1>1
    <3>2. z \in Nat /\ y = z + DataPages BY <3>1, Sizes
    <3>3. z < size /\ size <= z + DataPages
      <4> HIDE DEF y, z
      <4> QED BY <3>2, <1>11, Sizes
    <3>4. Top(n - 1) = size - 1 - z
      <4>1. (n - 1) - 1 = n - 2 BY <3>1
      <4>2. ((n - 1) - 1) * DataPages = z BY <4>1
      <4>3. /\ ((n - 1) - 1) * DataPages < size
            /\ size <= ((n - 1) - 1) * DataPages + DataPages
        BY <3>3, <4>2
      <4>4. Top(n - 1) = size - 1 - ((n - 1) - 1) * DataPages BY <4>3, <3>1, <1>4
      <4> QED BY <4>2, <4>4
    <3>5. k = n - 1 BY <2>1, <3>1
    <3>6. page = size - 1
      <4>1. page = (n - 1 - 1) * DataPages + Top(n - 1) BY <3>5
      <4>2. n - 1 - 1 = n - 2 BY <3>1
      <4>3. page = z + Top(n - 1) BY <4>1, <4>2
      <4> HIDE DEF page, z, Top
      <4> QED BY <4>3, <3>2, <3>4
    <3>7. ~(Top(n - 1) < 0)
      <4> HIDE DEF z, Top
      <4> QED BY <3>2, <3>3, <3>4
    <3> HIDE DEF page, k, Top, y, z
    <3>8. ScanSize(s, f) = IF Bad(n) \/ Bad(n - 1) THEN -1
                           ELSE IF IsReadable(s, f, page) THEN page + 1 ELSE -1
      BY <3>5, <3>7, <1>3
    <3>9. page + 1 = size /\ page \in 0 .. size - 1 BY <3>2, <3>3, <3>6
    <3> QED BY <3>1, <3>8, <3>9, <1>6, <1>7, <1>8, <1>9
  <2> QED BY <2>2, <2>3
<1> HIDE DEF x, y
<1>12. y < size \/ y = size BY <1>5
<1> QED BY <1>10, <1>11, <1>12

(* ffs_page_i8_file_scan *)
LEMMA ScanOkIs ==
    ASSUME NEW s, NEW f, NEW n \in 1 .. NBlocks, NEW size \in Nat, Listed(s, f, n, size),
           s.size[f] = size
    PROVE  ScanOk(s, f) <=> \A p \in 0 .. size - 1 : IsReadable(s, f, p)
<1>1. CASE size # 0 BY <1>1 DEF ScanOk
<1>2. CASE size = 0
  <2>1. n \in Nat /\ FlashOk(s.flash) /\ 1 \in 1 .. n /\ 1 - 1 = 0 BY Sizes DEF Listed
  <2>2. s.flash[s.list[f][1]] \in Block /\ Indices(s.flash[s.list[f][1]]) = InBlock(size, 0)
    BY <2>1, ListedBlocks
  <2>3. InBlock(size, 0) = {} BY <1>2, Sizes DEF InBlock
  <2>4. 0 \in Nat /\ 0 \in 0 .. DataPages - 1 BY Sizes
  <2>5. 0 \div DataPages = 0
    <3>1. 0 = 0 * DataPages + 0 BY Sizes
    <3> QED BY <3>1, <2>4, DivUnique
  <2>6. BlockOf(s, f, 0) = s.flash[s.list[f][1]] BY <2>5 DEF BlockOf
  <2>7. Place(BlockOf(s, f, 0), 0) = 0 BY <2>2, <2>3, <2>4, <2>6, PlaceOf
  <2> QED BY <1>2, <2>7 DEF ScanOk
<1> QED BY <1>1, <1>2

-----------------------------------------------------------------------------
(* Mounting: a file                                                          *)

LEMMA NoDuplicate ==
    ASSUME NEW flash, FlashOk(flash), NEW f, NEW list, Enumerates(list, ValidOf(flash, f))
    PROVE  /\ Duplicate(flash, list) = Len(list) + 1
           /\ SubSeq(list, 1, Len(list)) = list
           /\ ~(Duplicate(flash, list) <= Len(list))
<1>1. /\ list \in Seq(Blocks) /\ Len(list) \in Nat /\ DOMAIN list = 1 .. Len(list)
      /\ \A i \in 1 .. Len(list) : list[i] \in ValidOf(flash, f)
      /\ \A i, j \in 1 .. Len(list) : list[i] = list[j] => i = j
  BY EnumeratesMember
<1>2. \A b, c \in ValidOf(flash, f) : flash[b].blk = flash[c].blk => b = c
  BY DEF FlashOk, ValidOf
<1>3. {k \in DOMAIN list : \E j \in 1 .. k - 1 : flash[list[j]].blk = flash[list[k]].blk} = {}
  <2> SUFFICES ASSUME NEW k \in DOMAIN list, NEW j \in 1 .. k - 1,
                      flash[list[j]].blk = flash[list[k]].blk
               PROVE  FALSE
    OBVIOUS
  <2>1. k \in 1 .. Len(list) /\ j \in 1 .. Len(list) /\ j # k BY <1>1
  <2>2. list[j] = list[k] BY <2>1, <1>1, <1>2
  <2> QED BY <2>1, <2>2, <1>1
<1> DEFINE S == {Len(list) + 1}
<1>4. Duplicate(flash, list) = Min(S) BY <1>3 DEF Duplicate
<1>5. Min(S) = Len(list) + 1
  <2>1. S \in SUBSET Nat /\ S # {} BY <1>1
  <2>2. Min(S) \in S
    <3> HIDE DEF S
    <3> QED BY <2>1, MinIn
  <2> QED BY <2>2
<1> HIDE DEF S
<1>6. SubSeq(list, 1, Len(list)) = list
  <2> DEFINE x == SubSeq(list, 1, Len(list))
             n == Len(list)
  <2>1. \A i \in 1 .. n : list[i] \in Blocks BY <1>1, ElementOfSeq
  <2>2. x \in Seq(Blocks) /\ Len(x) = n /\ \A i \in 1 .. n : x[i] = list[i]
    BY <2>1, <1>1, SubSeqProperties
  <2> HIDE DEF x
  <2>3. x = list BY <2>2, <1>1, SeqEqual
  <2> QED BY <2>3 DEF x
<1> QED BY <1>1, <1>4, <1>5, <1>6

(* The file with its blocks in order, and with the size that the scan finds. *)
Rebuilt(s, f) == [s EXCEPT !.list[f] = InFileOrder(s.flash, s.list[f])]
Sized(s, f) == [Rebuilt(s, f) EXCEPT !.size[f] = ScanSize(Rebuilt(s, f), f)]

LEMMA MountFileCases ==
    ASSUME NEW s, Volume(s), NEW f \in Files, Enumerates(s.list[f], ValidOf(s.flash, f))
    PROVE  MountFile(s, f)
             = IF s.list[f] = <<>> THEN s
               ELSE IF {s.flash[b].blk : b \in ValidOf(s.flash, f)} # 0 .. Len(s.list[f]) - 1
                    THEN Trashed(s, f)
               ELSE IF Sized(s, f).size[f] < 0 \/ ~ScanOk(Sized(s, f), f) THEN Trashed(Sized(s, f), f)
               ELSE Sized(s, f)
<1> DEFINE list == s.list[f]
           k == Duplicate(s.flash, list)
           kept == SubSeq(list, 1, k - 1)
           numbers == {s.flash[b].blk : b \in Range(kept)}
           gap == numbers # 0 .. Len(kept) - 1
           clean == IF k > Len(list) THEN s ELSE SetDirty(s, <<list[k]>>)
           rebuilt == [clean EXCEPT !.list[f] = InFileOrder(s.flash, kept)]
           sized == [rebuilt EXCEPT !.size[f] = ScanSize(rebuilt, f)]
<1>1. MountFile(s, f)
        = IF list = <<>> THEN s
          ELSE IF gap /\ k > Len(list) THEN Trashed(s, f)
          ELSE IF gap THEN [Trashed([clean EXCEPT !.list[f] = kept], f) EXCEPT !.mode = "hung"]
          ELSE IF sized.size[f] < 0 \/ ~ScanOk(sized, f) THEN Trashed(sized, f)
          ELSE sized
  BY DEF MountFile
<1>2. FlashOk(s.flash) BY DEF Volume
<1>3. /\ k = Len(list) + 1 /\ SubSeq(list, 1, Len(list)) = list
      /\ Len(list) \in Nat /\ Range(list) = ValidOf(s.flash, f)
  BY <1>2, NoDuplicate, EnumeratesMember DEF Enumerates
<1>4. k - 1 = Len(list) /\ k > Len(list)
  <2> HIDE DEF k, list
  <2> QED BY <1>3
<1>5. kept = list BY <1>3, <1>4
<1>6. clean = s BY <1>4
<1>7. gap <=> {s.flash[b].blk : b \in ValidOf(s.flash, f)} # 0 .. Len(list) - 1 BY <1>3, <1>5
<1>8. rebuilt = Rebuilt(s, f) BY <1>5, <1>6 DEF Rebuilt
<1>9. sized = Sized(s, f) BY <1>8 DEF Sized
<1> HIDE DEF k, kept, numbers, gap, clean, rebuilt, sized
<1> QED BY <1>1, <1>4, <1>7, <1>9

(* The scan changes only the list and the size of its file. *)
LEMMA SizedState ==
    ASSUME NEW s, Volume(s), NEW f \in Files, Enumerates(s.list[f], ValidOf(s.flash, f)),
           NEW n \in 1 .. NBlocks, NEW size \in 0 .. MaxPages, Shape(s.flash, f, n, size)
    PROVE  /\ Volume(Sized(s, f)) /\ Sized(s, f).flash = s.flash /\ Sized(s, f).dirty = s.dirty
           /\ Len(s.list[f]) = n
           /\ Listed(Sized(s, f), f, n, size)
           /\ Listed(Rebuilt(s, f), f, n, size) /\ Rebuilt(s, f).flash = s.flash
           /\ Sized(s, f).size[f] = ScanSize(Rebuilt(s, f), f)
           /\ \A g \in Files \ {f} : Alike(s, Sized(s, f), g)
<1> DEFINE flash == s.flash
           seq == [k \in 1 .. n |-> At(flash, f, k - 1)]
           r == Rebuilt(s, f)
           t == Sized(s, f)
           z == ScanSize(r, f)
<1>1. s \in State /\ FlashOk(flash) /\ n \in Nat /\ size \in Nat BY Sizes DEF Volume
<1>2. /\ s.flash \in [Blocks -> Block] /\ s.list \in [Files -> Seq(Blocks)]
      /\ s.size \in [Files -> -1 .. MaxPages]
  BY <1>1, StateType
<1>3. Enumerates(seq, ValidOf(flash, f)) /\ Len(seq) = n
  <2> DEFINE q == [flash |-> flash, list |-> [g \in {f} |-> seq]]
  <2>1. q.flash = flash /\ q.list[f] = seq OBVIOUS
  <2> HIDE DEF q
  <2>2. Listed(q, f, n, size) BY <2>1, <1>1 DEF Listed
  <2>3. Enumerates(q.list[f], ValidOf(q.flash, f)) /\ Len(q.list[f]) = n
    BY <2>2, <1>1, ListedBlocks
  <2> HIDE DEF seq, flash
  <2> QED BY <2>1, <2>3
<1>4. Len(s.list[f]) = n
  <2> HIDE DEF seq, flash
  <2>1. Cardinality(ValidOf(flash, f)) = Len(seq) BY <1>3, EnumeratesCount
  <2>2. Enumerates(s.list[f], ValidOf(flash, f)) BY DEF flash
  <2>3. Cardinality(ValidOf(flash, f)) = Len(s.list[f]) BY <2>2, EnumeratesCount
  <2> QED BY <2>1, <2>3, <1>3
<1>5. InFileOrder(flash, s.list[f]) = seq
  <2>1. s.list[f] \in Seq(Blocks) /\ DOMAIN s.list[f] = 1 .. n BY <1>2, <1>4, LenProperties
  <2>2. Range(s.list[f]) = ValidOf(flash, f) BY DEF Enumerates
  <2> QED BY <2>1, <2>2 DEF InFileOrder, At
<1>6. seq \in Seq(Blocks) BY <1>3 DEF Enumerates
<1>7. /\ r \in State /\ r.mode = s.mode /\ r.flash = s.flash /\ r.free = s.free /\ r.dirty = s.dirty
      /\ r.list = [s.list EXCEPT ![f] = seq] /\ r.size = s.size
  <2> HIDE DEF seq, flash
  <2>1. [s.list EXCEPT ![f] = seq] \in [Files -> Seq(Blocks)] BY <1>2, <1>6
  <2>2. r = [s EXCEPT !.list = [s.list EXCEPT ![f] = seq]] BY <1>1, <1>5 DEF State, Rebuilt, flash
  <2> QED BY <2>1, <2>2, <1>1 DEF State
<1>8. r.list[f] = seq BY <1>2, <1>7
<1>9. Listed(r, f, n, size) BY <1>1, <1>7, <1>8 DEF Listed
<1>10. z \in -1 .. MaxPages
  <2>1. z \in {-1, size} BY <1>1, <1>9, ScanSizeIs
  <2>2. -1 \in -1 .. MaxPages /\ size \in -1 .. MaxPages BY <1>1, Sizes
  <2> QED BY <2>1, <2>2
<1> HIDE DEF r, seq
<1>11. /\ t \in State /\ t.mode = s.mode /\ t.flash = s.flash /\ t.free = s.free /\ t.dirty = s.dirty
       /\ t.list = r.list /\ t.size = [s.size EXCEPT ![f] = z]
  <2> HIDE DEF z
  <2>1. [s.size EXCEPT ![f] = z] \in [Files -> -1 .. MaxPages] BY <1>2, <1>10
  <2>2. t = [r EXCEPT !.size = [s.size EXCEPT ![f] = z]] BY <1>7 DEF State, Sized, r, z
  <2> QED BY <2>1, <2>2, <1>7 DEF State
<1>12. t.size[f] = z BY <1>2, <1>11
<1> HIDE DEF t
<1>14. Volume(t) BY <1>11 DEF Volume
<1>15. Listed(t, f, n, size) BY <1>1, <1>8, <1>11 DEF Listed, seq
<1>16. \A g \in Files \ {f} : Alike(s, t, g)
  <2> TAKE g \in Files \ {f}
  <2>1. t.list[g] = s.list[g] /\ t.size[g] = s.size[g] BY <1>2, <1>7, <1>11
  <2> QED BY <2>1, <1>11 DEF Alike, Untouched
<1> QED BY <1>4, <1>7, <1>9, <1>11, <1>12, <1>14, <1>15, <1>16 DEF t, r, z

(* What one turn of the loop in ffs_page_v_init leaves: the file is as it was in flash or, if
   it may be, deleted, its head before the other blocks. *)
Dropped(s, t, f, A) ==
    /\ Gone \in A
    /\ t.flash = Marked(s.flash, ValidOf(s.flash, f))
    /\ \E list \in Seq(Blocks) :
         /\ Enumerates(list, ValidOf(s.flash, f))
         /\ \/ \A b \in ValidOf(s.flash, f) : s.flash[b].blk # 0
            \/ list # <<>> => s.flash[list[1]].blk = 0
         /\ t.dirty = s.dirty \o list

LEMMA MountFileTurn ==
    ASSUME NEW s, Volume(s), NEW f \in Files, Enumerates(s.list[f], ValidOf(s.flash, f)),
           s.size[f] = -1, NEW A, Off(s.flash, f, A)
    PROVE  /\ Volume(MountFile(s, f)) /\ OnFile(MountFile(s, f), f)
           /\ \A g \in Files \ {f} : Alike(s, MountFile(s, f), g)
           /\ \/ MountFile(s, f).flash = s.flash /\ MountFile(s, f).dirty = s.dirty
              \/ Dropped(s, MountFile(s, f), f, A)
<1> DEFINE t == MountFile(s, f)
           list == s.list[f]
           numbers == {s.flash[b].blk : b \in ValidOf(s.flash, f)}
<1>1. /\ s \in State /\ FlashOk(s.flash) /\ list \in Seq(Blocks) /\ Len(list) \in Nat
      /\ Range(list) = ValidOf(s.flash, f)
  BY EnumeratesMember DEF Volume, Enumerates
<1>2. t = IF list = <<>> THEN s
          ELSE IF numbers # 0 .. Len(list) - 1 THEN Trashed(s, f)
          ELSE IF Sized(s, f).size[f] < 0 \/ ~ScanOk(Sized(s, f), f) THEN Trashed(Sized(s, f), f)
          ELSE Sized(s, f)
  BY MountFileCases
<1> HIDE DEF t, numbers
<1>3. CASE list = <<>>
  <2>1. t = s BY <1>2, <1>3
  <2>2. ValidOf(s.flash, f) = {}
    <3>1. DOMAIN list = 1 .. Len(list) /\ Len(list) = 0 BY <1>1, <1>3, LenProperties
    <3>2. DOMAIN list = {} BY <3>1
    <3> QED BY <3>2, <1>1 DEF Range
  <2>3. OnFile(s, f) BY <2>2, <1>3 DEF OnFile
  <2>4. \A g \in Files \ {f} : Alike(s, s, g) BY DEF Alike, Untouched
  <2> QED BY <2>1, <2>3, <2>4 DEF t
<1>4. CASE list # <<>> /\ \A b \in ValidOf(s.flash, f) : s.flash[b].blk # 0
  <2>1. numbers # 0 .. Len(list) - 1
    <3>1. Len(list) # 0 BY <1>1, <1>4, EmptySeq
    <3>2. 0 \in 0 .. Len(list) - 1 BY <3>1, <1>1
    <3>3. 0 \notin numbers BY <1>4 DEF numbers
    <3> QED BY <3>2, <3>3
  <2>2. t = Trashed(s, f) BY <2>1, <1>2, <1>4
  <2>3. Gone \in A
    <3>1. \A n \in 1 .. NBlocks, size \in 0 .. MaxPages : ~Shape(s.flash, f, n, size)
      <4> SUFFICES ASSUME NEW n \in 1 .. NBlocks, NEW size \in 0 .. MaxPages,
                          Shape(s.flash, f, n, size)
                   PROVE  FALSE
        OBVIOUS
      <4>1. 0 \in 0 .. n - 1 OBVIOUS
      <4> QED BY <4>1, <1>4 DEF Shape
    <3> QED BY <3>1 DEF Off
  <2>4. /\ Volume(t) /\ OnFile(t, f) /\ \A g \in Files \ {f} : Alike(s, t, g)
        /\ t.flash = Marked(s.flash, ValidOf(s.flash, f)) /\ t.dirty = s.dirty \o list
    BY <2>2, TrashedFile
  <2>5. Dropped(s, t, f, A) BY <2>3, <2>4, <1>1, <1>4 DEF Dropped
  <2> QED BY <2>4, <2>5 DEF t
<1>5. CASE list # <<>> /\ ~(\A b \in ValidOf(s.flash, f) : s.flash[b].blk # 0)
  <2>1. PICK n \in 1 .. NBlocks, size \in 0 .. MaxPages :
          /\ Shape(s.flash, f, n, size)
          /\ ~Whole(s.flash, f) => Gone \in A
    BY <1>5 DEF Off
  <2> DEFINE u == Sized(s, f)
             r == Rebuilt(s, f)
  <2>2. /\ Volume(u) /\ u.flash = s.flash /\ u.dirty = s.dirty /\ Len(list) = n
        /\ Listed(u, f, n, size)
        /\ Listed(r, f, n, size) /\ r.flash = s.flash /\ u.size[f] = ScanSize(r, f)
        /\ \A g \in Files \ {f} : Alike(s, u, g)
    BY <2>1, SizedState
  <2> HIDE DEF u, r
  <2>3. size \in Nat /\ n \in Nat /\ 1 \in 1 .. n BY Sizes
  <2>4. numbers = 0 .. Len(list) - 1
    <3>1. \A b \in ValidOf(s.flash, f) : s.flash[b].blk \in 0 .. n - 1
      <4> TAKE b \in ValidOf(s.flash, f)
      <4>1. s.flash[b].blk \in Nat BY <1>1, FlashType
      <4>2. s.flash[b].blk < n BY <2>1 DEF Shape
      <4> QED BY <4>1, <4>2
    <3>2. \A k \in 0 .. n - 1 : \E b \in ValidOf(s.flash, f) : s.flash[b].blk = k
      BY <2>1 DEF Shape
    <3>3. numbers = 0 .. n - 1 BY <3>1, <3>2 DEF numbers
    <3> QED BY <3>3, <2>2
  <2>5. t = IF u.size[f] < 0 \/ ~ScanOk(u, f) THEN Trashed(u, f) ELSE u
    BY <2>4, <1>2, <1>5 DEF u
  <2>6. /\ u.size[f] \in {-1, size}
        /\ u.size[f] = size => ~u.flash[At(u.flash, f, n - 1)].torn
        /\ Whole(u.flash, f) => u.size[f] = size
    <3>1. /\ ScanSize(r, f) \in {-1, size}
          /\ ScanSize(r, f) = size => ~r.flash[At(r.flash, f, n - 1)].torn
          /\ Whole(r.flash, f) => ScanSize(r, f) = size
      BY <2>2, <2>3, ScanSizeIs
    <3> QED BY <3>1, <2>2
  <2>7. u.size[f] = size => (ScanOk(u, f) <=> \A p \in 0 .. size - 1 : IsReadable(u, f, p))
    BY <2>2, <2>3, ScanOkIs
  <2>8. Whole(u.flash, f) <=> /\ ~u.flash[At(u.flash, f, n - 1)].torn
                              /\ \A p \in 0 .. size - 1 : IsReadable(u, f, p)
    BY <2>2, <2>3, WholeIs
  <2>9. /\ Enumerates(u.list[f], ValidOf(u.flash, f)) /\ Len(u.list[f]) = n
        /\ u.list[f][1] = At(u.flash, f, 0)
    <3>1. Enumerates(u.list[f], ValidOf(u.flash, f)) /\ Len(u.list[f]) = n
      <4>1. n \in Nat /\ size \in Nat /\ Listed(u, f, n, size) BY <2>2, <2>3
      <4> QED BY <4>1, ListedBlocks
    <3>2. u.list[f] = [k \in 1 .. n |-> At(u.flash, f, k - 1)] BY <2>2 DEF Listed
    <3>3. u.list[f][1] = At(u.flash, f, 0) BY <3>2, <2>3
    <3> QED BY <3>1, <3>3
  <2>10. CASE Whole(u.flash, f)
    <3>1. u.size[f] = size /\ ~(u.size[f] < 0) /\ u.size[f] # -1
      <4>1. u.size[f] = size BY <2>6, <2>10
      <4> QED BY <4>1, <2>3
    <3>2. ScanOk(u, f) BY <3>1, <2>7, <2>8, <2>10
    <3>3. t = u BY <3>1, <3>2, <2>5
    <3>4. OnFile(u, f)
      <4>1. Shape(u.flash, f, n, size) /\ u.list[f] = [k \in 1 .. n |-> At(u.flash, f, k - 1)]
        BY <2>2 DEF Listed
      <4> QED BY <4>1, <3>1, <2>9, <2>10 DEF OnFile
    <3> QED BY <3>3, <3>4, <2>2 DEF t
  <2>11. CASE ~Whole(u.flash, f)
    <3>1. t = Trashed(u, f)
      <4>1. CASE u.size[f] = -1
        <5>1. u.size[f] < 0 BY <4>1
        <5> QED BY <5>1, <2>5
      <4>2. CASE u.size[f] = size
        <5>1. ~ScanOk(u, f) BY <4>2, <2>6, <2>7, <2>8, <2>11
        <5> QED BY <5>1, <2>5
      <4> QED BY <4>1, <4>2, <2>6
    <3>2. /\ Volume(t) /\ OnFile(t, f)
          /\ \A g \in Files \ {f} : Alike(u, t, g)
          /\ t.flash = Marked(u.flash, ValidOf(u.flash, f)) /\ t.dirty = u.dirty \o u.list[f]
      BY <3>1, <2>2, <2>9, TrashedFile
    <3>3. \A g \in Files \ {f} : Alike(s, t, g)
      <4> TAKE g \in Files \ {f}
      <4>1. Alike(s, u, g) /\ Alike(u, t, g) BY <2>2, <3>2
      <4> QED BY <4>1 DEF Alike, Untouched
    <3>4. s.flash[u.list[f][1]].blk = 0
      <4>1. 0 \in 0 .. n - 1 BY <2>3
      <4>2. s.flash[At(s.flash, f, 0)].blk = 0 BY <4>1, <2>1, AtBlock
      <4> QED BY <4>1, <4>2, <2>2, <2>9
    <3>5. u.list[f] \in Seq(Blocks) BY <2>9 DEF Enumerates
    <3>6. Gone \in A BY <2>1, <2>2, <2>11
    <3>7. t.flash = Marked(s.flash, ValidOf(s.flash, f)) /\ t.dirty = s.dirty \o u.list[f]
          /\ Enumerates(u.list[f], ValidOf(s.flash, f))
      BY <3>2, <2>2, <2>9
    <3>8. Dropped(s, t, f, A) BY <3>4, <3>5, <3>6, <3>7 DEF Dropped
    <3> QED BY <3>2, <3>3, <3>8 DEF t
  <2> QED BY <2>10, <2>11
<1> QED BY <1>3, <1>4, <1>5

-----------------------------------------------------------------------------
(* Mounting: all files                                                       *)

LEMMA PrefixConcat ==
    ASSUME NEW s \in Seq(Blocks), NEW t \in Seq(Blocks)
    PROVE  /\ s \o t \in Seq(Blocks) /\ Len(s \o t) = Len(s) + Len(t)
           /\ Len(s) \in Nat /\ Len(t) \in Nat
           /\ \A n \in 0 .. Len(s) : Prefix(s \o t, n) = Prefix(s, n)
           /\ \A n \in 0 .. Len(t) : Prefix(s \o t, Len(s) + n) = Range(s) \cup Prefix(t, n)
           /\ Range(s \o t) = Range(s) \cup Range(t)
<1> DEFINE x == s \o t
           ls == Len(s)
           lt == Len(t)
<1>1. /\ x \in Seq(Blocks) /\ Len(x) = ls + lt
      /\ \A i \in 1 .. ls + lt : x[i] = IF i <= ls THEN s[i] ELSE t[i - ls]
  BY ConcatProperties
<1>2. ls \in Nat /\ lt \in Nat OBVIOUS
<1>3. /\ \A n \in 0 .. ls : Prefix(s, n) = {s[k] : k \in 1 .. n}
      /\ \A n \in 0 .. lt : Prefix(t, n) = {t[k] : k \in 1 .. n}
      /\ Prefix(s, ls) = Range(s) /\ Prefix(t, lt) = Range(t)
  BY PrefixMarks
<1> HIDE DEF x, ls, lt
<1>4. /\ \A n \in 0 .. ls + lt : Prefix(x, n) = {x[k] : k \in 1 .. n}
      /\ Prefix(x, ls + lt) = Range(x)
  BY <1>1, PrefixMarks
<1>5. ASSUME NEW n \in 0 .. ls PROVE Prefix(x, n) = Prefix(s, n)
  <2>1. n \in 0 .. ls + lt BY <1>2
  <2>2. \A k \in 1 .. n : x[k] = s[k]
    <3> TAKE k \in 1 .. n
    <3>1. k \in 1 .. ls + lt /\ k <= ls BY <1>2
    <3> QED BY <3>1, <1>1
  <2>3. Prefix(x, n) = {x[k] : k \in 1 .. n} BY <2>1, <1>4
  <2>4. Prefix(s, n) = {s[k] : k \in 1 .. n} BY <1>3
  <2>5. {x[k] : k \in 1 .. n} = {s[k] : k \in 1 .. n} BY <2>2
  <2> QED BY <2>3, <2>4, <2>5
<1>6. ASSUME NEW n \in 0 .. lt PROVE Prefix(x, ls + n) = Range(s) \cup Prefix(t, n)
  <2>1. ls + n \in 0 .. ls + lt BY <1>2
  <2>2. \A k \in 1 .. ls : k \in 1 .. ls + n /\ x[k] = s[k]
    <3> TAKE k \in 1 .. ls
    <3>1. k \in 1 .. ls + lt /\ k <= ls /\ k \in 1 .. ls + n BY <1>2
    <3> QED BY <3>1, <1>1
  <2>3. \A k \in 1 .. n : ls + k \in 1 .. ls + n /\ x[ls + k] = t[k]
    <3> TAKE k \in 1 .. n
    <3>1. ls + k \in 1 .. ls + lt /\ ~(ls + k <= ls) /\ (ls + k) - ls = k /\ ls + k \in 1 .. ls + n
      BY <1>2
    <3> QED BY <3>1, <1>1
  <2>4. \A k \in 1 .. ls + n : k \in 1 .. ls \/ (k - ls \in 1 .. n /\ k = ls + (k - ls))
    BY <1>2
  <2>5. Range(s) = {s[k] : k \in 1 .. ls} /\ Prefix(t, n) = {t[k] : k \in 1 .. n} BY <1>2, <1>3
  <2>6. Prefix(x, ls + n) = {x[k] : k \in 1 .. ls + n} BY <2>1, <1>4
  <2>7. \A k \in 1 .. ls + n : x[k] \in Range(s) \cup Prefix(t, n)
    <3> TAKE k \in 1 .. ls + n
    <3>1. CASE k \in 1 .. ls BY <3>1, <2>2, <2>5
    <3>2. CASE k - ls \in 1 .. n /\ k = ls + (k - ls)
      <4>1. x[k] = t[k - ls] BY <3>2, <2>3
      <4> QED BY <4>1, <3>2, <2>5
    <3> QED BY <3>1, <3>2, <2>4
  <2>8. \A b \in Range(s) : b \in {x[k] : k \in 1 .. ls + n} BY <2>2, <2>5
  <2>9. \A b \in Prefix(t, n) : b \in {x[k] : k \in 1 .. ls + n} BY <2>3, <2>5
  <2> QED BY <2>6, <2>7, <2>8, <2>9
<1>7. Range(x) = Range(s) \cup Range(t)
  <2>1. lt \in 0 .. lt BY <1>2
  <2> QED BY <2>1, <1>3, <1>4, <1>6
<1> QED BY <1>1, <1>2, <1>5, <1>6, <1>7 DEF x, ls, lt

LEMMA MarkedBoth ==
    ASSUME NEW flash, NEW S, NEW T
    PROVE  Marked(Marked(flash, S), T) = Marked(flash, S \cup T)
<1> DEFINE x == Marked(Marked(flash, S), T)
           y == Marked(flash, S \cup T)
<1>1. x = [b \in Blocks |-> IF b \in T THEN Blank("bad") ELSE Marked(flash, S)[b]] BY DEF Marked
<1>2. y = [b \in Blocks |-> IF b \in S \cup T THEN Blank("bad") ELSE flash[b]] BY DEF Marked
<1>3. \A b \in Blocks : Marked(flash, S)[b] = IF b \in S THEN Blank("bad") ELSE flash[b]
  BY DEF Marked
<1>4. \A b \in Blocks : x[b] = y[b] BY <1>1, <1>2, <1>3
<1> HIDE DEF x, y
<1>5. x = [b \in Blocks |-> x[b]] BY <1>1
<1>6. y = [b \in Blocks |-> y[b]] BY <1>2
<1>7. x = y BY <1>4, <1>5, <1>6
<1> QED BY <1>7 DEF x, y

(* A file is deleted from the volume, and the mount may be cut short meanwhile. *)
LEMMA MarkingMore ==
    ASSUME NEW flash, NEW rest \in Seq(Blocks), NEW A, Marking(flash, rest, A),
           NEW f \in Files, Gone \in A[f], NEW list \in Seq(Blocks),
           FlashOk(Marked(flash, Range(rest))),
           Enumerates(list, ValidOf(Marked(flash, Range(rest)), f)),
           \/ \A b \in ValidOf(Marked(flash, Range(rest)), f) : Marked(flash, Range(rest))[b].blk # 0
           \/ list # <<>> => Marked(flash, Range(rest))[list[1]].blk = 0
    PROVE  Marking(flash, rest \o list, A)
<1> DEFINE both == rest \o list
           now == Marked(flash, Range(rest))
<1>1. /\ Len(both) = Len(rest) + Len(list) /\ Len(rest) \in Nat /\ Len(list) \in Nat
      /\ \A n \in 0 .. Len(rest) : Prefix(both, n) = Prefix(rest, n)
      /\ \A n \in 0 .. Len(list) : Prefix(both, Len(rest) + n) = Range(rest) \cup Prefix(list, n)
  BY PrefixConcat
<1>2. \A g \in Files : Off(now, g, A[g])
  <2> TAKE g \in Files
  <2>1. Len(rest) \in 0 .. Len(rest) BY <1>1
  <2>2. Off(Marked(flash, Prefix(rest, Len(rest))), g, A[g]) BY <2>1 DEF Marking
  <2> QED BY <2>2, PrefixMarks
<1> HIDE DEF now, both
<1>3. ASSUME NEW n \in 0 .. Len(both), NEW g \in Files
      PROVE  Off(Marked(flash, Prefix(both, n)), g, A[g])
  <2>1. CASE n <= Len(rest)
    <3>1. n \in 0 .. Len(rest) BY <2>1, <1>1
    <3>2. Off(Marked(flash, Prefix(rest, n)), g, A[g]) BY <3>1 DEF Marking
    <3> QED BY <3>1, <3>2, <1>1
  <2>2. CASE ~(n <= Len(rest))
    <3> DEFINE i == n - Len(rest)
               then == Marked(now, Prefix(list, i))
    <3>1. i \in 0 .. Len(list) /\ n = Len(rest) + i BY <2>2, <1>1
    <3> HIDE DEF i
    <3>2. Prefix(both, n) = Range(rest) \cup Prefix(list, i) BY <3>1, <1>1
    <3>3. Marked(flash, Prefix(both, n)) = then BY <3>2, MarkedBoth DEF now
    <3>4. FlashOk(now) /\ Enumerates(list, ValidOf(now, f)) /\ Off(now, f, A[f])
          /\ \/ \A b \in ValidOf(now, f) : now[b].blk # 0
             \/ list # <<>> => now[list[1]].blk = 0
      BY <1>2 DEF now
    <3>5. /\ Off(Marked(now, Range(SubSeq(list, 1, i))), f, A[f])
          /\ \A h : h # f => Untouched(now, Marked(now, Range(SubSeq(list, 1, i))), h)
      BY <3>1, <3>4, DeletingCut
    <3>6. /\ Off(then, f, A[f]) /\ \A h : h # f => Untouched(now, then, h)
      BY <3>5 DEF Prefix
    <3> HIDE DEF then
    <3>7. CASE g = f BY <3>3, <3>6, <3>7
    <3>8. CASE g # f
      <4>1. Untouched(now, then, g) BY <3>6, <3>8
      <4>2. ValidOf(then, g) = ValidOf(now, g) /\ \A b \in ValidOf(now, g) : then[b] = now[b]
        BY <4>1 DEF Untouched
      <4>3. Off(now, g, A[g]) BY <1>2
      <4>4. Off(then, g, A[g]) BY <4>2, <4>3, <3>4, SameOff
      <4> QED BY <4>4, <3>3
    <3> QED BY <3>7, <3>8
  <2> QED BY <2>1, <2>2
<1> QED BY <1>3 DEF Marking, both

LEMMA MountingTurn ==
    ASSUME NEW flash, NEW A, NEW done \in SUBSET Files, NEW f \in Files, f \notin done,
           NEW s, Mounting(s, flash, A, done)
    PROVE  Mounting(MountFile(s, f), flash, A, done \cup {f})
<1> DEFINE t == MountFile(s, f)
           first == Ascending(Headed(flash, "bad"))
<1>1. /\ Volume(s) /\ s \in State /\ FlashOk(s.flash)
      /\ \A g \in done : OnFile(s, g)
      /\ \A g \in Files \ done : s.size[g] = -1 /\ Enumerates(s.list[g], ValidOf(s.flash, g))
  BY DEF Mounting, Partly, Volume
<1>2. PICK rest \in Seq(Blocks) :
        /\ s.dirty = first \o rest
        /\ s.flash = Marked(flash, Range(rest))
        /\ Marking(flash, rest, A)
  BY DEF Mounting
<1>3. Off(s.flash, f, A[f])
  <2>1. Prefix(rest, Len(rest)) = Range(rest) /\ Len(rest) \in 0 .. Len(rest) BY PrefixMarks
  <2>2. Off(Marked(flash, Prefix(rest, Len(rest))), f, A[f]) BY <2>1, <1>2 DEF Marking
  <2> QED BY <2>1, <2>2, <1>2
<1>4. /\ Volume(t) /\ OnFile(t, f)
      /\ \A g \in Files \ {f} : Alike(s, t, g)
      /\ (t.flash = s.flash /\ t.dirty = s.dirty) \/ Dropped(s, t, f, A[f])
  <2>1. s.size[f] = -1 /\ Enumerates(s.list[f], ValidOf(s.flash, f)) BY <1>1
  <2> QED BY <2>1, <1>1, <1>3, MountFileTurn
<1> HIDE DEF t, first
<1>5. Partly(t, done \cup {f})
  <2>1. ASSUME NEW g \in done PROVE OnFile(t, g)
    <3>1. g \in Files \ {f} /\ OnFile(s, g) /\ Alike(s, t, g) BY <2>1, <1>1, <1>4
    <3> QED BY <3>1, <1>1, AlikeFile
  <2>2. ASSUME NEW g \in Files \ (done \cup {f})
        PROVE  t.size[g] = -1 /\ Enumerates(t.list[g], ValidOf(t.flash, g))
    <3>1. Alike(s, t, g) /\ s.size[g] = -1 /\ Enumerates(s.list[g], ValidOf(s.flash, g))
      BY <1>1, <1>4
    <3>2. t.size[g] = -1 BY <3>1 DEF Alike
    <3> QED BY <3>1, <3>2, <1>1, AlikeFile
  <2> QED BY <2>1, <2>2, <1>4 DEF Partly
<1>6. CASE t.flash = s.flash /\ t.dirty = s.dirty
  <2>1. t.dirty = first \o rest /\ t.flash = Marked(flash, Range(rest)) BY <1>2, <1>6
  <2> QED BY <2>1, <1>2, <1>5 DEF Mounting, t, first
<1>7. CASE Dropped(s, t, f, A[f])
  <2>1. Gone \in A[f] /\ t.flash = Marked(s.flash, ValidOf(s.flash, f)) BY <1>7 DEF Dropped
  <2>2. PICK list \in Seq(Blocks) :
          /\ Enumerates(list, ValidOf(s.flash, f))
          /\ \/ \A b \in ValidOf(s.flash, f) : s.flash[b].blk # 0
             \/ list # <<>> => s.flash[list[1]].blk = 0
          /\ t.dirty = s.dirty \o list
    BY <1>7 DEF Dropped
  <2>3. Marking(flash, rest \o list, A) BY <2>1, <2>2, <1>1, <1>2, MarkingMore
  <2>4. /\ rest \o list \in Seq(Blocks)
        /\ Range(rest \o list) = Range(rest) \cup ValidOf(s.flash, f)
    <3>1. Range(list) = ValidOf(s.flash, f) BY <2>2 DEF Enumerates
    <3> QED BY <3>1, PrefixConcat
  <2>5. t.flash = Marked(flash, Range(rest \o list)) BY <2>1, <2>4, <1>2, MarkedBoth
  <2>6. t.dirty = first \o (rest \o list)
    <3>1. first \in Seq(Blocks)
      <4>1. Headed(flash, "bad") \in SUBSET Blocks BY DEF Headed
      <4> QED BY <4>1, AscendingEnumerates DEF first, Enumerates
    <3>2. t.dirty = (first \o rest) \o list BY <2>2, <1>2
    <3> QED BY <3>1, <3>2, ConcatAssociative
  <2> QED BY <2>3, <2>4, <2>5, <2>6, <1>5 DEF Mounting, t, first
<1> QED BY <1>4, <1>6, <1>7

(* The turns of the loop in ffs_page_v_init. *)
NextFile(s, f) == IF s.mode = "hung" THEN s ELSE MountFile(s, f)

Turns(start) ==
    CHOOSE m : m = [f \in 0 .. NFiles |-> IF f = 0 THEN start ELSE NextFile(m[f - 1], f - 1)]

LEMMA TurnsExist ==
    ASSUME NEW start
    PROVE  /\ Turns(start)[0] = start
           /\ \A f \in 1 .. NFiles : Turns(start)[f] = NextFile(Turns(start)[f - 1], f - 1)
<1> DEFINE Run(m, n) == m = [f \in 0 .. n |-> IF f = 0 THEN start ELSE NextFile(m[f - 1], f - 1)]
           S == {n \in Nat : \E m : Run(m, n)}
<1>1. 0 \in S
  <2> DEFINE m == [f \in 0 .. 0 |-> start]
  <2>1. Run(m, 0) OBVIOUS
  <2> QED BY <2>1
<1>2. ASSUME NEW n \in Nat, n \in S PROVE n + 1 \in S
  <2>1. PICK m : Run(m, n) BY <1>2
  <2> DEFINE v == [f \in 0 .. n + 1 |-> IF f = n + 1 THEN NextFile(m[n], f - 1) ELSE m[f]]
  <2>2. v = [f \in 0 .. n + 1 |-> IF f = 0 THEN start ELSE NextFile(v[f - 1], f - 1)]
    <3>1. m[0] = start /\ \A f \in 1 .. n : m[f] = NextFile(m[f - 1], f - 1) BY <2>1
    <3>2. ASSUME NEW f \in 0 .. n + 1
          PROVE  v[f] = IF f = 0 THEN start ELSE NextFile(v[f - 1], f - 1)
      <4>1. CASE f = 0 BY <4>1, <3>1
      <4>2. CASE f = n + 1
        <5>1. f # 0 /\ f - 1 = n /\ n \in 0 .. n + 1 /\ n # n + 1 BY <4>2
        <5>2. v[f - 1] = m[n] BY <5>1
        <5> QED BY <5>1, <5>2, <4>2
      <4>3. CASE f # 0 /\ f # n + 1
        <5>1. f \in 1 .. n /\ f - 1 \in 0 .. n + 1 /\ f - 1 # n + 1 BY <4>3
        <5>2. v[f - 1] = m[f - 1] /\ v[f] = m[f] BY <5>1, <4>3
        <5> QED BY <5>1, <5>2, <4>3, <3>1
      <4> QED BY <4>1, <4>2, <4>3
    <3> HIDE DEF v
    <3>3. v = [f \in 0 .. n + 1 |-> v[f]] BY DEF v
    <3> QED BY <3>2, <3>3
  <2>3. Run(v, n + 1) BY <2>2
  <2> HIDE DEF Run, v
  <2>4. \E x : Run(x, n + 1) BY <2>3
  <2> QED BY <2>4
<1>3. NFiles \in S
  <2> HIDE DEF S
  <2>1. Nat \subseteq S BY <1>1, <1>2, NatInduct
  <2> QED BY <2>1, Sizes
<1>4. \E m : Run(m, NFiles) BY <1>3
<1>5. Run(Turns(start), NFiles) BY <1>4 DEF Turns
<1>6. ASSUME NEW m, Run(m, NFiles)
      PROVE  m[0] = start /\ \A f \in 1 .. NFiles : m[f] = NextFile(m[f - 1], f - 1)
  <2>1. 0 \in 0 .. NFiles /\ \A f \in 1 .. NFiles : f \in 0 .. NFiles /\ f # 0
    BY Sizes
  <2> QED BY <1>6, <2>1
<1> QED BY <1>5, <1>6

LEMMA MountedIs ==
    ASSUME NEW flash
    PROVE  Mounted(flash) = Turns(ScanBlocks(flash))[NFiles]
<1> DEFINE start == ScanBlocks(flash)
           m[f \in 0 .. NFiles] == IF f = 0 THEN start
                                   ELSE IF m[f - 1].mode = "hung" THEN m[f - 1]
                                   ELSE MountFile(m[f - 1], f - 1)
<1>1. Mounted(flash) = m[NFiles] BY DEF Mounted
<1>2. m = Turns(start) BY DEF Turns, NextFile
<1> QED BY <1>1, <1>2

LEMMA MountedGood ==
    ASSUME NEW flash, FlashOk(flash), NEW A, \A f \in Files : Off(flash, f, A[f])
    PROVE  /\ Good(Mounted(flash))
           /\ \A f \in Files : Contents(Mounted(flash), f) \in A[f]
           /\ \E rest \in Seq(Blocks) :
                /\ Mounted(flash).dirty = Ascending(Headed(flash, "bad")) \o rest
                /\ Marking(flash, rest, A)
<1> DEFINE m == Turns(ScanBlocks(flash))
           S == {f \in Nat : f <= NFiles => Mounting(m[f], flash, A, 0 .. f - 1)}
<1>1. m[0] = ScanBlocks(flash) /\ \A f \in 1 .. NFiles : m[f] = NextFile(m[f - 1], f - 1)
  BY TurnsExist
<1> HIDE DEF m
<1>2. 0 \in S
  <2>1. Mounting(m[0], flash, A, {}) BY <1>1, ScanBlocksMounting
  <2>2. 0 .. 0 - 1 = {} OBVIOUS
  <2>3. Mounting(m[0], flash, A, 0 .. 0 - 1) BY <2>1, <2>2
  <2> QED BY <2>3
<1>3. ASSUME NEW f \in Nat, f \in S PROVE f + 1 \in S
  <2> SUFFICES ASSUME f + 1 <= NFiles PROVE Mounting(m[f + 1], flash, A, 0 .. (f + 1) - 1)
    OBVIOUS
  <2>1. /\ f \in Files /\ f \notin 0 .. f - 1 /\ f + 1 \in 1 .. NFiles /\ (f + 1) - 1 = f
        /\ 0 .. f - 1 \in SUBSET Files /\ (0 .. f - 1) \cup {f} = 0 .. (f + 1) - 1
        /\ f <= NFiles
    BY Sizes DEF Files
  <2>2. Mounting(m[f], flash, A, 0 .. f - 1) BY <1>3, <2>1
  <2>3. Mounting(MountFile(m[f], f), flash, A, (0 .. f - 1) \cup {f}) BY <2>1, <2>2, MountingTurn
  <2>4. m[f + 1] = MountFile(m[f], f)
    <3>1. m[f].mode = "on" BY <2>2 DEF Mounting, Partly, Volume
    <3>2. m[f + 1] = NextFile(m[f], f) BY <2>1, <1>1
    <3> QED BY <3>1, <3>2 DEF NextFile
  <2> QED BY <2>1, <2>3, <2>4
<1> HIDE DEF S
<1>4. NFiles \in S
  <2>1. Nat \subseteq S BY <1>2, <1>3, NatInduct
  <2> QED BY <2>1, Sizes
<1> DEFINE t == Mounted(flash)
<1>5. t = m[NFiles] BY MountedIs DEF m
<1>6. Mounting(t, flash, A, Files)
  <2>1. Mounting(m[NFiles], flash, A, 0 .. NFiles - 1) BY <1>4, Sizes DEF S
  <2> QED BY <2>1, <1>5 DEF Files
<1> HIDE DEF t
<1>7. Good(t) BY <1>6 DEF Mounting, Partly, Good
<1>8. PICK rest \in Seq(Blocks) :
        /\ t.dirty = Ascending(Headed(flash, "bad")) \o rest
        /\ t.flash = Marked(flash, Range(rest))
        /\ Marking(flash, rest, A)
  BY <1>6 DEF Mounting
<1>9. ASSUME NEW f \in Files PROVE Contents(t, f) \in A[f]
  <2>1. Prefix(rest, Len(rest)) = Range(rest) /\ Len(rest) \in 0 .. Len(rest) BY PrefixMarks
  <2>2. Off(Marked(flash, Prefix(rest, Len(rest))), f, A[f]) BY <2>1, <1>8 DEF Marking
  <2>3. Off(t.flash, f, A[f]) BY <2>1, <2>2, <1>8
  <2> QED BY <2>3, <1>7, GoodOffContents
<1> QED BY <1>7, <1>8, <1>9 DEF t

-----------------------------------------------------------------------------
(* Steps of the system                                                       *)

(* What a file may hold has the second half of the meta data where it belongs. *)
Letters == PageData \cup {"bad", "gone"}
MetaOk(c) == c \in Seq(Letters) /\ \A i \in 2 .. MetaPages : i <= Len(c) => c[i] = "meta1"

LEMMA MetaOkGone ==
    Gone \in Seq(Letters) /\ Len(Gone) = 1 /\ MetaOk(Gone)
<1>1. Gone \in Seq(Letters) /\ Len(Gone) = 1 BY DEF Gone, Letters
<1>2. \A i \in 2 .. MetaPages : ~(i <= Len(Gone)) BY <1>1, Sizes
<1> QED BY <1>1, <1>2 DEF MetaOk

LEMMA PrefixOk ==
    ASSUME NEW c, MetaOk(c), NEW n \in 0 .. Len(c)
    PROVE  MetaOk(SubSeq(c, 1, n)) /\ Len(SubSeq(c, 1, n)) = n
           /\ \A i \in 1 .. n : SubSeq(c, 1, n)[i] = c[i]
<1> DEFINE x == SubSeq(c, 1, n)
           l == Len(c)
<1>1. c \in Seq(Letters) /\ \A i \in 2 .. MetaPages : i <= l => c[i] = "meta1" BY DEF MetaOk
<1>2. l \in Nat BY <1>1
<1>3. \A i \in 1 .. n : c[i] \in Letters
  <2>1. \A i \in 1 .. n : i \in 1 .. Len(c) BY <1>2
  <2> QED BY <2>1, <1>1, ElementOfSeq
<1>4. x \in Seq(Letters) /\ Len(x) = n /\ \A i \in 1 .. n : x[i] = c[i]
  BY <1>1, <1>2, <1>3, SubSeqProperties
<1> HIDE DEF x, l
<1>5. \A i \in 2 .. MetaPages : i <= Len(x) => x[i] = "meta1"
  <2> SUFFICES ASSUME NEW i \in 2 .. MetaPages, i <= Len(x) PROVE x[i] = "meta1" OBVIOUS
  <2>1. i \in 1 .. n /\ i <= l BY <1>2, <1>4, Sizes DEF l
  <2> QED BY <2>1, <1>1, <1>4
<1> QED BY <1>4, <1>5 DEF MetaOk, x

LEMMA WithPageOk ==
    ASSUME NEW c, MetaOk(c), NEW p \in 0 .. Len(c), p >= MetaPages, NEW d \in Letters
    PROVE  MetaOk(WithPage(c, p, d))
<1>1. c \in Seq(Letters) /\ \A i \in 2 .. MetaPages : i <= Len(c) => c[i] = "meta1" BY DEF MetaOk
<1>2. Len(c) \in Nat /\ DOMAIN c = 1 .. Len(c) BY <1>1, LenProperties
<1>2a. PICK n \in Nat : n = Len(c) BY <1>2
<1>2b. p \in 0 .. n BY <1>2a
<1>3. CASE p < Len(c)
  <2> DEFINE x == [c EXCEPT ![p + 1] = d]
  <2>1. x \in Seq(Letters) /\ Len(x) = Len(c) /\ \A i \in 1 .. Len(c) : i # p + 1 => x[i] = c[i]
    <3>1. x \in [1 .. Len(c) -> Letters]
      <4>1. c \in [1 .. Len(c) -> Letters] BY <1>1, LenProperties
      <4> QED BY <4>1
    <3>2. x \in [1 .. n -> Letters] BY <3>1, <1>2a
    <3>3. x \in Seq(Letters) /\ Len(x) = n
      <4> HIDE DEF x
      <4> QED BY <3>2, <1>2a
    <3>4. Len(x) = Len(c) BY <3>3, <1>2a
    <3> QED BY <3>3, <3>4, <1>2
  <2> HIDE DEF x
  <2>2. \A i \in 2 .. MetaPages : i # p + 1 BY <1>2, Sizes
  <2>3. \A i \in 2 .. MetaPages : i <= Len(x) => x[i] = "meta1"
    <3> SUFFICES ASSUME NEW i \in 2 .. MetaPages, i <= Len(x) PROVE x[i] = "meta1" OBVIOUS
    <3>1. i \in 1 .. Len(c) /\ i <= Len(c) BY <2>1, <1>2
    <3> QED BY <3>1, <2>1, <2>2, <1>1
  <2>4. MetaOk(x) BY <2>1, <2>3 DEF MetaOk
  <2> QED BY <2>4, <1>3 DEF WithPage, x
<1>4. CASE ~(p < Len(c))
  <2> DEFINE x == Append(c, d)
  <2>1. x \in Seq(Letters) /\ Len(x) = Len(c) + 1 /\ \A i \in 1 .. Len(c) : x[i] = c[i]
    BY <1>1, AppendProperties
  <2> HIDE DEF x
  <2>2. p = Len(c)
    <3>1. ~(p < n) BY <1>4, <1>2a
    <3>2. p = n BY <3>1, <1>2a, <1>2b
    <3> QED BY <3>2, <1>2a
  <2>3. \A i \in 2 .. MetaPages : x[i] = "meta1"
    <3> TAKE i \in 2 .. MetaPages
    <3>1. i \in 1 .. Len(c) /\ i <= Len(c) BY <2>2, <1>2, Sizes
    <3> QED BY <3>1, <2>1, <1>1
  <2>4. MetaOk(x) BY <2>1, <2>3 DEF MetaOk
  <2> QED BY <2>4, <1>4 DEF WithPage, x
<1> QED BY <1>3, <1>4

LEMMA ContentsType ==
    ASSUME NEW s, Good(s), NEW f \in Files
    PROVE  /\ Contents(s, f) \in Seq(Letters)
           /\ s.size[f] # -1 => Len(Contents(s, f)) = s.size[f]
<1>1. CASE s.size[f] = -1 BY <1>1, GoodNoFile, MetaOkGone
<1>2. CASE s.size[f] # -1
  <2> DEFINE n == s.size[f]
             c == Contents(s, f)
  <2>1. /\ n \in 0 .. MaxPages /\ Len(s.list[f]) \in 1 .. NBlocks
        /\ Shape(s.flash, f, Len(s.list[f]), n) /\ FlashOk(s.flash)
    BY <1>2, GoodFile DEF Good, Volume
  <2>2. c = [i \in 1 .. n |-> PageAt(s.flash, f, i - 1)] BY <1>2, GoodContents DEF Text
  <2>3. n \in Nat /\ Len(s.list[f]) \in Nat BY <2>1, Sizes
  <2>4. \A i \in 1 .. n : PageAt(s.flash, f, i - 1) \in Letters
    <3> TAKE i \in 1 .. n
    <3>1. i - 1 \in 0 .. n - 1 BY <2>3
    <3>2. PageAt(s.flash, f, i - 1) \in PageData \cup {"bad"} BY <3>1, <2>1, <2>3, PageOf
    <3> QED BY <3>2 DEF Letters
  <2> HIDE DEF n, c
  <2>5. c \in [1 .. n -> Letters] /\ DOMAIN c = 1 .. n BY <2>2, <2>4
  <2>6. c \in Seq(Letters) BY <2>3, <2>5
  <2>7. Len(c) = n BY <2>3, <2>5, <2>6, LenProperties
  <2> QED BY <2>6, <2>7 DEF c, n
<1> QED BY <1>1, <1>2

(* What is known of the files in a state of the system. *)
LEMMA InvFacts ==
    ASSUME FsInv
    PROVE  /\ fs.mode \in {"on", "off"}
           /\ fs.mode = "on" => /\ Good(fs)
                                /\ \A f \in Files : Contents(fs, f) \in allowed[f]
           /\ fs.mode = "off" => /\ FlashOk(fs.flash) /\ fs = Unmounted(fs.flash)
                                 /\ \A f \in Files : Off(fs.flash, f, allowed[f])
           /\ FlashOk(fs.flash)
           /\ crashes \in Nat
           /\ \A f \in Files : Off(fs.flash, f, Known(f))
<1>1. /\ Good(fs) => fs.mode = "on" /\ FlashOk(fs.flash)
      /\ fs = Unmounted(fs.flash) => fs.mode = "off"
  <2>1. Unmounted(fs.flash).mode = "off" BY DEF Unmounted
  <2> QED BY <2>1 DEF Good, Volume
<1>2. crashes \in Nat BY Sizes DEF FsInv
<1>3. CASE Good(fs) /\ \A f \in Files : Contents(fs, f) \in allowed[f]
  <2>1. \A f \in Files : Off(fs.flash, f, {Contents(fs, f)}) BY <1>3, GoodOff
  <2> QED BY <1>1, <1>2, <1>3, <2>1 DEF Known
<1>4. CASE /\ FlashOk(fs.flash)
           /\ fs = Unmounted(fs.flash)
           /\ \A f \in Files : Off(fs.flash, f, allowed[f])
  BY <1>1, <1>2, <1>4 DEF Known
<1> QED BY <1>3, <1>4 DEF FsInv

LEMMA KnownOk ==
    ASSUME FsInv, NEW f \in Files
    PROVE  /\ Known(f) # {}
           /\ \A c \in Known(f) : \A i \in 2 .. MetaPages : i <= Len(c) => c[i] = "meta1"
<1>1. allowed[f] # {} /\ \A c \in allowed[f] : \A i \in 2 .. MetaPages : i <= Len(c) => c[i] = "meta1"
  BY DEF FsInv, AllowedOk
<1>2. CASE fs.mode = "on"
  <2>1. Contents(fs, f) \in allowed[f] BY <1>2, InvFacts
  <2>2. Known(f) = {Contents(fs, f)} BY <1>2 DEF Known
  <2> QED BY <2>1, <2>2, <1>1
<1>3. CASE fs.mode # "on"
  <2>1. Known(f) = allowed[f] BY <1>3 DEF Known
  <2> QED BY <2>1, <1>1
<1> QED BY <1>2, <1>3

(* The contents of a mounted file. *)
LEMMA ContentsOk ==
    ASSUME FsInv, fs.mode = "on", NEW f \in Files
    PROVE  MetaOk(Contents(fs, f))
<1>1. Contents(fs, f) \in Known(f) BY DEF Known
<1>2. Contents(fs, f) \in Seq(Letters) BY InvFacts, ContentsType
<1> QED BY <1>1, <1>2, KnownOk DEF MetaOk

(* The power fails: what a mount finds of each file is known or new. *)
LEMMA PowerFailsInv ==
    ASSUME FsInv, NEW flash, FlashOk(flash), NEW touched, NEW news, \A c \in news : MetaOk(c),
           PowerFails(flash, touched, news),
           \A g \in Files : Off(flash, g, IF g = touched THEN Known(g) \cup news ELSE Known(g))
    PROVE  FsInv' /\ fs'.mode = "off"
<1>1. /\ crashes < MaxCrashes /\ crashes' = crashes + 1 /\ fs' = Unmounted(flash) /\ gcReady' = FALSE
      /\ allowed' = [f \in Files |-> IF f = touched THEN Known(f) \cup news ELSE Known(f)]
  BY DEF PowerFails
<1>2. fs'.flash = flash /\ fs'.mode = "off" BY <1>1 DEF Unmounted
<1>3. \A f \in Files : allowed'[f] = IF f = touched THEN Known(f) \cup news ELSE Known(f)
  BY <1>1
<1>4. ASSUME NEW f \in Files
      PROVE  /\ allowed'[f] # {}
             /\ \A c \in allowed'[f] : \A i \in 2 .. MetaPages : i <= Len(c) => c[i] = "meta1"
  <2>1. \A c \in news : \A i \in 2 .. MetaPages : i <= Len(c) => c[i] = "meta1" BY DEF MetaOk
  <2>2. /\ Known(f) # {}
        /\ \A c \in Known(f) : \A i \in 2 .. MetaPages : i <= Len(c) => c[i] = "meta1"
    BY KnownOk
  <2>3. CASE f = touched BY <2>1, <2>2, <2>3, <1>3
  <2>4. CASE f # touched BY <2>2, <2>4, <1>3
  <2> QED BY <2>3, <2>4
<1>5. AllowedOk' BY <1>1, <1>4 DEF AllowedOk
<1>6. \A g \in Files : Off(flash, g, allowed'[g]) BY <1>3
<1>7. crashes' \in 0 .. MaxCrashes
  <2>1. crashes \in Nat BY InvFacts
  <2> QED BY <2>1, <1>1, Sizes
<1>8. gcReady' \in BOOLEAN BY <1>1
<1> HIDE DEF Off
<1>9. /\ FlashOk(fs'.flash) /\ fs' = Unmounted(fs'.flash)
      /\ \A g \in Files : Off(fs'.flash, g, allowed'[g])
  BY <1>1, <1>2, <1>6
<1> QED BY <1>2, <1>5, <1>7, <1>8, <1>9 DEF FsInv

(* A step of a mounted volume does not take a block but the first from the dirty list. *)
Kept ==
    fs.mode = "on" /\ fs'.mode = "on" =>
        \A b \in Headed(fs.flash, "bad") : b # fs.dirty[1] => b \in Headed(fs'.flash, "bad")

LEMMA CutShortInv ==
    ASSUME FsInv, fs.mode = "on", NEW f \in Files, NEW J, NEW want, NEW A, Journal(J, fs, f, A),
           A \subseteq {Contents(fs, f)} \cup Partial(f, want), MetaOk(want),
           CutShort(J, f, want)
    PROVE  FsInv' /\ fs'.mode = "off"
<1>1. PICK k \in 2 .. Len(J) - 1 : PowerFails(J[k].flash, f, Partial(f, want)) BY DEF CutShort
<1>2. k \in 1 .. Len(J)
  <2>1. Len(J) \in Nat BY DEF Journal
  <2> QED BY <2>1
<1>3. CutOk(fs, f, A, J[k].flash) BY <1>2 DEF Journal
<1>4. FlashOk(J[k].flash) BY <1>3 DEF CutOk
<1>5. \A c \in Partial(f, want) : MetaOk(c)
  <2> TAKE c \in Partial(f, want)
  <2>1. c = want \/ c = Gone \/ \E n \in 0 .. Len(want) : c = SubSeq(want, 1, n) BY DEF Partial
  <2> QED BY <2>1, MetaOkGone, PrefixOk
<1>6. ASSUME NEW g \in Files
      PROVE  Off(J[k].flash, g, IF g = f THEN Known(g) \cup Partial(f, want) ELSE Known(g))
  <2>1. Known(g) = {Contents(fs, g)} BY DEF Known
  <2>2. Off(J[k].flash, g, IF g = f THEN A ELSE {Contents(fs, g)}) BY <1>3 DEF CutOk
  <2>3. CASE g = f
    <3>1. Off(J[k].flash, g, A) BY <2>2, <2>3
    <3>2. A \subseteq Known(g) \cup Partial(f, want) BY <2>1, <2>3
    <3>3. Off(J[k].flash, g, Known(g) \cup Partial(f, want)) BY <3>1, <3>2, MoreOff
    <3> QED BY <2>3, <3>3
  <2>4. CASE g # f BY <2>1, <2>2, <2>4
  <2> QED BY <2>3, <2>4
<1> QED BY <1>1, <1>4, <1>5, <1>6, PowerFailsInv

LEMMA CompletesInv ==
    ASSUME FsInv, fs.mode = "on", NEW f \in Files, NEW J, NEW want, NEW A, Journal(J, fs, f, A),
           MetaOk(want), Contents(Last(J), f) = want, Completes(J, f, want), gcReady' \in BOOLEAN
    PROVE  FsInv' /\ fs' = Last(J)
<1>1. fs' = Last(J) /\ allowed' = [allowed EXCEPT ![f] = {want}] /\ crashes' = crashes
  BY DEF Completes
<1>2. Good(Last(J)) /\ \A g \in Files \ {f} : Contents(Last(J), g) = Contents(fs, g)
  BY DEF Journal
<1>3. /\ DOMAIN allowed = Files
      /\ \A g \in Files : /\ allowed[g] # {}
                          /\ \A c \in allowed[g] : \A i \in 2 .. MetaPages : i <= Len(c) => c[i] = "meta1"
  BY DEF FsInv, AllowedOk
<1>4. allowed'[f] = {want} /\ \A g \in Files \ {f} : allowed'[g] = allowed[g] BY <1>1, <1>3
<1>5. AllowedOk'
  <2>1. \A i \in 2 .. MetaPages : i <= Len(want) => want[i] = "meta1" BY DEF MetaOk
  <2>2. \A g \in Files : /\ allowed'[g] # {}
                         /\ \A c \in allowed'[g] : \A i \in 2 .. MetaPages : i <= Len(c) => c[i] = "meta1"
    BY <2>1, <1>3, <1>4
  <2>3. DOMAIN allowed' = Files BY <1>1, <1>3
  <2> QED BY <2>2, <2>3 DEF AllowedOk
<1>6. \A g \in Files : Contents(Last(J), g) \in allowed'[g]
  <2> TAKE g \in Files
  <2>1. CASE g = f BY <2>1, <1>4
  <2>2. CASE g # f
    <3>1. Contents(fs, g) \in allowed[g] BY InvFacts
    <3> QED BY <3>1, <2>2, <1>2, <1>4
  <2> QED BY <2>1, <2>2
<1>7. crashes' \in 0 .. MaxCrashes BY <1>1 DEF FsInv
<1>8. Good(fs') /\ \A g \in Files : Contents(fs', g) \in allowed'[g] BY <1>1, <1>2, <1>6
<1> QED BY <1>1, <1>5, <1>7, <1>8 DEF FsInv

LEMMA DoInv ==
    ASSUME FsInv, fs.mode = "on", NEW f \in Files, NEW J, NEW want, NEW A, Journal(J, fs, f, A),
           A \subseteq {Contents(fs, f)} \cup Partial(f, want), MetaOk(want),
           Contents(Last(J), f) \in {Contents(fs, f), want},
           \A b \in Headed(fs.flash, "bad") : b # fs.dirty[1] => b \in Headed(Last(J).flash, "bad"),
           Do(J, f, want)
    PROVE  FsInv' /\ Kept
<1> DEFINE now == IF Contents(Last(J), f) = Contents(fs, f) THEN Contents(fs, f) ELSE want
<1>1. CASE Completes(J, f, now) /\ gcReady' = gcReady
  <2>1. Contents(Last(J), f) = now OBVIOUS
  <2>2. MetaOk(now) BY ContentsOk
  <2>3. gcReady' \in BOOLEAN BY <1>1 DEF FsInv
  <2> HIDE DEF now
  <2>4. FsInv' /\ fs' = Last(J) BY <1>1, <2>1, <2>2, <2>3, CompletesInv
  <2> QED BY <2>4 DEF Kept
<1>2. CASE CutShort(J, f, want)
  <2>1. FsInv' /\ fs'.mode = "off" BY <1>2, CutShortInv
  <2> QED BY <2>1 DEF Kept
<1> QED BY <1>1, <1>2 DEF Do

LEMMA InitInv ==
    ASSUME Init
    PROVE  FsInv
<1> DEFINE flash == [b \in Blocks |-> Blank("erased")]
<1>1. fs = Unmounted(flash) /\ gcReady = FALSE /\ crashes = 0 /\ allowed = [f \in Files |-> {Gone}]
  BY DEF Init
<1>2. fs.flash = flash BY <1>1 DEF Unmounted
<1>3. /\ flash \in [Blocks -> Block]
      /\ \A b \in Blocks : flash[b] = Blank("erased") /\ flash[b].hdr = "erased" /\ Len(flash[b].log) = 0
  BY BlockType
<1> HIDE DEF flash
<1>4. FlashOk(flash)
  <2>1. \A b \in Blocks : Len(flash[b].log) <= PhysPages BY <1>3, Sizes
  <2> QED BY <2>1, <1>3 DEF FlashOk
<1>5. \A f \in Files : Off(flash, f, allowed[f])
  <2> TAKE f \in Files
  <2>1. ValidOf(flash, f) = {} BY <1>3 DEF ValidOf
  <2>2. Gone \in allowed[f] BY <1>1
  <2> QED BY <2>1, <2>2 DEF Off
<1>6. AllowedOk
  <2>1. \A f \in Files : allowed[f] = {Gone} BY <1>1
  <2>2. \A i \in 2 .. MetaPages : i <= Len(Gone) => Gone[i] = "meta1" BY MetaOkGone DEF MetaOk
  <2>3. DOMAIN allowed = Files BY <1>1
  <2> QED BY <2>1, <2>2, <2>3 DEF AllowedOk
<1>7. crashes \in 0 .. MaxCrashes /\ gcReady \in BOOLEAN
  <2>1. 0 \in 0 .. MaxCrashes BY Sizes
  <2> QED BY <2>1, <1>1
<1> QED BY <1>1, <1>2, <1>4, <1>5, <1>6, <1>7 DEF FsInv

LEMMA MountInv ==
    ASSUME FsInv, Mount
    PROVE  FsInv' /\ Kept
<1>1. fs.mode = "off" /\ fs' = Mounted(fs.flash) /\ UNCHANGED <<gcReady, crashes, allowed>>
  BY DEF Mount
<1>2. FlashOk(fs.flash) /\ \A f \in Files : Off(fs.flash, f, allowed[f]) BY <1>1, InvFacts
<1>3. Good(Mounted(fs.flash)) /\ \A f \in Files : Contents(Mounted(fs.flash), f) \in allowed[f]
  BY <1>2, MountedGood
<1>4. Good(fs') /\ \A f \in Files : Contents(fs', f) \in allowed'[f] BY <1>1, <1>3
<1>5. AllowedOk' BY <1>1 DEF FsInv, AllowedOk
<1>6. FsInv' BY <1>1, <1>4, <1>5 DEF FsInv
<1>7. Kept BY <1>1 DEF Kept
<1> QED BY <1>6, <1>7

LEMMA MountCutShortInv ==
    ASSUME FsInv, MountCutShort
    PROVE  FsInv' /\ Kept
<1> DEFINE bad == Headed(fs.flash, "bad")
           dirty == Mounted(fs.flash).dirty
           first == Ascending(bad)
           marked == SubSeq(dirty, 1 + Cardinality(bad), Len(dirty))
<1>1. fs.mode = "off" BY DEF MountCutShort
<1>2. PICK n \in 1 .. Len(marked) - 1 :
        PowerFails([b \in Blocks |-> IF b \in Range(SubSeq(marked, 1, n))
                                     THEN Blank("bad") ELSE fs.flash[b]], 0, {})
  BY DEF MountCutShort, Headed
<1>3. FlashOk(fs.flash) /\ \A f \in Files : Off(fs.flash, f, allowed[f]) BY <1>1, InvFacts
<1>4. PICK rest \in Seq(Blocks) : dirty = first \o rest /\ Marking(fs.flash, rest, allowed)
  BY <1>3, MountedGood
<1>5. first \in Seq(Blocks) /\ Len(first) = Cardinality(bad) /\ Len(first) \in Nat
  <2>1. bad \in SUBSET Blocks BY DEF Headed
  <2> HIDE DEF bad
  <2> QED BY <2>1, AscendingEnumerates DEF Enumerates
<1> HIDE DEF dirty, first
<1>6. marked = rest
  <2> DEFINE l == Len(first)
             m == Len(rest)
  <2>1. l \in Nat /\ m \in Nat /\ marked = SubSeq(dirty, 1 + l, Len(dirty)) BY <1>5
  <2>2. /\ dirty \in Seq(Blocks) /\ Len(dirty) = l + m
        /\ \A i \in 1 .. l + m : dirty[i] = IF i <= l THEN first[i] ELSE rest[i - l]
    BY <1>4, <1>5, ConcatProperties
  <2> HIDE DEF marked, l, m
  <2>3. \A i \in 1 .. m : i + l \in 1 .. l + m /\ dirty[i + l] = rest[i]
    <3> TAKE i \in 1 .. m
    <3>1. i + l \in 1 .. l + m /\ ~(i + l <= l) /\ (i + l) - l = i BY <2>1
    <3> QED BY <3>1, <2>2
  <2>4. \A i \in 1 + l .. l + m : dirty[i] \in Blocks
    <3> TAKE i \in 1 + l .. l + m
    <3>1. i \in 1 .. Len(dirty) BY <2>1, <2>2
    <3> QED BY <3>1, <2>2, ElementOfSeq
  <2>5. /\ SubSeq(dirty, 1 + l, l + m) \in Seq(Blocks)
        /\ Len(SubSeq(dirty, 1 + l, l + m)) = IF 1 + l <= l + m THEN (l + m) - (1 + l) + 1 ELSE 0
        /\ \A i \in 1 .. (l + m) - (1 + l) + 1 :
             SubSeq(dirty, 1 + l, l + m)[i] = dirty[(1 + l) + i - 1]
    BY <2>1, <2>2, <2>4, SubSeqProperties
  <2> DEFINE x == SubSeq(dirty, 1 + l, l + m)
  <2>6. x = marked BY <2>1, <2>2
  <2>7. (l + m) - (1 + l) + 1 = m BY <2>1
  <2>8. \A i \in 1 .. m : x[i] = rest[i]
    <3> TAKE i \in 1 .. m
    <3>1. (1 + l) + i - 1 = i + l BY <2>1
    <3> QED BY <3>1, <2>3, <2>5, <2>7
  <2>9. Len(x) = m BY <2>1, <2>5, <2>7
  <2> HIDE DEF x
  <2>10. x = rest BY <2>5, <2>8, <2>9, SeqEqual DEF x, m
  <2> QED BY <2>6, <2>10
<1> DEFINE flash == Marked(fs.flash, Prefix(rest, n))
<1>7. PowerFails(flash, 0, {}) BY <1>2, <1>6 DEF Marked, Prefix
<1>8. n \in 0 .. Len(rest)
  <2>1. Len(rest) \in Nat /\ n \in 1 .. Len(rest) - 1
    <3> HIDE DEF marked
    <3> QED BY <1>6
  <2> QED BY <2>1
<1>9. \A g \in Files : Off(flash, g, Known(g))
  <2> TAKE g \in Files
  <2>1. Known(g) = allowed[g] BY <1>1 DEF Known
  <2> QED BY <2>1, <1>4, <1>8 DEF Marking
<1>10. FlashOk(flash) BY <1>3, MarkedOk
<1> HIDE DEF flash
<1>11. \A g \in Files : Off(flash, g, IF g = 0 THEN Known(g) \cup {} ELSE Known(g)) BY <1>9
<1>12. FsInv' BY <1>7, <1>10, <1>11, PowerFailsInv
<1>13. Kept BY <1>1 DEF Kept
<1> QED BY <1>12, <1>13

LEMMA PowerOffInv ==
    ASSUME FsInv, PowerOff
    PROVE  FsInv' /\ Kept
<1>1. FlashOk(fs.flash) /\ \A g \in Files : Off(fs.flash, g, Known(g)) BY InvFacts
<1>2. PowerFails(fs.flash, 0, {}) BY DEF PowerOff
<1>3. \A g \in Files : Off(fs.flash, g, IF g = 0 THEN Known(g) \cup {} ELSE Known(g)) BY <1>1
<1>4. FsInv' /\ fs'.mode = "off" BY <1>1, <1>2, <1>3, PowerFailsInv
<1> QED BY <1>4 DEF Kept

(* The pages that ffs_i8_create_file and the collector write. *)
LEMMA MadeOk ==
    ASSUME NEW name \in Names, NEW m \in Nat
    PROVE  MetaOk(Made(name, m)) /\ Len(Made(name, m)) = m
           /\ \A i \in 1 .. m : Made(name, m)[i] = MetaData(name, i - 1)
<1>1. Made(name, m) \in Seq(PageData) /\ Len(Made(name, m)) = m BY MadePage
<1>2. Made(name, m) \in Seq(Letters)
  <2>1. PageData \subseteq Letters BY DEF Letters
  <2> QED BY <1>1, <2>1, SeqMonotonic
<1>3. \A i \in 1 .. m : Made(name, m)[i] = MetaData(name, i - 1) BY DEF Made
<1>4. \A i \in 2 .. MetaPages : i <= m => Made(name, m)[i] = "meta1"
  <2> SUFFICES ASSUME NEW i \in 2 .. MetaPages, i <= m PROVE Made(name, m)[i] = "meta1"
    OBVIOUS
  <2>1. i \in 1 .. m /\ i - 1 # 0 BY Sizes
  <2> QED BY <2>1, <1>3 DEF MetaData
<1> QED BY <1>1, <1>2, <1>3, <1>4 DEF MetaOk

LEMMA NewFile ==
    ASSUME FsInv, fs.mode = "on", FreeIds(fs) # {}
    PROVE  Min(FreeIds(fs)) \in Files /\ fs.size[Min(FreeIds(fs))] = -1
           /\ Contents(fs, Min(FreeIds(fs))) = Gone
<1>1. Good(fs) /\ fs \in State BY InvFacts DEF Good, Volume
<1> DEFINE S == FreeIds(fs)
<1>2. S \in SUBSET Nat
  <2>1. \A f \in Files : f \in Nat BY Sizes DEF Files
  <2> QED BY <2>1 DEF FreeIds
<1>3. Min(S) \in S
  <2>1. S # {} OBVIOUS
  <2> HIDE DEF S
  <2> QED BY <1>2, <2>1, MinIn
<1>4. Min(S) \in Files /\ fs.size[Min(S)] < 0 BY <1>3 DEF FreeIds
<1> HIDE DEF S
<1>5. fs.size[Min(S)] \in -1 .. MaxPages BY <1>1, <1>4, StateType
<1>6. fs.size[Min(S)] = -1 BY <1>4, <1>5, Sizes
<1>7. Contents(fs, Min(S)) = Gone BY <1>1, <1>4, <1>6, GoodNoFile
<1> QED BY <1>4, <1>6, <1>7 DEF S

LEMMA ExistsFile ==
    ASSUME FsInv, fs.mode = "on", NEW f \in Files, Exists(fs, f)
    PROVE  /\ Good(fs) /\ fs.size[f] # -1 /\ fs.size[f] \in MetaPages .. MaxPages
           /\ Len(Contents(fs, f)) = fs.size[f] /\ MetaOk(Contents(fs, f))
<1>1. Good(fs) /\ fs \in State BY InvFacts DEF Good, Volume
<1>2. fs.size[f] \in -1 .. MaxPages /\ fs.size[f] >= MetaPages BY <1>1, StateType DEF Exists
<1>3. fs.size[f] # -1 /\ fs.size[f] \in MetaPages .. MaxPages BY <1>2, Sizes
<1> QED BY <1>1, <1>3, ContentsType, ContentsOk

LEMMA CreateFileInv ==
    ASSUME ~ReplaceWindow, FsInv, NEW name \in Names, CreateFile(name)
    PROVE  FsInv' /\ Kept
<1> DEFINE f == Min(FreeIds(fs))
           J == Create(fs, f, name)
           want == Made(name, MetaPages)
           A == {Gone} \cup {Made(name, m) : m \in 0 .. MetaPages}
<1>1. fs.mode = "on" /\ FreeIds(fs) # {} /\ Do(J, f, want) BY DEF CreateFile, Made
<1>2. f \in Files /\ fs.size[f] = -1 /\ Contents(fs, f) = Gone BY <1>1, NewFile
<1>3. Good(fs) BY <1>1, InvFacts
<1> HIDE DEF f
<1>4. Gone \in A /\ \A m \in 0 .. MetaPages : Made(name, m) \in A OBVIOUS
<1> HIDE DEF A
<1>5. /\ Journal(J, fs, f, A)
      /\ Headed(fs.flash, "bad") \subseteq Headed(Last(J).flash, "bad")
      /\ Contents(Last(J), f) = Gone \/ Contents(Last(J), f) = Made(name, MetaPages)
  BY <1>2, <1>3, <1>4, CreateJournal
<1> HIDE DEF J
<1>6. MetaOk(want) /\ Len(want) = MetaPages BY Sizes, MadeOk
<1>7. A \subseteq {Contents(fs, f)} \cup Partial(f, want)
  <2>1. ASSUME NEW m \in 0 .. MetaPages PROVE Made(name, m) \in Partial(f, want)
    <3>1. m \in Nat /\ MetaPages \in Nat /\ m \in 0 .. Len(want) BY <1>6, Sizes
    <3> DEFINE x == SubSeq(want, 1, m)
               y == Made(name, m)
    <3>2. MetaOk(x) /\ Len(x) = m /\ \A i \in 1 .. m : x[i] = want[i] BY <3>1, <1>6, PrefixOk
    <3>3. MetaOk(y) /\ Len(y) = m /\ \A i \in 1 .. m : y[i] = MetaData(name, i - 1)
      BY <3>1, MadeOk
    <3>4. \A i \in 1 .. MetaPages : want[i] = MetaData(name, i - 1) BY <3>1, MadeOk
    <3> HIDE DEF x, y
    <3>5. \A i \in 1 .. m : x[i] = y[i]
      <4> TAKE i \in 1 .. m
      <4>1. i \in 1 .. MetaPages BY <3>1
      <4> QED BY <4>1, <3>2, <3>3, <3>4
    <3>6. x = y BY <3>2, <3>3, <3>5, SeqEqual DEF MetaOk
    <3>7. x \in Partial(f, want) BY <3>1, <1>2 DEF Partial, x
    <3> QED BY <3>6, <3>7 DEF y
  <2>2. Gone \in Partial(f, want) BY DEF Partial
  <2> QED BY <2>1, <2>2 DEF A
<1>8. Contents(Last(J), f) \in {Contents(fs, f), want} BY <1>2, <1>5
<1>9. \A b \in Headed(fs.flash, "bad") : b # fs.dirty[1] => b \in Headed(Last(J).flash, "bad")
  BY <1>5
<1>10. Do(J, f, want) BY <1>1 DEF J, f
<1> HIDE DEF want
<1> QED BY <1>1, <1>2, <1>5, <1>6, <1>7, <1>8, <1>9, <1>10, DoInv

LEMMA WriteFileInv ==
    ASSUME ~ReplaceWindow, FsInv, NEW f \in Files, NEW p \in MetaPages .. MaxPages - 1,
           NEW d \in Values, WriteFile(f, p, d)
    PROVE  FsInv' /\ Kept
<1> DEFINE J == WritePage(fs, f, p, d)
           now == Contents(fs, f)
           want == WithPage(now, p, d)
           A == {Gone, now, want}
<1>1. fs.mode = "on" /\ Exists(fs, f) /\ p <= fs.size[f] /\ Do(J, f, want) BY DEF WriteFile
<1>2. /\ Good(fs) /\ fs.size[f] # -1 /\ fs.size[f] \in MetaPages .. MaxPages
      /\ Len(now) = fs.size[f] /\ MetaOk(now)
  BY <1>1, ExistsFile
<1>3. p \in 0 .. fs.size[f] /\ p < MaxPages /\ p >= MetaPages BY <1>1, <1>2, Sizes
<1>4. d \in PageData /\ d \in Letters BY DEF PageData, Letters
<1>5. MetaOk(want) BY <1>2, <1>3, <1>4, WithPageOk
<1>6. /\ Journal(J, fs, f, A)
      /\ Headed(fs.flash, "bad") \subseteq Headed(Last(J).flash, "bad")
      /\ Last(J) = fs \/ Contents(Last(J), f) = want
  <2>1. Gone \in A /\ Contents(fs, f) \in A /\ WithPage(Contents(fs, f), p, d) \in A OBVIOUS
  <2> HIDE DEF A
  <2>2. /\ Journal(WritePage(fs, f, p, d), fs, f, A)
        /\ Headed(fs.flash, "bad") \subseteq Headed(Last(WritePage(fs, f, p, d)).flash, "bad")
        /\ \/ WritePage(fs, f, p, d) = <<fs>> /\ Last(WritePage(fs, f, p, d)) = fs
           \/ /\ Contents(Last(WritePage(fs, f, p, d)), f) = WithPage(Contents(fs, f), p, d)
              /\ Last(WritePage(fs, f, p, d)).size[f] = Grown(fs.size[f], p)
    BY <2>1, <1>2, <1>3, <1>4, WriteJournal
  <2> QED BY <2>2
<1> HIDE DEF J
<1>7. A \subseteq {Contents(fs, f)} \cup Partial(f, want) BY DEF Partial
<1>8. Contents(Last(J), f) \in {Contents(fs, f), want} BY <1>6
<1> HIDE DEF want, A
<1> QED BY <1>1, <1>5, <1>6, <1>7, <1>8, DoInv

LEMMA DeleteFileInv ==
    ASSUME FsInv, NEW f \in Files, DeleteFile(f)
    PROVE  FsInv' /\ Kept
<1> DEFINE J == Deleting(fs, f)
           A == {Gone, Contents(fs, f)}
<1>1. fs.mode = "on" /\ Exists(fs, f) /\ Do(J, f, Gone) BY DEF DeleteFile
<1>2. Good(fs) /\ fs.size[f] # -1 BY <1>1, ExistsFile
<1>3. /\ Journal(J, fs, f, A) /\ Contents(Last(J), f) = Gone
      /\ Headed(fs.flash, "bad") \subseteq Headed(Last(J).flash, "bad")
  BY <1>2, DeletingJournal
<1> HIDE DEF J
<1>4. A \subseteq {Contents(fs, f)} \cup Partial(f, Gone) BY DEF Partial
<1>5. MetaOk(Gone) BY MetaOkGone
<1>6. Contents(Last(J), f) \in {Contents(fs, f), Gone} BY <1>3
<1> HIDE DEF A
<1> QED BY <1>1, <1>3, <1>4, <1>5, <1>6, DoInv

(* The states in which the first dirty block is taken from its list, half erased and erased. *)
Taken(s) == [s EXCEPT !.dirty = RemoveAt(s.dirty, 1)]
HalfErased(s) == [Taken(s) EXCEPT !.flash[s.dirty[1]].hdr = "garbled"]
FirstErased(s) == Erased(Taken(s), s.dirty[1])

(* A dirty block is erased: ffs_block_i8_erase *)
LEMMA EraseJournal ==
    ASSUME NEW s, Good(s), s.dirty # <<>>, NEW f \in Files
    PROVE  /\ Journal(<<s, HalfErased(s), FirstErased(s)>>, s, f, {Contents(s, f)})
           /\ Last(<<s, HalfErased(s), FirstErased(s)>>) = FirstErased(s)
           /\ Contents(FirstErased(s), f) = Contents(s, f) /\ FirstErased(s).size = s.size
           /\ Headed(FirstErased(s).flash, "bad") = Headed(s.flash, "bad") \ {s.dirty[1]}
<1> DEFINE b == s.dirty[1]
           taken == [s EXCEPT !.dirty = RemoveAt(s.dirty, 1)]
           half == [taken EXCEPT !.flash[b].hdr = "garbled"]
           done == Erased(taken, b)
<1>0. Taken(s) = taken /\ HalfErased(s) = half /\ FirstErased(s) = done
  BY DEF Taken, HalfErased, FirstErased
<1> DEFINE flash == s.flash
           dirty == s.dirty
           bad == Headed(flash, "bad")
           garbled == [flash[b] EXCEPT !.hdr = "garbled"]
           J == <<s, half, done>>
<1>1. /\ s \in State /\ s.mode = "on" /\ FlashOk(flash) /\ flash \in [Blocks -> Block]
      /\ Headed(flash, "garbled") = {}
      /\ Enumerates(s.free, Headed(flash, "erased")) /\ Enumerates(dirty, bad)
      /\ s.free \in Seq(Blocks) /\ dirty \in Seq(Blocks)
  BY StateType DEF Good, Volume
<1>2. /\ Head(dirty) = dirty[1] /\ Head(dirty) \in bad
      /\ Enumerates(Tail(dirty), bad \ {Head(dirty)})
  BY <1>1, EnumeratesTail
<1>3. b \in Blocks /\ b \in bad /\ flash[b].hdr = "bad" /\ flash[b] \in Block
      /\ Len(flash[b].log) <= PhysPages
  BY <1>1, <1>2, FlashType DEF Headed
<1>4. RemoveAt(dirty, 1) = Tail(dirty)
  <2> DEFINE n == Len(dirty)
             x == SubSeq(dirty, 2, n)
  <2>1. n \in Nat /\ \A i \in 2 .. n : dirty[i] \in Blocks
    <3>1. n \in Nat BY <1>1
    <3>2. \A i \in 2 .. n : i \in 1 .. n BY <3>1
    <3> QED BY <3>1, <3>2, <1>1, ElementOfSeq
  <2>2. RemoveAt(dirty, 1) = SubSeq(dirty, 1, 1 - 1) \o SubSeq(dirty, 1 + 1, n) BY DEF RemoveAt
  <2>3. SubSeq(dirty, 1, 0) = <<>>
    <3> DEFINE e == SubSeq(dirty, 1, 0)
    <3>1. \A i \in 1 .. 0 : dirty[i] \in Blocks OBVIOUS
    <3>2. e \in Seq(Blocks) /\ Len(e) = 0
      <4>1. /\ SubSeq(dirty, 1, 0) \in Seq(Blocks)
            /\ Len(SubSeq(dirty, 1, 0)) = IF 1 <= 0 THEN 0 - 1 + 1 ELSE 0
        BY <3>1, <1>1, SubSeqProperties
      <4> QED BY <4>1
    <3> HIDE DEF e
    <3>3. e = <<>> BY <3>2, EmptySeq
    <3> QED BY <3>3 DEF e
  <2>4. x = Tail(dirty) BY DEF Tail
  <2>5. x \in Seq(Blocks) BY <2>4, <1>2 DEF Enumerates
  <2>6. <<>> \o x = x
    <3> HIDE DEF x
    <3> QED BY <2>5
  <2>7. RemoveAt(dirty, 1) = <<>> \o x
    <3>1. 1 - 1 = 0 /\ 1 + 1 = 2 OBVIOUS
    <3> QED BY <3>1, <2>2, <2>3
  <2> QED BY <2>4, <2>6, <2>7
<1>5. /\ taken \in State /\ taken.mode = "on" /\ taken.flash = flash /\ taken.free = s.free
      /\ taken.dirty = Tail(dirty) /\ taken.list = s.list /\ taken.size = s.size
  <2>1. Tail(dirty) \in Seq(Blocks) BY <1>2 DEF Enumerates
  <2> HIDE DEF dirty, flash
  <2>2. taken = [s EXCEPT !.dirty = Tail(dirty)] BY <1>4 DEF dirty
  <2> QED BY <2>1, <2>2, <1>1 DEF State, flash
<1>6. garbled \in Block /\ garbled.hdr = "garbled" /\ garbled.log = flash[b].log
  <2>1. PICK block : block = flash[b] OBVIOUS
  <2>2. block \in Block BY <2>1, <1>3
  <2>3. garbled = [block EXCEPT !.hdr = "garbled"] BY <2>1
  <2> HIDE DEF garbled, flash
  <2>4. garbled \in Block BY <2>2, <2>3 DEF Block
  <2>5. garbled.hdr = "garbled" /\ garbled.log = block.log BY <2>2, <2>3 DEF Block
  <2> QED BY <2>1, <2>4, <2>5
<1>7. Blank("erased") \in Block /\ Blank("erased").hdr = "erased" /\ Len(Blank("erased").log) = 0
  BY BlockType
<1> HIDE DEF flash, dirty, bad, garbled
<1>8. Put(flash, b, garbled) \in [Blocks -> Block] /\ Put(flash, b, Blank("erased")) \in [Blocks -> Block]
  BY <1>1, <1>3, <1>6, <1>7, PutBlock
<1>9. half \in State /\ half.flash = Put(flash, b, garbled)
  <2>1. half = [taken EXCEPT !.flash = Put(flash, b, garbled)]
    BY <1>5 DEF State, Put, garbled
  <2> QED BY <2>1, <1>5, <1>8 DEF State
<1>10. /\ done \in State /\ done.mode = "on" /\ done.flash = Put(flash, b, Blank("erased"))
       /\ done.free = Append(s.free, b) /\ done.dirty = Tail(dirty)
       /\ done.list = s.list /\ done.size = s.size
  <2>1. Append(s.free, b) \in Seq(Blocks) BY <1>1, <1>3, AppendProperties
  <2>2. done = [taken EXCEPT !.flash = Put(flash, b, Blank("erased")), !.free = Append(s.free, b)]
    BY <1>5 DEF State, Put, Erased
  <2> QED BY <2>1, <2>2, <1>5, <1>8 DEF State
<1>11. FlashOk(Put(flash, b, garbled))
  <2>1. \A c \in Blocks \ {b} : flash[c].hdr # "garbled" BY <1>1 DEF Headed
  <2>2. Len(garbled.log) <= PhysPages BY <1>3, <1>6
  <2> QED BY <2>1, <2>2, <1>1, <1>3, <1>6, PutOk
<1>12. FlashOk(Put(flash, b, Blank("erased")))
  <2>1. Len(Blank("erased").log) <= PhysPages BY <1>7, Sizes
  <2> QED BY <2>1, <1>1, <1>3, <1>7, PutOk
<1>13. /\ Headed(done.flash, "bad") = bad \ {b}
       /\ Headed(done.flash, "erased") = Headed(flash, "erased") \cup {b}
       /\ Headed(done.flash, "garbled") = {}
       /\ b \notin Headed(flash, "erased")
  <2>1. \A c \in Blocks \ {b} : done.flash[c] = flash[c] BY <1>1, <1>10 DEF Put
  <2>2. done.flash[b].hdr = "erased" BY <1>1, <1>3, <1>7, <1>10 DEF Put
  <2>3. Headed(done.flash, "bad") = bad \ {b} BY <1>3, <2>1, <2>2 DEF Headed, bad
  <2>4. Headed(done.flash, "erased") = Headed(flash, "erased") \cup {b}
    BY <1>3, <2>1, <2>2 DEF Headed
  <2>5. Headed(done.flash, "garbled") = {} BY <1>1, <1>3, <2>1, <2>2 DEF Headed
  <2>6. b \notin Headed(flash, "erased") BY <1>3 DEF Headed
  <2> QED BY <2>3, <2>4, <2>5, <2>6
<1>14. Volume(done)
  <2>1. Enumerates(done.dirty, bad \ {b}) BY <1>2, <1>10 DEF dirty
  <2>2. Enumerates(Append(s.free, b), Headed(flash, "erased") \cup {b})
    BY <1>1, <1>3, <1>13, EnumeratesAppend
  <2> QED BY <2>1, <2>2, <1>10, <1>12, <1>13 DEF Volume
<1>15. \A g \in Files : /\ Untouched(flash, Put(flash, b, garbled), g)
                        /\ Untouched(flash, Put(flash, b, Blank("erased")), g)
  <2> TAKE g \in Files
  <2>1. b \notin ValidOf(flash, g) BY <1>3 DEF ValidOf
  <2> QED BY <2>1, <1>1, <1>3, <1>6, <1>7, PutBlock
<1>16. \A g \in Files : Alike(s, done, g) BY <1>10, <1>15 DEF Alike, flash
<1>17. Good(done) /\ \A g \in Files : Contents(done, g) = Contents(s, g)
  <2>1. OnFile(done, f)
    <3>1. Alike(s, done, f) /\ OnFile(s, f) BY <1>16 DEF Good
    <3> QED BY <3>1, <1>1, AlikeFile DEF flash
  <2>2. Good(done) BY <2>1, <1>14, <1>16, GoodBy
  <2>3. \A g \in Files : Contents(done, g) = Contents(s, g)
    <3> TAKE g \in Files
    <3>1. Alike(s, done, g) BY <1>16
    <3> QED BY <3>1, <2>2, <1>1, AlikeFile DEF flash
  <2> QED BY <2>2, <2>3
<1>18. J \in Seq(State) /\ Len(J) = 3 /\ J[1] = s /\ J[2] = half /\ J[3] = done
  BY <1>1, <1>9, <1>10
<1>19. J # <<>> /\ Len(J) # 1 /\ Last(J) = done
  <2>1. Last(J) = J[Len(J)] BY DEF Last
  <2> QED BY <2>1, <1>18
<1> HIDE DEF J
<1>20. ASSUME NEW k \in 1 .. Len(J) PROVE CutOk(s, f, {Contents(s, f)}, J[k].flash)
  <2>1. k = 1 \/ k = 2 \/ k = 3 BY <1>18
  <2>2. CASE k = 1
    <3>1. CutOk(s, f, {Contents(s, f)}, s.flash) BY GoodCut
    <3> QED BY <3>1, <2>2, <1>18
  <2>3. CASE k = 2
    <3>1. Off(s.flash, f, {Contents(s, f)}) BY GoodOff
    <3>2. ValidOf(half.flash, f) = ValidOf(s.flash, f)
          /\ \A c \in ValidOf(s.flash, f) : half.flash[c] = s.flash[c]
      BY <1>9, <1>15 DEF Untouched, flash
    <3>3. Off(half.flash, f, {Contents(s, f)}) BY <3>1, <3>2, <1>1, SameOff DEF flash
    <3>4. FlashOk(half.flash) /\ \A g \in Files \ {f} : Untouched(s.flash, half.flash, g)
      BY <1>9, <1>11, <1>15 DEF flash
    <3>5. CutOk(s, f, {Contents(s, f)}, half.flash) BY <3>3, <3>4, CutBy
    <3> QED BY <3>5, <2>3, <1>18
  <2>4. CASE k = 3
    <3>1. CutOk(done, f, {Contents(s, f)}, done.flash) BY <1>17, GoodCut
    <3>2. \A g \in Files \ {f} : Contents(done, g) = Contents(s, g) BY <1>17
    <3>3. CutOk(s, f, {Contents(s, f)}, done.flash) BY <3>1, <3>2, CutMore
    <3> QED BY <3>3, <2>4, <1>18
  <2> QED BY <2>1, <2>2, <2>3, <2>4
<1>21. Journal(J, s, f, {Contents(s, f)}) BY <1>17, <1>18, <1>19, <1>20 DEF Journal
<1> HIDE DEF half, done
<1>22. Headed(done.flash, "bad") = Headed(s.flash, "bad") \ {s.dirty[1]}
  BY <1>13 DEF bad, flash
<1> QED BY <1>0, <1>10, <1>17, <1>19, <1>21, <1>22 DEF J

LEMMA GcStepInv ==
    ASSUME ~ReplaceWindow, FsInv, GcStep
    PROVE  FsInv' /\ Kept
<1> DEFINE b == fs.dirty[1]
           taken == [fs EXCEPT !.dirty = RemoveAt(fs.dirty, 1)]
           half == [taken EXCEPT !.flash[b].hdr = "garbled"]
           done == Erased(taken, b)
           erase == <<fs, half, done>>
           found == Named(fs, GcData)
           f == Min(found \cup {NFiles - 1})
           now == Contents(fs, f)
           want == WithPage(now, MetaPages, "count")
           W == WritePage(Last(erase), f, MetaPages, "count")
<1>1. /\ fs.mode = "on" /\ fs.dirty # <<>>
      /\ IF found = {} THEN Do(erase, f, now) ELSE Do(Then(erase, W), f, want)
  <2>1. [fs EXCEPT !.dirty = RemoveAt(@, 1)] = taken OBVIOUS
  <2> QED BY <2>1 DEF GcStep, NextDirty
<1>2. Good(fs) /\ fs \in State BY <1>1, InvFacts DEF Good, Volume
<1>3. f \in Files /\ (found # {} => f \in found)
  <2>1. NFiles - 1 \in Files /\ found \subseteq Files BY Sizes DEF Files, Named
  <2>2. Files \subseteq Nat /\ \A g \in Files : g <= NFiles - 1 BY Sizes DEF Files
  <2> DEFINE S == found \cup {NFiles - 1}
  <2>3. S \in SUBSET Nat /\ S # {} BY <2>1, <2>2
  <2>4. Min(S) \in S /\ \A g \in S : Min(S) <= g
    <3> HIDE DEF S
    <3> QED BY <2>3, MinIn
  <2>5. f \in S /\ \A g \in S : f <= g BY <2>4
  <2> HIDE DEF f
  <2>6. f \in Files BY <2>1, <2>5
  <2>7. ASSUME found # {} PROVE f \in found
    <3>1. PICK g \in found : TRUE BY <2>7
    <3>2. f <= g /\ g \in Files BY <3>1, <2>1, <2>5
    <3>3. g <= NFiles - 1 /\ g \in Nat /\ f \in Nat /\ NFiles \in Nat BY <3>2, <2>2, <2>6, Sizes
    <3>4. f = NFiles - 1 => f = g BY <3>2, <3>3
    <3> QED BY <3>1, <3>4, <2>5
  <2> QED BY <2>6, <2>7
<1> HIDE DEF f
<1>4. /\ Journal(erase, fs, f, {now}) /\ Last(erase) = done
      /\ Contents(done, f) = now /\ done.size = fs.size
      /\ Headed(done.flash, "bad") = Headed(fs.flash, "bad") \ {b}
  <2>1. half = HalfErased(fs) /\ done = FirstErased(fs)
    BY DEF Taken, HalfErased, FirstErased
  <2> HIDE DEF half, done
  <2>2. /\ Journal(<<fs, HalfErased(fs), FirstErased(fs)>>, fs, f, {Contents(fs, f)})
        /\ Last(<<fs, HalfErased(fs), FirstErased(fs)>>) = FirstErased(fs)
        /\ Contents(FirstErased(fs), f) = Contents(fs, f) /\ FirstErased(fs).size = fs.size
        /\ Headed(FirstErased(fs).flash, "bad") = Headed(fs.flash, "bad") \ {fs.dirty[1]}
    BY <1>1, <1>2, <1>3, EraseJournal
  <2> QED BY <2>1, <2>2
<1> HIDE DEF erase, done, taken, half
<1>5. CASE found = {}
  <2>1. Do(erase, f, now) BY <1>1, <1>5
  <2>2. MetaOk(now) BY <1>1, <1>3, ContentsOk
  <2>3. Contents(Last(erase), f) \in {Contents(fs, f), now} BY <1>4
  <2>4. {now} \subseteq {Contents(fs, f)} \cup Partial(f, now) OBVIOUS
  <2>5. \A c \in Headed(fs.flash, "bad") : c # fs.dirty[1] => c \in Headed(Last(erase).flash, "bad")
    BY <1>4
  <2> HIDE DEF now, b, found
  <2> QED BY <2>1, <2>2, <2>3, <2>4, <2>5, <1>1, <1>3, <1>4, DoInv DEF now
<1>6. CASE found # {}
  <2> DEFINE J == Then(erase, W)
             A == {Gone, now, want}
  <2>1. Do(J, f, want) BY <1>1, <1>6
  <2>2. Exists(fs, f) BY <1>3, <1>6 DEF Named
  <2>3. /\ fs.size[f] # -1 /\ fs.size[f] \in MetaPages .. MaxPages
        /\ Len(now) = fs.size[f] /\ MetaOk(now)
    BY <2>2, <1>1, <1>3, ExistsFile
  <2>4. MetaPages \in 0 .. fs.size[f] /\ MetaPages < MaxPages /\ MetaPages >= MetaPages
    BY <2>3, Sizes
  <2>5. "count" \in PageData /\ "count" \in Letters BY DEF PageData, Letters
  <2>6. MetaOk(want)
    <3>1. MetaPages \in 0 .. Len(now) BY <2>3, <2>4
    <3> HIDE DEF now
    <3> QED BY <3>1, <2>3, <2>4, <2>5, WithPageOk
  <2>7. Good(done) /\ MetaPages \in 0 .. done.size[f] BY <1>4, <2>4 DEF Journal
  <2>8. Gone \in A /\ Contents(done, f) \in A /\ WithPage(Contents(done, f), MetaPages, "count") \in A
    BY <1>4
  <2>9. W = WritePage(done, f, MetaPages, "count") BY <1>4
  <2> HIDE DEF A, W, want
  <2>10. /\ Journal(W, done, f, A)
         /\ Headed(done.flash, "bad") \subseteq Headed(Last(W).flash, "bad")
         /\ \/ Last(W) = done
            \/ Contents(Last(W), f) = WithPage(Contents(done, f), MetaPages, "count")
    <3>1. /\ Journal(WritePage(done, f, MetaPages, "count"), done, f, A)
          /\ Headed(done.flash, "bad")
               \subseteq Headed(Last(WritePage(done, f, MetaPages, "count")).flash, "bad")
          /\ \/ /\ WritePage(done, f, MetaPages, "count") = <<done>>
                /\ Last(WritePage(done, f, MetaPages, "count")) = done
             \/ /\ Contents(Last(WritePage(done, f, MetaPages, "count")), f)
                     = WithPage(Contents(done, f), MetaPages, "count")
                /\ Last(WritePage(done, f, MetaPages, "count")).size[f] = Grown(done.size[f], MetaPages)
      BY <2>4, <2>5, <2>7, <2>8, <1>3, WriteJournal
    <3> QED BY <3>1, <2>9
  <2>11. Journal(W, Last(erase), f, A) BY <2>10, <1>4
  <2>12. Journal(J, fs, f, {now} \cup A) /\ Last(J) = Last(W)
    <3>1. Journal(Then(erase, W), fs, f, {now} \cup A) /\ Last(Then(erase, W)) = Last(W)
      BY <2>11, <1>4, JournalThen
    <3> QED BY <3>1
  <2> HIDE DEF J
  <2>13. {now} \cup A \subseteq {Contents(fs, f)} \cup Partial(f, want) BY DEF Partial, A
  <2>14. Contents(Last(J), f) \in {Contents(fs, f), want} BY <2>10, <2>12, <1>4 DEF want
  <2>15. \A c \in Headed(fs.flash, "bad") : c # fs.dirty[1] => c \in Headed(Last(J).flash, "bad")
    BY <2>10, <2>12, <1>4
  <2> QED BY <2>1, <2>6, <2>12, <2>13, <2>14, <2>15, <1>1, <1>3, DoInv
<1> QED BY <1>5, <1>6

(* The pages of the file that counts erasures. *)
GcPages == [i \in 1 .. MetaPages + 1 |-> IF i > MetaPages THEN "count" ELSE MetaData(GcData, i - 1)]

LEMMA GcPagesOk ==
    /\ MetaOk(GcPages) /\ Len(GcPages) = MetaPages + 1
    /\ \A m \in 0 .. MetaPages : SubSeq(GcPages, 1, m) = Made(GcData, m)
    /\ SubSeq(GcPages, 1, MetaPages + 1) = GcPages
    /\ WithPage(Made(GcData, MetaPages), MetaPages, "count") = GcPages
<1> DEFINE n == MetaPages
           made == Made(GcData, n)
           x == Append(made, "count")
<1>1. n \in Nat \ {0} /\ GcData \in Names BY Sizes, FlashFsAssumption
<1>2. "count" \in Letters BY DEF Letters, PageData
<1>3. MetaOk(made) /\ Len(made) = n /\ \A i \in 1 .. n : made[i] = MetaData(GcData, i - 1)
  BY <1>1, MadeOk
<1>4. made \in Seq(Letters) BY <1>3 DEF MetaOk
<1>5. WithPage(made, n, "count") = x BY <1>1, <1>3 DEF WithPage
<1>6. /\ x \in Seq(Letters) /\ Len(x) = n + 1
      /\ \A i \in 1 .. n : x[i] = made[i]
      /\ x[n + 1] = "count"
  BY <1>2, <1>3, <1>4, AppendProperties
<1> HIDE DEF x, made
<1>7. MetaOk(x)
  <2>1. n \in 0 .. Len(made) /\ n >= MetaPages BY <1>1, <1>3
  <2>2. MetaOk(WithPage(made, n, "count")) BY <1>2, <1>3, <2>1, WithPageOk
  <2> QED BY <2>2, <1>5
<1>8. x = GcPages
  <2>1. DOMAIN x = 1 .. n + 1 /\ x = [i \in 1 .. n + 1 |-> x[i]]
    <3>1. x \in [1 .. Len(x) -> Letters] BY <1>6, LenProperties
    <3> QED BY <3>1, <1>6
  <2>2. \A i \in 1 .. n + 1 : x[i] = IF i > n THEN "count" ELSE MetaData(GcData, i - 1)
    <3> TAKE i \in 1 .. n + 1
    <3>1. CASE i > n
      <4>1. i = n + 1 BY <3>1, <1>1
      <4> QED BY <4>1, <3>1, <1>6
    <3>2. CASE ~(i > n)
      <4>1. i \in 1 .. n BY <3>2, <1>1
      <4> QED BY <4>1, <3>2, <1>3, <1>6
    <3> QED BY <3>1, <3>2
  <2>3. x = [i \in 1 .. n + 1 |-> IF i > n THEN "count" ELSE MetaData(GcData, i - 1)]
    BY <2>1, <2>2
  <2> QED BY <2>3 DEF GcPages
<1>9. ASSUME NEW m \in 0 .. n PROVE SubSeq(x, 1, m) = Made(GcData, m)
  <2> DEFINE y == SubSeq(x, 1, m)
             z == Made(GcData, m)
  <2>1. m \in Nat /\ m \in 0 .. Len(x) BY <1>1, <1>6
  <2>2. MetaOk(y) /\ Len(y) = m /\ \A i \in 1 .. m : y[i] = x[i] BY <2>1, <1>7, PrefixOk
  <2>3. MetaOk(z) /\ Len(z) = m /\ \A i \in 1 .. m : z[i] = MetaData(GcData, i - 1)
    BY <2>1, <1>1, MadeOk
  <2> HIDE DEF y, z
  <2>4. \A i \in 1 .. m : y[i] = z[i]
    <3> TAKE i \in 1 .. m
    <3>1. i \in 1 .. n BY <1>1
    <3> QED BY <3>1, <2>2, <2>3, <1>3, <1>6
  <2>5. y = z BY <2>2, <2>3, <2>4, SeqEqual DEF MetaOk
  <2> QED BY <2>5 DEF y, z
<1>10. SubSeq(x, 1, n + 1) = x
  <2> DEFINE y == SubSeq(x, 1, n + 1)
  <2>1. n + 1 \in 0 .. Len(x) BY <1>1, <1>6
  <2>2. MetaOk(y) /\ Len(y) = n + 1 /\ \A i \in 1 .. n + 1 : y[i] = x[i] BY <2>1, <1>7, PrefixOk
  <2> HIDE DEF y
  <2>3. y = x BY <2>2, <1>6, SeqEqual DEF MetaOk
  <2> QED BY <2>3 DEF y
<1> QED BY <1>5, <1>6, <1>7, <1>8, <1>9, <1>10 DEF made

(* The collector fills its file. *)
FillUp(go, t, f) ==
    IF go /\ t.size[f] = MetaPages /\ t.free # <<>> THEN WritePage(t, f, MetaPages, "count") ELSE <<t>>

LEMMA FillJournal ==
    ASSUME ~ReplaceWindow, NEW t, Good(t), NEW f \in Files, NEW go,
           go /\ t.size[f] = MetaPages => Contents(t, f) = Made(GcData, MetaPages),
           NEW A, Gone \in A, Contents(t, f) \in A, GcPages \in A
    PROVE  /\ Journal(FillUp(go, t, f), t, f, A)
           /\ Headed(t.flash, "bad") \subseteq Headed(Last(FillUp(go, t, f)).flash, "bad")
           /\ \/ Last(FillUp(go, t, f)) = t
              \/ /\ Contents(Last(FillUp(go, t, f)), f) = GcPages
                 /\ Last(FillUp(go, t, f)).size[f] = MetaPages + 1
<1>1. CASE ~(go /\ t.size[f] = MetaPages /\ t.free # <<>>)
  <2>1. FillUp(go, t, f) = <<t>> BY <1>1 DEF FillUp
  <2>2. Journal(<<t>>, t, f, A) /\ Last(<<t>>) = t BY JournalStays
  <2> QED BY <2>1, <2>2
<1>2. CASE go /\ t.size[f] = MetaPages /\ t.free # <<>>
  <2> DEFINE W == WritePage(t, f, MetaPages, "count")
  <2>1. FillUp(go, t, f) = W BY <1>2 DEF FillUp
  <2>2. MetaPages \in 0 .. t.size[f] /\ MetaPages < MaxPages /\ MetaPages \in Nat BY <1>2, Sizes
  <2>3. "count" \in PageData BY DEF PageData
  <2>4. WithPage(Contents(t, f), MetaPages, "count") = GcPages BY <1>2, GcPagesOk
  <2>5. WithPage(Contents(t, f), MetaPages, "count") \in A BY <2>4
  <2>6. /\ Journal(WritePage(t, f, MetaPages, "count"), t, f, A)
        /\ Headed(t.flash, "bad") \subseteq Headed(Last(WritePage(t, f, MetaPages, "count")).flash, "bad")
        /\ \/ /\ WritePage(t, f, MetaPages, "count") = <<t>>
              /\ Last(WritePage(t, f, MetaPages, "count")) = t
           \/ /\ Contents(Last(WritePage(t, f, MetaPages, "count")), f)
                   = WithPage(Contents(t, f), MetaPages, "count")
              /\ Last(WritePage(t, f, MetaPages, "count")).size[f] = Grown(t.size[f], MetaPages)
    BY <2>2, <2>3, <2>5, WriteJournal
  <2>7. Grown(t.size[f], MetaPages) = MetaPages + 1 BY <1>2, <2>2 DEF Grown
  <2> HIDE DEF W
  <2>8. /\ Journal(W, t, f, A)
        /\ Headed(t.flash, "bad") \subseteq Headed(Last(W).flash, "bad")
        /\ \/ Last(W) = t
           \/ Contents(Last(W), f) = GcPages /\ Last(W).size[f] = MetaPages + 1
    BY <2>4, <2>6, <2>7 DEF W
  <2> QED BY <2>1, <2>8
<1> QED BY <1>1, <1>2

(* The collector's file, when it has its meta data only. *)
LEMMA NamedIs ==
    ASSUME FsInv, fs.mode = "on", NEW f \in Named(fs, GcData)
    PROVE  /\ f \in Files /\ fs.size[f] \in MetaPages .. MaxPages
           /\ fs.size[f] = MetaPages => Contents(fs, f) = Made(GcData, MetaPages)
<1>1. f \in Files /\ Exists(fs, f) /\ Page(fs, f, 0) = GcData BY DEF Named
<1>2. /\ fs.size[f] # -1 /\ fs.size[f] \in MetaPages .. MaxPages
      /\ Len(Contents(fs, f)) = fs.size[f] /\ MetaOk(Contents(fs, f))
  BY <1>1, ExistsFile
<1>3. ASSUME fs.size[f] = MetaPages PROVE Contents(fs, f) = Made(GcData, MetaPages)
  <2> DEFINE c == Contents(fs, f)
             z == Made(GcData, MetaPages)
  <2>1. MetaPages \in Nat \ {0} /\ GcData \in Names BY Sizes, FlashFsAssumption
  <2>2. c[1] = GcData
    <3>1. ~(fs.size[f] < 0) /\ 1 \in 1 .. fs.size[f] BY <2>1, <1>3
    <3>2. c = [i \in 1 .. fs.size[f] |-> Page(fs, f, i - 1)] BY <3>1 DEF Contents
    <3>3. c[1] = Page(fs, f, 1 - 1)
      <4> HIDE DEF c
      <4> QED BY <3>1, <3>2
    <3>4. 1 - 1 = 0 OBVIOUS
    <3> QED BY <3>3, <3>4, <1>1
  <2>3. c \in Seq(Letters) /\ \A i \in 2 .. MetaPages : i <= Len(c) => c[i] = "meta1"
    BY <1>2 DEF MetaOk
  <2>4. Len(c) = MetaPages BY <1>2, <1>3
  <2>5. MetaOk(z) /\ Len(z) = MetaPages /\ \A i \in 1 .. MetaPages : z[i] = MetaData(GcData, i - 1)
    BY <2>1, MadeOk
  <2> HIDE DEF c, z
  <2>6. \A i \in 1 .. MetaPages : c[i] = z[i]
    <3> TAKE i \in 1 .. MetaPages
    <3>1. CASE i = 1 BY <3>1, <2>2, <2>5 DEF MetaData
    <3>2. CASE i # 1
      <4>1. i \in 2 .. MetaPages /\ i <= MetaPages /\ i - 1 # 0 BY <3>2, <2>1
      <4>2. z[i] = "meta1" BY <4>1, <2>5 DEF MetaData
      <4>3. c[i] = "meta1" BY <4>1, <2>3, <2>4
      <4> QED BY <4>2, <4>3
    <3> QED BY <3>1, <3>2
  <2>7. c = z BY <2>3, <2>4, <2>5, <2>6, SeqEqual DEF MetaOk
  <2> QED BY <2>7 DEF c, z
<1> QED BY <1>1, <1>2, <1>3

LEMMA GcStartInv ==
    ASSUME ~ReplaceWindow, FsInv, GcStart
    PROVE  FsInv' /\ Kept
<1> DEFINE found == Named(fs, GcData)
           new == found = {} /\ FreeIds(fs) # {}
           f == Min(IF found # {} THEN found ELSE IF new THEN FreeIds(fs) ELSE Files)
           opened == IF new THEN Create(fs, f, GcData) ELSE <<fs>>
           go == new \/ found # {}
           fill == FillUp(go, Last(opened), f)
           J == Then(opened, fill)
           want == GcPages
           now == IF Contents(Last(J), f) = Contents(fs, f) THEN Contents(fs, f)
                  ELSE SubSeq(want, 1, Last(J).size[f])
<1>1. /\ fs.mode = "on"
      /\ \/ Completes(J, f, now) /\ gcReady' = TRUE
         \/ CutShort(J, f, want)
  BY DEF GcStart, FillUp, GcPages
<1>2. Good(fs) BY <1>1, InvFacts
<1>3. /\ f \in Files
      /\ found # {} => f \in found
      /\ new => fs.size[f] = -1 /\ Contents(fs, f) = Gone
  <2>1. Files \subseteq Nat /\ 0 \in Files /\ found \subseteq Files BY Sizes DEF Files, Named
  <2>2. CASE found # {}
    <3>1. f = Min(found) BY <2>2
    <3>2. found \in SUBSET Nat BY <2>1
    <3> HIDE DEF found
    <3>3. Min(found) \in found BY <2>2, <3>2, MinIn
    <3> HIDE DEF f
    <3>4. ~new BY <2>2
    <3> QED BY <3>1, <3>3, <3>4, <2>1
  <2>3. CASE new
    <3>1. f = Min(FreeIds(fs)) BY <2>3
    <3>2. Min(FreeIds(fs)) \in Files /\ fs.size[Min(FreeIds(fs))] = -1
          /\ Contents(fs, Min(FreeIds(fs))) = Gone
      BY <1>1, <2>3, NewFile
    <3> HIDE DEF f
    <3> QED BY <3>1, <3>2, <2>3
  <2>4. CASE found = {} /\ ~new
    <3>1. f = Min(Files) BY <2>4
    <3>2. Min(Files) \in Files
      <4>1. Files \in SUBSET Nat /\ Files # {} BY <2>1
      <4> QED BY <4>1, MinIn
    <3> HIDE DEF f
    <3> QED BY <3>1, <3>2, <2>4
  <2> QED BY <2>2, <2>3, <2>4
<1>4. /\ MetaOk(want)
      /\ \A m \in 0 .. MetaPages : SubSeq(want, 1, m) = Made(GcData, m)
      /\ SubSeq(want, 1, MetaPages + 1) = want
      /\ Len(want) = MetaPages + 1 /\ MetaPages \in Nat
  BY GcPagesOk, Sizes
<1>5. GcData \in Names BY FlashFsAssumption
<1>5a. MetaPages \in Nat BY Sizes
<1>5b. MetaPages # -1 /\ MetaPages \in 0 .. MetaPages BY <1>5a
<1> HIDE DEF f, found
(* What the journal does to the file. *)
<1>6. \E A : /\ Journal(J, fs, f, A)
             /\ A \subseteq {Contents(fs, f)} \cup Partial(f, want)
             /\ Headed(fs.flash, "bad") \subseteq Headed(Last(J).flash, "bad")
             /\ \/ Contents(Last(J), f) = Contents(fs, f)
                \/ Contents(Last(J), f) = SubSeq(want, 1, Last(J).size[f])
  <2>1. CASE new
    <3> DEFINE A == {Gone, want} \cup {Made(GcData, m) : m \in 0 .. MetaPages}
    <3>1. fs.size[f] = -1 /\ Contents(fs, f) = Gone BY <2>1, <1>3
    <3>2. opened = Create(fs, f, GcData) BY <2>1
    <3>3. Gone \in A /\ want \in A /\ \A m \in 0 .. MetaPages : Made(GcData, m) \in A OBVIOUS
    <3>4. A \subseteq {Contents(fs, f)} \cup Partial(f, want)
      <4>1. ASSUME NEW m \in 0 .. MetaPages PROVE Made(GcData, m) \in Partial(f, want)
        <5>1. m \in 0 .. Len(want) /\ SubSeq(want, 1, m) = Made(GcData, m) BY <1>4
        <5> QED BY <5>1, <3>1 DEF Partial
      <4>2. Gone \in Partial(f, want) /\ want \in Partial(f, want) BY DEF Partial
      <4> QED BY <4>1, <4>2
    <3> HIDE DEF A, go, want
    <3>5. /\ Journal(Create(fs, f, GcData), fs, f, A)
          /\ Headed(fs.flash, "bad") \subseteq Headed(Last(Create(fs, f, GcData)).flash, "bad")
          /\ \/ /\ Last(Create(fs, f, GcData)).size[f] = -1
                /\ Contents(Last(Create(fs, f, GcData)), f) = Gone
             \/ /\ Last(Create(fs, f, GcData)).size[f] = MetaPages
                /\ Contents(Last(Create(fs, f, GcData)), f) = Made(GcData, MetaPages)
      BY <1>2, <1>3, <1>5, <3>1, <3>3, CreateJournal
    <3> DEFINE t == Last(opened)
    <3>6. /\ Journal(opened, fs, f, A) /\ Headed(fs.flash, "bad") \subseteq Headed(t.flash, "bad")
          /\ \/ t.size[f] = -1 /\ Contents(t, f) = Gone
             \/ t.size[f] = MetaPages /\ Contents(t, f) = Made(GcData, MetaPages)
      BY <3>2, <3>5
    <3> HIDE DEF opened
    <3>7. Good(t) BY <3>6 DEF Journal
    <3>8. /\ go /\ t.size[f] = MetaPages => Contents(t, f) = Made(GcData, MetaPages)
          /\ Contents(t, f) \in A
      <4> QED BY <1>5b, <3>3, <3>6
    <3>9. Gone \in A /\ GcPages \in A BY <3>3 DEF want
    <3> HIDE DEF t
    <3>10. /\ Journal(FillUp(go, t, f), t, f, A)
           /\ Headed(t.flash, "bad") \subseteq Headed(Last(FillUp(go, t, f)).flash, "bad")
           /\ \/ Last(FillUp(go, t, f)) = t
              \/ /\ Contents(Last(FillUp(go, t, f)), f) = GcPages
                 /\ Last(FillUp(go, t, f)).size[f] = MetaPages + 1
      BY <1>3, <3>7, <3>8, <3>9, FillJournal
    <3>11. /\ Journal(fill, Last(opened), f, A)
           /\ Headed(t.flash, "bad") \subseteq Headed(Last(fill).flash, "bad")
           /\ \/ Last(fill) = t
              \/ Contents(Last(fill), f) = want /\ Last(fill).size[f] = MetaPages + 1
      BY <3>10 DEF t, want
    <3> HIDE DEF fill
    <3>12. Journal(Then(opened, fill), fs, f, A \cup A) /\ Last(Then(opened, fill)) = Last(fill)
      BY <3>6, <3>11, JournalThen
    <3>13. A \cup A = A OBVIOUS
    <3>14. Journal(J, fs, f, A) /\ Last(J) = Last(fill) BY <3>12, <3>13
    <3> HIDE DEF J
    <3>15. Headed(fs.flash, "bad") \subseteq Headed(Last(J).flash, "bad") BY <3>6, <3>11, <3>14
    <3>17. \/ Contents(Last(J), f) = Contents(fs, f)
           \/ Contents(Last(J), f) = SubSeq(want, 1, Last(J).size[f])
      BY <1>4, <1>5b, <3>1, <3>6, <3>11, <3>14
    <3> QED BY <3>4, <3>14, <3>15, <3>17
  <2>2. CASE ~new
    <3> DEFINE A == {Gone, want, Contents(fs, f)}
    <3>1. Gone \in A /\ GcPages \in A /\ Contents(fs, f) \in A OBVIOUS
    <3>2. A \subseteq {Contents(fs, f)} \cup Partial(f, want) BY DEF Partial
    <3>3. opened = <<fs>> BY <2>2
    <3>4. go /\ fs.size[f] = MetaPages => Contents(fs, f) = Made(GcData, MetaPages)
      <4> SUFFICES ASSUME go, fs.size[f] = MetaPages
                   PROVE  Contents(fs, f) = Made(GcData, MetaPages)
        OBVIOUS
      <4>1. f \in Named(fs, GcData) BY <1>3, <2>2 DEF found
      <4> QED BY <4>1, <1>1, NamedIs
    <3> HIDE DEF A, go, want
    <3>5. Journal(<<fs>>, fs, f, A) /\ Last(<<fs>>) = fs BY <1>2, <3>1, JournalStays
    <3>6. Journal(opened, fs, f, A) /\ Last(opened) = fs BY <3>3, <3>5
    <3> HIDE DEF opened
    <3>7. /\ Journal(FillUp(go, fs, f), fs, f, A)
          /\ Headed(fs.flash, "bad") \subseteq Headed(Last(FillUp(go, fs, f)).flash, "bad")
          /\ \/ Last(FillUp(go, fs, f)) = fs
             \/ /\ Contents(Last(FillUp(go, fs, f)), f) = GcPages
                /\ Last(FillUp(go, fs, f)).size[f] = MetaPages + 1
      BY <1>2, <1>3, <3>1, <3>4, FillJournal
    <3>8. /\ Journal(fill, Last(opened), f, A)
          /\ Headed(fs.flash, "bad") \subseteq Headed(Last(fill).flash, "bad")
          /\ \/ Last(fill) = fs
             \/ Contents(Last(fill), f) = want /\ Last(fill).size[f] = MetaPages + 1
      BY <3>6, <3>7 DEF want
    <3> HIDE DEF fill
    <3>9. Journal(Then(opened, fill), fs, f, A \cup A) /\ Last(Then(opened, fill)) = Last(fill)
      BY <3>6, <3>8, JournalThen
    <3>10. A \cup A = A OBVIOUS
    <3>11. Journal(J, fs, f, A) /\ Last(J) = Last(fill) BY <3>9, <3>10
    <3> HIDE DEF J
    <3>12. \/ Contents(Last(J), f) = Contents(fs, f)
           \/ Contents(Last(J), f) = SubSeq(want, 1, Last(J).size[f])
      <4>1. SubSeq(want, 1, MetaPages + 1) = want BY <1>4
      <4>2. CASE Last(fill) = fs BY <4>2, <3>11
      <4>3. CASE Contents(Last(fill), f) = want /\ Last(fill).size[f] = MetaPages + 1
        <5>1. Contents(Last(J), f) = want /\ Last(J).size[f] = MetaPages + 1 BY <4>3, <3>11
        <5> QED BY <4>1, <5>1
      <4> QED BY <3>8, <4>2, <4>3
    <3> QED BY <3>2, <3>8, <3>11, <3>12
  <2> QED BY <2>1, <2>2
<1> HIDE DEF J, want
<1>7. PICK A : /\ Journal(J, fs, f, A)
               /\ A \subseteq {Contents(fs, f)} \cup Partial(f, want)
               /\ Headed(fs.flash, "bad") \subseteq Headed(Last(J).flash, "bad")
               /\ \/ Contents(Last(J), f) = Contents(fs, f)
                  \/ Contents(Last(J), f) = SubSeq(want, 1, Last(J).size[f])
  BY <1>6
<1>8. CASE Completes(J, f, now) /\ gcReady' = TRUE
  <2>1. Contents(Last(J), f) = now BY <1>7
  <2>2. MetaOk(now)
    <3>1. Good(Last(J)) BY <1>7 DEF Journal
    <3>2. CASE now = Contents(fs, f)
      <4>1. MetaOk(Contents(fs, f)) BY <1>1, <1>3, ContentsOk
      <4> QED BY <4>1, <3>2
    <3>3. CASE now # Contents(fs, f)
      <4>1. now = SubSeq(want, 1, Last(J).size[f]) BY <3>3
      <4> DEFINE m == Last(J).size[f]
      <4>2. m \in -1 .. MaxPages
        <5>1. Last(J) \in State BY <3>1 DEF Good, Volume
        <5> QED BY <5>1, <1>3, StateType
      <4> HIDE DEF m
      <4>3. m # -1 => Len(Contents(Last(J), f)) = m BY <3>1, <1>3, ContentsType DEF m
      <4> HIDE DEF now
      <4>4. now = SubSeq(want, 1, m) BY <4>1 DEF m
      <4>5. want \in Seq(Letters) /\ Len(want) \in Nat BY <1>4 DEF MetaOk
      <4>6. CASE m = -1
        <5>1. Contents(Last(J), f) = Gone BY <4>6, <3>1, <1>3, GoodNoFile DEF m
        <5> QED BY <5>1, <2>1, MetaOkGone
      <4>7. CASE m # -1 /\ m \in 0 .. Len(want) BY <4>4, <4>7, <1>4, PrefixOk
      <4>8. CASE m # -1 /\ m \notin 0 .. Len(want)
        <5>1. Contents(Last(J), f) \in Seq(Letters) /\ Len(now) = m
          BY <2>1, <3>1, <1>3, <4>3, <4>8, ContentsType
        <5>2. now \in Seq(Letters) BY <2>1, <5>1
        <5>3. m > Len(want) /\ m \in Nat BY <4>2, <4>5, <4>8, Sizes
        <5>4. \A i \in 2 .. MetaPages : i <= Len(now) => now[i] = "meta1"
          <6> SUFFICES ASSUME NEW i \in 2 .. MetaPages, i <= Len(now) PROVE now[i] = "meta1"
            OBVIOUS
          <6>1. i \in 1 .. m /\ i <= Len(want) BY <1>4, <5>1, <5>3, Sizes
          <6>2. want[i] = "meta1" BY <6>1, <1>4 DEF MetaOk
          <6>3. now[i] = want[i]
            <7>1. now = [j \in 1 .. m |-> want[1 + j - 1]] BY <4>4, <5>3 DEF SubSeq
            <7>2. 1 + i - 1 = i OBVIOUS
            <7> QED BY <6>1, <7>1, <7>2
          <6> QED BY <6>2, <6>3
        <5> QED BY <5>2, <5>4 DEF MetaOk
      <4> QED BY <4>6, <4>7, <4>8
    <3> QED BY <3>2, <3>3
  <2>3. gcReady' \in BOOLEAN BY <1>8
  <2> HIDE DEF now
  <2>4. FsInv' /\ fs' = Last(J) BY <1>1, <1>3, <1>7, <1>8, <2>1, <2>2, <2>3, CompletesInv
  <2> QED BY <2>4, <1>7 DEF Kept
<1>9. CASE CutShort(J, f, want)
  <2>1. FsInv' /\ fs'.mode = "off" BY <1>1, <1>3, <1>4, <1>7, <1>9, CutShortInv
  <2> QED BY <2>1 DEF Kept
<1> QED BY <1>1, <1>8, <1>9

LEMMA WearLevelInv ==
    ASSUME ~ReplaceWindow, FsInv, NEW b \in Blocks, WearLevel(b)
    PROVE  FsInv' /\ Kept
<1> DEFINE f == fs.flash[b].file
           n == fs.flash[b].blk
           now == Contents(fs, f)
           J == Replace(fs, f, n)
<1>1. fs.mode = "on" /\ fs.flash[b].hdr = "valid" BY DEF WearLevel
<1>2. Good(fs) /\ fs \in State /\ FlashOk(fs.flash) BY <1>1, InvFacts DEF Good, Volume
<1>3. fs.flash[b] \in Block BY <1>2, FlashType
<1>4. f \in Files /\ n \in Blocks /\ b \in ValidOf(fs.flash, f)
  <2>1. fs.flash[b].file \in Files /\ fs.flash[b].blk \in Blocks BY <1>3 DEF Block
  <2> QED BY <2>1, <1>1 DEF ValidOf
<1>5. n \in Nat BY <1>4, Sizes DEF Blocks
<1> HIDE DEF f
<1>6. fs.size[f] # -1
  <2>1. fs.size[f] = -1 => ValidOf(fs.flash, f) = {} BY <1>2, <1>4, GoodNoFile
  <2> QED BY <2>1, <1>4
<1>7. n + 1 \in 1 .. Len(fs.list[f]) /\ Len(fs.list[f]) \in 1 .. NBlocks
  BY <1>2, <1>4, <1>6, GoodFile
<1> HIDE DEF n
<1>8. Len(fs.list[f]) \in Nat BY <1>7, Sizes
<1>9. n < Len(fs.list[f]) /\ n \in 0 .. Len(fs.list[f]) - 1 BY <1>5, <1>7, <1>8
<1>10. Do(J, f, now) BY <1>9 DEF WearLevel, f, n
<1>11. MetaOk(now) BY <1>1, <1>4, ContentsOk
<1>12. /\ Journal(J, fs, f, {now}) /\ Contents(Last(J), f) = now
       /\ Headed(fs.flash, "bad") \subseteq Headed(Last(J).flash, "bad")
  <2>1. CASE fs.free = <<>>
    <3>1. J = <<fs>> BY <2>1 DEF Replace
    <3>2. Journal(<<fs>>, fs, f, {now}) /\ Last(<<fs>>) = fs BY <1>2, JournalStays
    <3> HIDE DEF J
    <3> QED BY <3>1, <3>2
  <2>2. CASE fs.free # <<>>
    <3>1. now \in {now} OBVIOUS
    <3>2. /\ Journal(Replace(fs, f, n), fs, f, {now})
          /\ Contents(Last(Replace(fs, f, n)), f) = Contents(fs, f)
          /\ Headed(fs.flash, "bad") \subseteq Headed(Last(Replace(fs, f, n)).flash, "bad")
      BY <1>2, <1>4, <1>6, <1>9, <2>2, <3>1, ReplaceGood
    <3> QED BY <3>2
  <2> QED BY <2>1, <2>2
<1> HIDE DEF J
<1>13. {now} \subseteq {Contents(fs, f)} \cup Partial(f, now) OBVIOUS
<1>14. Contents(Last(J), f) \in {Contents(fs, f), now} BY <1>12
<1>15. \A c \in Headed(fs.flash, "bad") : c # fs.dirty[1] => c \in Headed(Last(J).flash, "bad")
  BY <1>12
<1> HIDE DEF now
<1> QED BY <1>1, <1>4, <1>10, <1>11, <1>12, <1>13, <1>14, <1>15, DoInv

LEMMA NextInv ==
    ASSUME ~ReplaceWindow, FsInv, [Next]_vars
    PROVE  FsInv' /\ Kept
<1>1. CASE Mount BY <1>1, MountInv
<1>2. CASE MountCutShort BY <1>2, MountCutShortInv
<1>3. CASE PowerOff BY <1>3, PowerOffInv
<1>4. CASE Users
  <2>1. CASE \E name \in Names : CreateFile(name) BY <2>1, CreateFileInv
  <2>2. CASE \E f \in Files : DeleteFile(f) BY <2>2, DeleteFileInv
  <2>3. CASE \E f \in Files : \E p \in MetaPages .. MaxPages - 1 : \E d \in Values : WriteFile(f, p, d)
    BY <2>3, WriteFileInv
  <2> QED BY <1>4, <2>1, <2>2, <2>3 DEF Users
<1>5. CASE GcStart BY <1>5, GcStartInv
<1>6. CASE GcStep BY <1>6, GcStepInv
<1>7. CASE \E b \in Blocks : WearLevel(b) BY <1>7, WearLevelInv
<1>8. CASE UNCHANGED vars
  <2>1. /\ gcReady' = gcReady /\ crashes' = crashes /\ allowed' = allowed /\ fs' = fs
    BY <1>8 DEF vars
  <2>2. FsInv'
    <3>1. AllowedOk' BY <2>1 DEF FsInv, AllowedOk
    <3>2. CASE Good(fs) /\ \A f \in Files : Contents(fs, f) \in allowed[f]
      BY <2>1, <3>1, <3>2 DEF FsInv
    <3>3. CASE /\ FlashOk(fs.flash) /\ fs = Unmounted(fs.flash)
               /\ \A f \in Files : Off(fs.flash, f, allowed[f])
      BY <2>1, <3>1, <3>3 DEF FsInv
    <3> QED BY <3>2, <3>3 DEF FsInv
  <2>3. Kept BY <2>1 DEF Kept
  <2> QED BY <2>2, <2>3
<1> QED BY <1>1, <1>2, <1>3, <1>4, <1>5, <1>6, <1>7, <1>8 DEF Next

(* The inductive invariant: what a mount would find of every file (ffs_page_v_init, lines 65-209
   of ffs_page.c) is what the file may hold, and the lists in RAM of a mounted volume say the
   same, in every state of any sequence of creations, writes, deletions, erasures and power
   failures, except failures between lines 560 and 511 of ffs_page.c. *)
THEOREM FsInvariant == ~ReplaceWindow /\ Spec => []FsInv
<1> SUFFICES ASSUME ~ReplaceWindow PROVE Spec => []FsInv
  OBVIOUS
<1>1. Init => FsInv BY InitInv
<1>2. FsInv /\ [Next]_vars => FsInv' BY NextInv
<1> QED BY <1>1, <1>2, PTL DEF Spec

-----------------------------------------------------------------------------
(* What the invariant says                                                   *)

(* Files survive power failures: a mounted file system has each file as its users last wrote it,
   and a file that was being written when the power failed old, new or gone, never a mixture
   (ffs_page_i8_write and ffs_page_i16_replace_block in ffs_page.c, and the mount). *)
LEMMA FilesSurviveHolds ==
    ASSUME FsInv
    PROVE  FilesSurvive
BY InvFacts DEF FilesSurvive

(* Files survive power failures, for any flash and any number of failures. *)
THEOREM FilesSurviveAlways == ~ReplaceWindow /\ Spec => []FilesSurvive
BY FsInvariant, FilesSurviveHolds, PTL

LEMMA TypeHolds ==
    ASSUME FsInv
    PROVE  TypeOK
<1>1. /\ gcReady \in BOOLEAN /\ crashes \in 0 .. MaxCrashes
      /\ \A f \in Files : allowed[f] # {}
  BY DEF FsInv, AllowedOk
<1>2. FlashOk(fs.flash) BY InvFacts
<1>3. fs.flash \in [Blocks -> Block] /\ \A b \in Blocks : Len(fs.flash[b].log) <= PhysPages
  BY <1>2 DEF FlashOk
<1>4. CASE fs.mode = "on"
  <2>1. fs \in State BY <1>4, InvFacts DEF Good, Volume
  <2>2. /\ fs.free \in Seq(Blocks) /\ fs.dirty \in Seq(Blocks)
        /\ fs.list \in [Files -> Seq(Blocks)] /\ fs.size \in [Files -> -1 .. MaxPages]
    BY <2>1 DEF State
  <2> QED BY <1>1, <1>3, <1>4, <2>2 DEF TypeOK
<1>5. CASE fs.mode = "off"
  <2>1. fs = Unmounted(fs.flash) BY <1>5, InvFacts
  <2>2. /\ fs.free = <<>> /\ fs.dirty = <<>> /\ fs.list = [f \in Files |-> <<>>]
        /\ fs.size = [f \in Files |-> -1]
    BY <2>1 DEF Unmounted
  <2>3. -1 \in -1 .. MaxPages BY Sizes
  <2>4. /\ fs.free \in Seq(Blocks) /\ fs.dirty \in Seq(Blocks)
        /\ fs.list \in [Files -> Seq(Blocks)] /\ fs.size \in [Files -> -1 .. MaxPages]
    BY <2>2, <2>3
  <2> QED BY <1>1, <1>3, <1>5, <2>4 DEF TypeOK
<1> QED BY <1>4, <1>5, InvFacts

LEMMA FreeErased ==
    ASSUME FsInv
    PROVE  FreeBlocksErased
<1> SUFFICES ASSUME fs.mode = "on", NEW b \in Range(fs.free)
             PROVE  fs.flash[b] = Blank("erased")
  BY DEF FreeBlocksErased
<1>1. FlashOk(fs.flash) /\ Enumerates(fs.free, Headed(fs.flash, "erased"))
  BY InvFacts DEF Good, Volume
<1>2. b \in Headed(fs.flash, "erased") BY <1>1 DEF Enumerates
<1> QED BY <1>1, <1>2 DEF Headed, FlashOk

LEMMA ListsMatch ==
    ASSUME FsInv
    PROVE  ListsMatchFlash
<1> SUFFICES ASSUME fs.mode = "on" PROVE ListsMatchFlash
  BY DEF ListsMatchFlash
<1>1. Good(fs) /\ FlashOk(fs.flash) BY InvFacts DEF Good, Volume
<1>2. ASSUME NEW f \in Files, NEW k \in DOMAIN fs.list[f]
      PROVE  /\ fs.flash[fs.list[f][k]].hdr = "valid" /\ fs.flash[fs.list[f][k]].file = f
             /\ fs.flash[fs.list[f][k]].blk = k - 1
  <2>1. fs.size[f] # -1
    <3>1. fs.size[f] = -1 => fs.list[f] = <<>> BY <1>1, GoodNoFile
    <3> QED BY <3>1
  <2>2. /\ k \in 1 .. Len(fs.list[f])
        /\ fs.list[f][k] \in ValidOf(fs.flash, f) /\ fs.flash[fs.list[f][k]].blk = k - 1
    BY <1>1, <2>1, GoodFile
  <2> QED BY <2>2 DEF ValidOf
<1>3. ASSUME NEW b \in Blocks, fs.flash[b].hdr = "valid"
      PROVE  b \in Range(fs.list[fs.flash[b].file])
  <2>1. fs.flash[b] \in Block BY <1>1, FlashType
  <2>2. fs.flash[b].file \in Files BY <2>1 DEF Block
  <2>3. b \in ValidOf(fs.flash, fs.flash[b].file) BY <1>3 DEF ValidOf
  <2>4. Enumerates(fs.list[fs.flash[b].file], ValidOf(fs.flash, fs.flash[b].file))
    BY <1>1, <2>2, GoodList
  <2> QED BY <2>3, <2>4 DEF Enumerates
<1> QED BY <1>2, <1>3 DEF ListsMatchFlash

(* The list that block b of a mounted volume is in. *)
Home(b) ==
    IF fs.flash[b].hdr = "erased" THEN -2
    ELSE IF fs.flash[b].hdr = "bad" THEN -1
    ELSE fs.flash[b].file

LEMMA Partitioned ==
    ASSUME FsInv
    PROVE  BlocksPartitioned
<1> DEFINE X == -2 .. NFiles - 1
           lists == [x \in X |-> IF x = -2 THEN fs.free ELSE IF x = -1 THEN fs.dirty ELSE fs.list[x]]
<1> SUFFICES ASSUME fs.mode = "on" PROVE BlocksPartitioned
  BY DEF BlocksPartitioned
<1>1. /\ Good(fs) /\ FlashOk(fs.flash)
      /\ Headed(fs.flash, "garbled") = {}
      /\ Enumerates(fs.free, Headed(fs.flash, "erased"))
      /\ Enumerates(fs.dirty, Headed(fs.flash, "bad"))
  BY InvFacts DEF Good, Volume
<1>2. \A f \in Files : Enumerates(fs.list[f], ValidOf(fs.flash, f)) BY <1>1, GoodList
<1>3. Files = 0 .. NFiles - 1 /\ NFiles \in Nat /\ DOMAIN lists = X BY Sizes DEF Files
<1>4. \A b \in Blocks : /\ fs.flash[b].file \in Files
                        /\ fs.flash[b].hdr \in {"erased", "bad", "valid"}
  <2> TAKE b \in Blocks
  <2>1. fs.flash[b] \in Block BY <1>1, FlashType
  <2>2. fs.flash[b].file \in Files /\ fs.flash[b].hdr \in {"erased", "garbled", "bad", "valid"}
    BY <2>1 DEF Block
  <2>3. fs.flash[b].hdr # "garbled" BY <1>1 DEF Headed
  <2> QED BY <2>2, <2>3
<1>5. ASSUME NEW x \in X
      PROVE  /\ \A i, j \in DOMAIN lists[x] : lists[x][i] = lists[x][j] => i = j
             /\ Range(lists[x]) = {b \in Blocks : Home(b) = x}
  <2>1. CASE x = -2
    <3>1. lists[x] = fs.free BY <2>1
    <3>2. Headed(fs.flash, "erased") = {b \in Blocks : Home(b) = x}
      <4>1. \A b \in Blocks : (fs.flash[b].hdr = "erased") <=> (Home(b) = x)
        <5> TAKE b \in Blocks
        <5>1. fs.flash[b].file \in Nat BY <1>3, <1>4
        <5> QED BY <5>1, <2>1 DEF Home
      <4> QED BY <4>1 DEF Headed
    <3> HIDE DEF lists
    <3> QED BY <3>1, <3>2, <1>1 DEF Enumerates
  <2>2. CASE x = -1
    <3>1. lists[x] = fs.dirty BY <2>2
    <3>2. Headed(fs.flash, "bad") = {b \in Blocks : Home(b) = x}
      <4>1. \A b \in Blocks : (fs.flash[b].hdr = "bad") <=> (Home(b) = x)
        <5> TAKE b \in Blocks
        <5>1. fs.flash[b].file \in Nat BY <1>3, <1>4
        <5> QED BY <5>1, <2>2 DEF Home
      <4> QED BY <4>1 DEF Headed
    <3> HIDE DEF lists
    <3> QED BY <3>1, <3>2, <1>1 DEF Enumerates
  <2>3. CASE x # -2 /\ x # -1
    <3>1. lists[x] = fs.list[x] BY <2>3
    <3>2. x \in Files /\ x \in Nat BY <2>3, <1>3
    <3>3. ValidOf(fs.flash, x) = {b \in Blocks : Home(b) = x}
      <4>1. \A b \in Blocks : (fs.flash[b].hdr = "valid" /\ fs.flash[b].file = x) <=> (Home(b) = x)
        BY <1>4, <2>3 DEF Home
      <4> QED BY <4>1 DEF ValidOf
    <3> HIDE DEF lists
    <3>4. Enumerates(fs.list[x], ValidOf(fs.flash, x)) BY <3>2, <1>2
    <3> QED BY <3>1, <3>3, <3>4 DEF Enumerates
  <2> QED BY <2>1, <2>2, <2>3
<1>6. \A b \in Blocks : Home(b) \in X
  <2> TAKE b \in Blocks
  <2>1. fs.flash[b].file \in X /\ -2 \in X /\ -1 \in X BY <1>3, <1>4, Sizes
  <2> QED BY <2>1 DEF Home
<1> HIDE DEF lists, X
<1>7. \A b \in Blocks : \E x \in DOMAIN lists : b \in Range(lists[x]) BY <1>3, <1>5, <1>6
<1>8. ASSUME NEW x \in DOMAIN lists, NEW y \in DOMAIN lists,
             NEW i \in DOMAIN lists[x], NEW j \in DOMAIN lists[y], lists[x][i] = lists[y][j]
      PROVE  x = y /\ i = j
  <2>1. lists[x][i] \in Range(lists[x]) /\ lists[y][j] \in Range(lists[y]) BY DEF Range
  <2>2. x \in X /\ y \in X BY <1>3
  <2>3. Home(lists[x][i]) = x /\ Home(lists[y][j]) = y BY <2>1, <2>2, <1>5
  <2>4. x = y BY <2>3, <1>8
  <2> QED BY <2>2, <2>4, <1>5, <1>8
<1> QED BY <1>7, <1>8 DEF BlocksPartitioned, lists, X

(* A mounted volume is consistent: free blocks are erased, each block is in one list of
   ffs_block.c or ffs_page.c and once, and the lists of the files are what their blocks say. *)
THEOREM VolumeSoundAlways == ~ReplaceWindow /\ Spec => []VolumeSound
<1>1. FsInv => VolumeSound BY TypeHolds, FreeErased, ListsMatch, Partitioned DEF VolumeSound
<1> QED BY <1>1, FsInvariant, PTL

(* A block that leaves the dirty list is the first one on it. *)
LEMMA FirstLeaves ==
    ASSUME ~ReplaceWindow, FsInv, [Next]_vars, fs.mode = "on", fs'.mode = "on",
           NEW i \in DOMAIN fs.dirty, NEW j \in DOMAIN fs.dirty, i < j
    PROVE  fs.dirty[j] \in Range(fs'.dirty)
<1>1. FsInv' /\ Kept BY NextInv
<1>2. Enumerates(fs.dirty, Headed(fs.flash, "bad")) BY InvFacts DEF Good, Volume
<1>3. Enumerates(fs'.dirty, Headed(fs'.flash, "bad"))
  <2>1. Good(fs')
    <3>1. Unmounted(fs'.flash).mode = "off" BY DEF Unmounted
    <3> QED BY <3>1, <1>1 DEF FsInv
  <2> QED BY <2>1 DEF Good, Volume
<1>4. fs.dirty \in Seq(Blocks) /\ DOMAIN fs.dirty = 1 .. Len(fs.dirty) /\ Len(fs.dirty) \in Nat
  BY <1>2 DEF Enumerates
<1>5. 1 \in DOMAIN fs.dirty /\ j # 1 BY <1>4
<1>6. fs.dirty[j] # fs.dirty[1] BY <1>2, <1>5 DEF Enumerates
<1>7. fs.dirty[j] \in Headed(fs.flash, "bad")
  <2>1. fs.dirty[j] \in Range(fs.dirty) BY DEF Range
  <2> QED BY <2>1, <1>2 DEF Enumerates
<1>8. fs.dirty[j] \in Headed(fs'.flash, "bad") BY <1>1, <1>6, <1>7 DEF Kept
<1> QED BY <1>3, <1>8 DEF Enumerates

(* garbage_collector_thread of ffs_gc.c takes the blocks from the dirty list in the order in
   which they were marked; no other operation takes one from it. *)
THEOREM OldestFirstAlways == ~ReplaceWindow /\ Spec => OldestFirst
<1> SUFFICES ASSUME ~ReplaceWindow PROVE Spec => OldestFirst
  OBVIOUS
<1>1. FsInv /\ [Next]_vars
      => [fs.mode = "on" /\ fs'.mode = "on" =>
            \A i, j \in DOMAIN fs.dirty :
               i < j /\ fs.dirty[j] \notin Range(fs'.dirty) => fs.dirty[i] \notin Range(fs'.dirty)]_vars
  BY FirstLeaves
<1>2. Spec => []FsInv BY FsInvariant
<1> QED BY <1>1, <1>2, PTL DEF Spec, OldestFirst
=============================================================================
