-------------------------------- MODULE Node --------------------------------
(***************************************************************************)
(* What a node keeps by itself: its clock, its configuration store, the    *)
(* files that clients read and write over TFTP, and its key values.        *)
(*                                                                         *)
(* The parts share neither constants nor variables; each takes its steps   *)
(* whatever the others do.                                                 *)
(***************************************************************************)
EXTENDS Integers, Sequences, FiniteSets

\* See the modules of the parts.
CONSTANTS
    WordSize, Top, TicksPerMs, MaxLate,
    Length, KnownTo, TypeIn, Defaults, TotalBlocks, Values, MaxSets, MaxFailures,
    Cases, BlockLength, Transfers, Resends, MaxSetbacks,
    Width, AppParams, DataLength, PageLength, CellValues, QueueLength, MaxCalls, MaxOutages

VARIABLES
    focus,        \* the part that a run looks at, see Services
    systemTime, tcnt, start, base, armed, since,
    eeprom, index, writing, firmware, power, allowed, stale, sets, failures,
    file, transfer, up, down, datagrams, old, new, shown, unlucky, troubles,
    kvData, memory, kvMode, notifications, saved, hurt, noted, told, calls, outages

Clock == INSTANCE Clock
Config == INSTANCE Config
Tftp == INSTANCE Tftp
KeyValue == INSTANCE KeyValue

\* The interrupt takes whole milliseconds off the counter.
ClockAssumption ==
    /\ WordSize \in Nat \ {0} /\ TicksPerMs \in Nat \ {0} /\ MaxLate \in Nat
    /\ Top \in Nat /\ Top % TicksPerMs = 0

\* Each version of the firmware sets some of its parameters, the version to its own number,
\* and there is a block more than it needs.
ConfigAssumption ==
    /\ IsFiniteSet(Config!Params) /\ "empty" \notin Config!Params /\ Values \subseteq Int
    /\ \A p \in Config!Params : Length[p] \in Nat \ {0}
    /\ 1 \in DOMAIN KnownTo /\ DOMAIN KnownTo \subseteq Nat /\ TotalBlocks \in Nat \ {0}
    /\ \A version \in DOMAIN KnownTo :
          /\ KnownTo[version] \subseteq Config!Params
          /\ Defaults[version] \in Seq(KnownTo[version] \X Int) /\ Defaults[version] # <<>>
          /\ \A i \in 1 .. Len(Defaults[version]) :
                Defaults[version][i][1] = "version" => Defaults[version][i][2] = version
          /\ Cardinality(Config!CellsOf(version)) < TotalBlocks

\* The sockets have numbers, and a client sends a message again at least as often as one is
\* lost.  No uploaded file has the mark of an absent one.
TftpAssumption ==
    /\ BlockLength \in Nat \ {0} /\ Transfers \subseteq Nat \ {0}
    /\ Resends \in Nat /\ MaxSetbacks \in 0 .. Resends
    /\ \A case \in Cases :
          case[1] \in Seq(Tftp!Units) /\ case[2] \in Seq(Tftp!Units \ {"absent"})

\* A value fits in its record; cells of values are not taken for headers.
KeyValueAssumption ==
    /\ DataLength \in Nat \ {0} /\ PageLength \in Nat \ {0} /\ QueueLength \in Nat
    /\ KeyValue!Keys \cap (CellValues \cup {KeyValue!Zero}) = {}
    /\ \A k \in KeyValue!Keys : Width[k] \in 1 .. DataLength

ASSUME NodeAssumption ==
    ClockAssumption /\ ConfigAssumption /\ TftpAssumption /\ KeyValueAssumption

-----------------------------------------------------------------------------
clockVars == <<systemTime, tcnt, start, base, armed, since>>
configVars == <<eeprom, index, writing, firmware, power, allowed, stale, sets, failures>>
tftpVars == <<file, transfer, up, down, datagrams, old, new, shown, unlucky, troubles>>
keyValueVars == <<kvData, memory, kvMode, notifications, saved, hurt, noted, told, calls, outages>>

nodeVars == <<clockVars, configVars, tftpVars, keyValueVars>>

NodeInit == Clock!Init /\ Config!Init /\ Tftp!Init /\ KeyValue!Init

NodeNext ==
    /\ [Clock!Next]_clockVars /\ [Config!Next]_configVars
    /\ [Tftp!Next]_tftpVars /\ [KeyValue!Next]_keyValueVars

NodeSpec == NodeInit /\ [][NodeNext]_nodeVars

-----------------------------------------------------------------------------
(* Properties of the parts, see their modules *)

StorageSound ==
    /\ focus = "config" => Config!StorageSound
    /\ focus = "tftp" => Tftp!StorageSound
    /\ focus = "keys" => KeyValue!StorageSound
ClockSound == Clock!ClockSound
=============================================================================
