--------------------------- MODULE FwUpdateProofs ---------------------------
(***************************************************************************)
(* A node can always start: whatever the size of the firmware, the number  *)
(* of resets and power failures, and the commands of its clients, one of   *)
(* the two copies of the firmware is complete.                             *)
(*                                                                         *)
(* Bootable is not inductive: it does not say which copy is complete while *)
(* the other is being written.  FwInv does: the loader writes the internal *)
(* flash only while the partition is good, and the running system, which   *)
(* alone writes the partition, is itself the proof that the internal copy  *)
(* is good.                                                                *)
(***************************************************************************)
EXTENDS FwUpdate, TLAPS

USE FwAssumption DEF Pages

Inv == FwTypeOK /\ FwInv


\* A copy that equals a good one is good.
LEMMA EqualCopies ==
  ASSUME NEW f, NEW g, CrcGood(f), f = g
  PROVE  CrcGood(g)
  OBVIOUS

\* The factory state: the internal copy is good.
LEMMA FwInitInv == ASSUME FwInit PROVE Inv
<1>1. CrcGood(internal)
  BY DEF FwInit, CrcGood
<1>2. FwTypeOK
  <2>1. PICK v \in Versions : internal = [p \in Pages |-> v]
    BY DEF FwInit
  <2>2. internal \in [Pages -> Content]
    BY <2>1 DEF Content
  <2>3. partition \in [Pages -> Content] /\ page \in Pages /\ crashes \in 0 .. MaxCrashes
    BY DEF FwInit
  <2>4. powerOn \in BOOLEAN /\ rebooting \in BOOLEAN /\ formatAsked \in BOOLEAN
    BY DEF FwInit
  <2>5. place \in LoaderPlaces \cup OsPlaces
    BY DEF FwInit, LoaderPlaces
  <2> QED
    BY <2>2, <2>3, <2>4, <2>5 DEF FwInit, FwTypeOK, ModeStrings
<1>3. FwInv
  BY <1>1 DEF FwInit, FwInv, Bootable, GenericIsWhole, RunsGoodFirmware, NewFirmwareIsUploaded, OsPlaces, LoaderPlaces
<1> QED
  BY <1>2, <1>3 DEF Inv

\* One turn of a loop over the pages keeps the loop's counter in its range.
LEMMA NextPageType ==
  ASSUME page \in Pages, NEW after, NextPage(after)
  PROVE  /\ page' \in Pages
         /\ (place' = place /\ page' = page + 1 /\ page + 1 < NPages)
            \/ (place' = after /\ page' = 0 /\ page + 1 >= NPages)
BY DEF NextPage

\* The steps that write no flash page.
LEMMA QuietInv ==
  ASSUME Inv, attended' = attended,
              \/ StartLoader \/ PassButton \/ SerialBoot \/ SerialLoop \/ CheckInternal
              \/ CheckCommand \/ CheckCopy \/ FatalLoop \/ RunApp \/ HoldButton
              \/ GenericSerial \/ RunGeneric \/ ResetByHand \/ SysInit \/ FwCheck
              \/ InitConfig \/ DeleteFirmware \/ EraseSettings \/ RequestLoader \/ Reboot \/ Crash
              \/ \E mode \in BootModes, load \in BOOLEAN : RequestReboot(mode, load)
  PROVE  Inv'
<1>0. internal' = internal /\ partition' = partition
  BY DEF StartLoader, PassButton, SerialBoot, SerialLoop, CheckInternal, CheckCommand,
         CheckCopy, FatalLoop, RunApp, HoldButton, GenericSerial, RunGeneric, ResetByHand,
         SysInit, FwCheck, InitConfig, DeleteFirmware, EraseSettings, RequestLoader,
         Reboot, Crash, RequestReboot, flash
<1>1. (CrcGood(internal)' <=> CrcGood(internal)) /\ (CrcGood(partition)' <=> CrcGood(partition))
  BY <1>0 DEF CrcGood
<1>2. CASE StartLoader
  <2>1. FwTypeOK'
    BY <1>0, <1>2 DEF StartLoader, CommandAtStart, StatusAtStart, bootData, Inv, FwTypeOK, LoaderPlaces, OsPlaces,
       Commands, BootModes, ModeStrings
  <2>2. eepromMode \in {"Sapphire", "erased"} /\ eepromMode' = eepromMode
    BY <1>2 DEF StartLoader, Inv, FwTypeOK, ModeStrings
  <2>3. FwInv'
    BY <1>0, <1>1, <1>2, <2>2 DEF StartLoader, CommandAtStart, StatusAtStart, bootData, Inv, FwInv, Bootable, GenericIsWhole,
       RunsGoodFirmware, NewFirmwareIsUploaded, OsPlaces, LoaderPlaces
  <2> QED
    BY <2>1, <2>3 DEF Inv
<1>3. CASE PassButton \/ HoldButton \/ SerialBoot \/ ResetByHand
  <2>1. FwTypeOK'
    BY <1>0, <1>3 DEF PassButton, HoldButton, SerialBoot, ResetByHand, bootData, Inv, FwTypeOK, LoaderPlaces, OsPlaces,
       Commands, BootModes, ModeStrings
  <2>2. FwInv'
    BY <1>0, <1>1, <1>3 DEF PassButton, HoldButton, SerialBoot, ResetByHand, bootData, Inv, FwInv, Bootable, GenericIsWhole,
       RunsGoodFirmware, NewFirmwareIsUploaded, OsPlaces, LoaderPlaces
  <2> QED
    BY <2>1, <2>2 DEF Inv
<1>4. CASE SerialLoop \/ FatalLoop \/ GenericSerial \/ RunGeneric
  <2>1. FwTypeOK'
    BY <1>0, <1>4 DEF SerialLoop, FatalLoop, GenericSerial, RunGeneric, Programmed, Started, bootData, Inv, FwTypeOK, LoaderPlaces, OsPlaces,
       Commands, BootModes, ModeStrings
  <2>2. FwInv'
    BY <1>0, <1>1, <1>4 DEF SerialLoop, FatalLoop, GenericSerial, RunGeneric, Programmed, Started, ModeStrings, bootData, Inv, FwInv, Bootable, GenericIsWhole,
       RunsGoodFirmware, NewFirmwareIsUploaded, OsPlaces, LoaderPlaces
  <2> QED
    BY <2>1, <2>2 DEF Inv
<1>5. CASE CheckInternal
  <2>1. FwTypeOK'
    BY <1>0, <1>5 DEF CheckInternal, MayRecover, bootData, Inv, FwTypeOK, LoaderPlaces, OsPlaces,
       Commands, BootModes, ModeStrings
  <2>2. FwInv'
    BY <1>0, <1>1, <1>5 DEF CheckInternal, MayRecover, bootData, Inv, FwInv, Bootable, GenericIsWhole,
       RunsGoodFirmware, NewFirmwareIsUploaded, OsPlaces, LoaderPlaces
  <2> QED
    BY <2>1, <2>2 DEF Inv
<1>6. CASE CheckCommand
  <2>0. CrcGood(internal) /\ place = "command" /\ status # "NEW_FW" /\ eepromMode' = eepromMode
        /\ status' = status
    BY <1>6 DEF CheckCommand, Inv, FwInv, LoaderPlaces, bootData
  <2>1. FwTypeOK'
    BY <1>0, <1>6 DEF CheckCommand, MayLoad, bootData, Inv, FwTypeOK, LoaderPlaces, OsPlaces,
       Commands, BootModes, ModeStrings
  <2>2. CASE MayLoad
    <3>1. place' = "eraseInternal" /\ CrcGood(partition)
      BY <1>6, <2>2 DEF CheckCommand, MayLoad
    <3> QED
      BY <1>1, <2>0, <2>1, <3>1 DEF Inv, FwInv, Bootable, GenericIsWhole, RunsGoodFirmware,
         NewFirmwareIsUploaded, OsPlaces, LoaderPlaces
  <2>3. CASE ~MayLoad
    <3>1. place' = "run"
      BY <1>6, <2>3 DEF CheckCommand
    <3> QED
      BY <1>1, <2>0, <2>1, <3>1 DEF Inv, FwInv, Bootable, GenericIsWhole, RunsGoodFirmware,
         NewFirmwareIsUploaded, OsPlaces, LoaderPlaces
  <2> QED
    BY <2>2, <2>3
<1>7. CASE CheckCopy
  <2>1. FwTypeOK'
    BY <1>0, <1>7 DEF CheckCopy, bootData, Inv, FwTypeOK, LoaderPlaces, OsPlaces,
       Commands, BootModes, ModeStrings
  <2>2. FwInv'
    BY <1>0, <1>1, <1>7 DEF CheckCopy, bootData, Inv, FwInv, Bootable, GenericIsWhole,
       RunsGoodFirmware, NewFirmwareIsUploaded, OsPlaces, LoaderPlaces
  <2> QED
    BY <2>1, <2>2 DEF Inv
<1>8. CASE RunApp \/ SysInit
  <2>1. FwTypeOK'
    <3>1. CASE RunApp
      BY <1>0, <3>1 DEF RunApp, bootData, flash, Inv, FwTypeOK, LoaderPlaces, OsPlaces,
         Commands, BootModes, ModeStrings
    <3>2. CASE SysInit
      <4>1. page' \in Pages /\ crashes' \in 0 .. MaxCrashes
        BY <3>2 DEF SysInit, Inv, FwTypeOK
      <4>2. powerOn' \in BOOLEAN /\ rebooting' \in BOOLEAN /\ formatAsked' \in BOOLEAN
        BY <3>2 DEF SysInit, Inv, FwTypeOK
      <4>3. /\ command' \in Commands /\ bootMode' \in BootModes /\ place' \in LoaderPlaces \cup OsPlaces
           /\ status' = status /\ eepromMode' = eepromMode /\ modeString' = modeString /\ job' = job
        BY <3>2 DEF SysInit, bootData, Inv, FwTypeOK, Commands, BootModes, LoaderPlaces, OsPlaces
      <4> QED
        BY <1>0, <4>1, <4>2, <4>3 DEF Inv, FwTypeOK
    <3> QED
      BY <1>8, <3>1, <3>2
  <2>2. FwInv'
    BY <1>0, <1>1, <1>8 DEF RunApp, SysInit, FormatMode, bootData, Inv, FwInv, Bootable, GenericIsWhole,
       RunsGoodFirmware, NewFirmwareIsUploaded, OsPlaces, LoaderPlaces
  <2> QED
    BY <2>1, <2>2 DEF Inv
<1>9. CASE FwCheck \/ InitConfig \/ DeleteFirmware \/ Reboot
  <2>1. FwTypeOK'
    <3>1. CASE FwCheck
      BY <1>0, <3>1 DEF FwCheck, bootData, flash, Inv, FwTypeOK, LoaderPlaces, OsPlaces,
         Commands, BootModes, ModeStrings
    <3>2. CASE InitConfig
      BY <1>0, <3>2 DEF InitConfig, bootData, flash, Inv, FwTypeOK, LoaderPlaces, OsPlaces,
         Commands, BootModes, ModeStrings
    <3>3. CASE DeleteFirmware
      BY <1>0, <3>3 DEF DeleteFirmware, bootData, flash, Inv, FwTypeOK, LoaderPlaces, OsPlaces,
         Commands, BootModes, ModeStrings
    <3>4. CASE Reboot
      <4>1. page' \in Pages /\ crashes' \in 0 .. MaxCrashes
        BY <3>4 DEF Reboot, Inv, FwTypeOK
      <4>2. powerOn' \in BOOLEAN /\ rebooting' \in BOOLEAN /\ formatAsked' \in BOOLEAN
        BY <3>4 DEF Reboot, Inv, FwTypeOK
      <4>3. /\ command' \in Commands /\ bootMode' \in BootModes /\ place' \in LoaderPlaces \cup OsPlaces
           /\ status' = status /\ eepromMode' = eepromMode /\ modeString' = modeString /\ job' = job
        BY <3>4 DEF Reboot, bootData, Inv, FwTypeOK, Commands, BootModes, LoaderPlaces, OsPlaces
      <4> QED
        BY <1>0, <4>1, <4>2, <4>3 DEF Inv, FwTypeOK
    <3> QED
      BY <1>9, <3>1, <3>2, <3>3, <3>4
  <2>2. FwInv'
    BY <1>0, <1>1, <1>9 DEF FwCheck, InitConfig, DeleteFirmware, Reboot, bootData, Inv, FwInv, Bootable, GenericIsWhole,
       RunsGoodFirmware, NewFirmwareIsUploaded, OsPlaces, LoaderPlaces
  <2> QED
    BY <2>1, <2>2 DEF Inv
<1>10. CASE Crash
  <2>1. FwTypeOK'
    <3>1. page' \in Pages /\ crashes' \in 0 .. MaxCrashes
      BY <1>10 DEF Crash, Inv, FwTypeOK
    <3>2. powerOn' \in BOOLEAN /\ rebooting' \in BOOLEAN /\ formatAsked' \in BOOLEAN
      BY <1>10 DEF Crash, Inv, FwTypeOK
    <3>3. /\ command' \in Commands /\ bootMode' \in BootModes /\ place' \in LoaderPlaces \cup OsPlaces
         /\ status' = status /\ eepromMode' = eepromMode /\ modeString' = modeString /\ job' = job
      BY <1>10 DEF Crash, bootData, Inv, FwTypeOK, Commands, BootModes, LoaderPlaces, OsPlaces
    <3> QED
      BY <1>0, <3>1, <3>2, <3>3 DEF Inv, FwTypeOK
  <2>2. FwInv'
    BY <1>0, <1>1, <1>10 DEF Crash, bootData, Inv, FwInv, Bootable, GenericIsWhole,
       RunsGoodFirmware, NewFirmwareIsUploaded, OsPlaces, LoaderPlaces
  <2> QED
    BY <2>1, <2>2 DEF Inv
<1>12. CASE EraseSettings \/ RequestLoader
  <2>1. FwTypeOK'
    <3>1. CASE EraseSettings
      BY <1>0, <3>1 DEF EraseSettings, bootData, flash, Inv, FwTypeOK, ModeStrings
    <3>2. CASE RequestLoader
      <4>1. page' \in Pages /\ place' \in LoaderPlaces
        BY <3>2 DEF RequestLoader, LoaderPlaces
      <4>2. command' \in Commands /\ bootMode' \in BootModes
        BY <3>2 DEF RequestLoader, Commands, BootModes
      <4> QED
        BY <1>0, <3>2, <4>1, <4>2 DEF RequestLoader, Inv, FwTypeOK
    <3> QED
      BY <1>12, <3>1, <3>2
  <2>2. CrcGood(internal) /\ place \in {"ready", "config"}
    BY <1>12 DEF EraseSettings, RequestLoader, Inv, FwInv, RunsGoodFirmware, OsPlaces
  <2>3. CASE EraseSettings
    BY <1>0, <1>1, <2>1, <2>2, <2>3 DEF EraseSettings, Inv, FwInv, Bootable, GenericIsWhole,
       RunsGoodFirmware, NewFirmwareIsUploaded, OsPlaces, LoaderPlaces
  <2>4. CASE RequestLoader
    BY <1>0, <1>1, <2>1, <2>2, <2>4 DEF RequestLoader, Inv, FwInv, Bootable, GenericIsWhole,
       RunsGoodFirmware, NewFirmwareIsUploaded, OsPlaces, LoaderPlaces
  <2> QED
    BY <1>12, <2>3, <2>4
<1>11. ASSUME NEW mode \in BootModes, NEW load \in BOOLEAN, RequestReboot(mode, load)
       PROVE  Inv'
  <2>1. FwTypeOK'
    BY <1>0, <1>11 DEF RequestReboot, bootData, Inv, FwTypeOK, LoaderPlaces, OsPlaces,
       Commands, BootModes, ModeStrings
  <2>2. FwInv'
    BY <1>0, <1>1, <1>11 DEF RequestReboot, bootData, Inv, FwInv, Bootable, GenericIsWhole,
       RunsGoodFirmware, NewFirmwareIsUploaded, OsPlaces, LoaderPlaces
  <2> QED
    BY <2>1, <2>2 DEF Inv
<1> QED
  BY <1>2, <1>3, <1>4, <1>5, <1>6, <1>7, <1>8, <1>9, <1>10, <1>11, <1>12

\* The loader writes the internal flash from a good partition.
LEMMA InternalInv ==
  ASSUME Inv, attended' = attended, EraseInternal \/ CopyInternal
  PROVE  Inv'
<1>1. /\ partition' = partition /\ CrcGood(partition) /\ page \in Pages
      /\ place \in {"eraseInternal", "copyInternal"}
      /\ bootMode' = bootMode /\ command' = command /\ status' = status
      /\ internal \in [Pages -> Content] /\ partition \in [Pages -> Content]
  BY DEF EraseInternal, CopyInternal, Inv, FwTypeOK, FwInv, bootData
<1>2. CrcGood(partition)'
  BY <1>1 DEF CrcGood
<1>3. internal' \in [Pages -> Content]
  BY <1>1 DEF EraseInternal, CopyInternal, CopiedToInternal, Content
<1>4. CASE EraseInternal
  <2>1. /\ page' \in Pages
        /\ (place' = "eraseInternal") \/ (place' = "copyInternal" /\ page' = 0)
    BY <1>1, <1>4, NextPageType DEF EraseInternal
  <2> QED
    BY <1>1, <1>2, <1>3, <1>4, <2>1 DEF EraseInternal, bootData, Inv, FwTypeOK, FwInv, Bootable, GenericIsWhole,
       RunsGoodFirmware, NewFirmwareIsUploaded, LoaderPlaces, OsPlaces
<1>5. CASE CopyInternal
  <2>1. /\ page' \in Pages
        /\ \/ place' = "copyInternal" /\ page' = page + 1 /\ page + 1 < NPages
           \/ place' = "copied" /\ page' = 0 /\ page + 1 >= NPages
    BY <1>1, <1>5, NextPageType DEF CopyInternal
  <2>2. internal' = [internal EXCEPT ![page] = partition[page]]
    BY <1>5 DEF CopyInternal, CopiedToInternal
  <2>3. \A p \in Pages : p < page => internal[p] = partition[p]
    BY <1>5 DEF CopyInternal, Inv, FwInv
  <2>4. \A p \in Pages : p < page + 1 => internal'[p] = partition[p]
    BY <1>1, <2>2, <2>3
  <2>5. CASE place' = "copyInternal" /\ page' = page + 1
    BY <1>1, <1>2, <1>3, <1>5, <2>1, <2>4, <2>5 DEF CopyInternal, bootData, Inv, FwTypeOK, FwInv,
       Bootable, GenericIsWhole, RunsGoodFirmware, NewFirmwareIsUploaded, LoaderPlaces, OsPlaces
  <2>6. CASE place' = "copied" /\ page + 1 >= NPages
    <3>1. internal' = partition'
      BY <1>1, <1>3, <2>4, <2>6
    <3> QED
      BY <1>1, <1>2, <1>3, <1>5, <2>1, <2>6, <3>1 DEF CopyInternal, bootData, Inv, FwTypeOK,
         FwInv, Bootable, GenericIsWhole, RunsGoodFirmware, NewFirmwareIsUploaded, LoaderPlaces, OsPlaces
  <2> QED
    BY <2>1, <2>5, <2>6
<1> QED
  BY <1>4, <1>5

\* The running system writes the partition while the internal copy is good.
LEMMA PartitionInv ==
  ASSUME Inv, attended' = attended,
              \/ Format \/ ErasePartition \/ CopyPartition
              \/ \E p \in Pages, v \in Versions : Upload(p, v)
  PROVE  Inv'
<1>1. /\ internal' = internal /\ CrcGood(internal) /\ page \in Pages
      /\ place \in OsPlaces /\ eepromMode' = eepromMode
      /\ internal \in [Pages -> Content] /\ partition \in [Pages -> Content]
  BY DEF Format, ErasePartition, CopyPartition, Upload, Inv, FwTypeOK, FwInv, RunsGoodFirmware,
         OsPlaces
<1>2. CrcGood(internal)'
  BY <1>1 DEF CrcGood
<1>3. partition' \in [Pages -> Content]
  <2>1. CASE Format \/ ErasePartition
    BY <1>1, <2>1 DEF Format, ErasePartition, Content
  <2>2. CASE CopyPartition
    <3>1. page \in Pages => internal[page] \in Content
      BY <1>1
    <3> QED
      BY <1>1, <2>2, <3>1 DEF CopyPartition
  <2>3. ASSUME NEW p \in Pages, NEW v \in Versions, Upload(p, v)
        PROVE  partition' \in [Pages -> Content]
    BY <1>1, <2>3 DEF Upload, Content
  <2> QED
    BY <2>1, <2>2, <2>3
<1>4. CASE Format
  <2>1. page' \in Pages /\ place' \in {"format", "reset"}
    BY <1>1, <1>4, NextPageType DEF Format
  <2>2. bootMode' \in BootModes
    BY <1>4 DEF Format, Inv, FwTypeOK, BootModes
  <2> QED
    BY <1>1, <1>2, <1>3, <1>4, <2>1, <2>2 DEF Format, Inv, FwTypeOK, FwInv, Bootable, GenericIsWhole,
       RunsGoodFirmware, NewFirmwareIsUploaded, LoaderPlaces, OsPlaces
<1>5. CASE ErasePartition
  <2>1. page' \in Pages /\ place' \in {"erasePartition", "deleting", "ready", "copyPartition"}
    BY <1>1, <1>5, NextPageType DEF ErasePartition
  <2> QED
    BY <1>1, <1>2, <1>3, <1>5, <2>1 DEF ErasePartition, bootData, Inv, FwTypeOK, FwInv, Bootable, GenericIsWhole,
       RunsGoodFirmware, NewFirmwareIsUploaded, LoaderPlaces, OsPlaces
<1>6. CASE CopyPartition
  <2>1. page' \in Pages /\ place' \in {"copyPartition", "config"}
    BY <1>1, <1>6, NextPageType DEF CopyPartition
  <2> QED
    BY <1>1, <1>2, <1>3, <1>6, <2>1 DEF CopyPartition, bootData, Inv, FwTypeOK, FwInv, Bootable, GenericIsWhole,
       RunsGoodFirmware, NewFirmwareIsUploaded, LoaderPlaces, OsPlaces
<1>7. ASSUME NEW p \in Pages, NEW v \in Versions, Upload(p, v)
      PROVE  Inv'
  BY <1>1, <1>2, <1>3, <1>7 DEF Upload, bootData, Inv, FwTypeOK, FwInv, Bootable, GenericIsWhole,
     RunsGoodFirmware, NewFirmwareIsUploaded, LoaderPlaces, OsPlaces
<1> QED
  BY <1>4, <1>5, <1>6, <1>7

\* Every step preserves the invariant.
LEMMA FwNextInv == ASSUME Inv, [FwNext]_fwVars PROVE Inv'
<1>1. CASE UNCHANGED fwVars
  BY <1>1 DEF fwVars, Inv, FwTypeOK, FwInv, Bootable, GenericIsWhole, RunsGoodFirmware, NewFirmwareIsUploaded, CrcGood
<1>2. "REBOOT" \in BootModes
  BY DEF BootModes
<1>3. CASE FwNext
  <2>1. attended' = attended
    BY <1>3 DEF FwNext, System, Environment
  <2>2. CASE Client
    BY <1>2, <2>1, <2>2, QuietInv, PartitionInv DEF Client
  <2> QED
    BY <1>3, <2>1, <2>2, QuietInv, InternalInv, PartitionInv
       DEF FwNext, System, Environment, Attendant, Loader, OsStart
<1> QED
  BY <1>1, <1>3

\* No reset or power failure, at any point of a recovery, an update, a deletion,
\* an upload or a format, leaves a node without a complete copy of a firmware
\* (main.c 170-224, loader.c 52-80, ffs_fw.c 28-85, 125-145).
THEOREM NodeIsBootable == FwSpec => []Bootable
<1>1. Inv => Bootable
  BY DEF Inv, FwInv
<1> QED
  BY <1>1, FwInitInv, FwNextInv, PTL DEF FwSpec

\* The application that the loader checked stays whole while it runs, and a node that
\* nobody attends neither ends in the fatal error nor starts a damaged application in
\* generic mode, where nothing is checked (main.c 194-223, 242-252).
THEOREM FirmwareThatRunsIsGood == FwSpec => []RunsGoodFirmware
<1>1. Inv => RunsGoodFirmware
  BY DEF Inv, FwInv
<1> QED
  BY <1>1, FwInitInv, FwNextInv, PTL DEF FwSpec

\* New firmware is reported only when the whole partition has been copied
\* (main.c 203-224).
THEOREM NewFirmwareIsWhole == FwSpec => []NewFirmwareIsUploaded
<1>1. Inv => NewFirmwareIsUploaded
  BY DEF Inv, FwInv
<1> QED
  BY <1>1, FwInitInv, FwNextInv, PTL DEF FwSpec

\* Both of the above, and the types, for every size of firmware and number of failures.
THEOREM FirmwareIsSound == FwSpec => []FirmwareSound
<1>1. Inv => FirmwareSound
  BY DEF Inv, FwInv, FirmwareSound
<1> QED
  BY <1>1, FwInitInv, FwNextInv, PTL DEF FwSpec

\* Whoever formats was asked, and has taken the mode back.
LEMMA FormatStep == ASSUME Inv, FormatInv, [FwNext]_fwVars PROVE FormatInv'
<1>0. page \in Pages /\ bootMode \in BootModes
  BY DEF Inv, FwTypeOK
<1>1. CASE \/ StartLoader \/ PassButton \/ HoldButton \/ SerialBoot \/ SerialLoop \/ CheckInternal
           \/ CheckCommand \/ CheckCopy \/ FatalLoop \/ RunApp
  BY <1>1 DEF StartLoader, PassButton, HoldButton, SerialBoot, SerialLoop, CheckInternal, CheckCommand,
        CheckCopy, FatalLoop, RunApp, bootData, FormatInv, FormatOnlyWhenAsked
<1>2. CASE EraseInternal \/ CopyInternal \/ ErasePartition \/ CopyPartition
  BY <1>2 DEF EraseInternal, CopyInternal, ErasePartition, CopyPartition, NextPage, bootData,
        FormatInv, FormatOnlyWhenAsked
<1>3. CASE FwCheck \/ InitConfig \/ DeleteFirmware \/ Reboot \/ \E p \in Pages, v \in Versions : Upload(p, v)
  BY <1>3 DEF FwCheck, InitConfig, DeleteFirmware, Reboot, Upload, bootData, FormatInv,
        FormatOnlyWhenAsked
<1>10. CASE GenericSerial \/ RunGeneric \/ ResetByHand \/ EraseSettings \/ RequestLoader
  BY <1>10 DEF GenericSerial, RunGeneric, ResetByHand, Started, EraseSettings, RequestLoader, bootData,
        FormatInv, FormatOnlyWhenAsked
<1>4. CASE SysInit
  BY <1>4 DEF SysInit, FormatMode, FormatInv, FormatOnlyWhenAsked
<1>5. CASE Format
  <2>1. page' \in Pages /\ ((place' = "format" /\ page' = page + 1) \/ place' = "reset")
    BY <1>0, <1>5, NextPageType DEF Format
  <2>2. place' = "format" => page' # 0 /\ bootMode' = "NORMAL"
    BY <1>0, <1>5, <2>1 DEF Format, FormatInv
  <2> QED
    BY <1>5, <2>1, <2>2 DEF Format, FormatInv, FormatOnlyWhenAsked
<1>6. ASSUME NEW mode \in BootModes, NEW load \in BOOLEAN, RequestReboot(mode, load)
      PROVE  FormatInv'
  BY <1>6 DEF RequestReboot, FormatInv, FormatOnlyWhenAsked
<1>7. CASE Crash
  <2>1. place' # "format" /\ formatAsked' = (formatAsked /\ powerOn' = powerOn)
    BY <1>7 DEF Crash
  <2>2. CASE powerOn' = TRUE
    BY <2>1, <2>2 DEF FormatInv, FormatOnlyWhenAsked
  <2>3. CASE bootMode' = bootMode /\ powerOn' = powerOn
    BY <2>1, <2>3 DEF FormatInv, FormatOnlyWhenAsked
  <2> QED
    BY <1>7, <2>2, <2>3 DEF Crash
<1>8. CASE UNCHANGED fwVars
  BY <1>8 DEF fwVars, bootData, FormatInv, FormatOnlyWhenAsked
<1>9. CASE Client
  <2>1. "REBOOT" \in BootModes
    BY DEF BootModes
  <2> QED
    BY <1>3, <1>6, <1>9, <1>10, <2>1 DEF Client
<1> QED
  BY <1>1, <1>2, <1>3, <1>4, <1>5, <1>7, <1>8, <1>9, <1>10
     DEF FwNext, System, Environment, Attendant, Loader, OsStart

\* The file system is erased only for a request that no power failure came after: a mode
\* left over in memory, or found there after a power failure, formats nothing
\* (system.c 92-113, flash_fs.c 53-60).
THEOREM NobodyFormatsUnasked == FwSpec => []FormatOnlyWhenAsked
<1>1. FwInit => FormatInv
  BY DEF FwInit, FormatInv, FormatOnlyWhenAsked
<1>2. FormatInv => FormatOnlyWhenAsked
  BY DEF FormatInv
<1> QED
  BY <1>1, <1>2, FwInitInv, FwNextInv, FormatStep, PTL DEF FwSpec
=============================================================================
