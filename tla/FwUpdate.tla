------------------------------ MODULE FwUpdate ------------------------------
(***************************************************************************)
(* Firmware update and recovery: the shadow boot loader                    *)
(* (src/loader/main.c, src/loader/loader.c), the start of the operating    *)
(* system (src/src/system.c, src/src/flash_fs.c) and the firmware          *)
(* partition of the external flash (src/src/ffs_fw.c).                     *)
(*                                                                         *)
(* Two copies of the firmware exist, in the internal flash and in the      *)
(* partition.  New firmware is uploaded into the partition by the running  *)
(* system and moved to the internal flash by the loader at the next boot;  *)
(* each of the two also repairs the other's copy.  A reset or a power      *)
(* failure can come between any two flash operations.                      *)
(*                                                                         *)
(* A page of flash holds a page of some firmware version, is blank, or     *)
(* holds garbage.  The CRC of a copy is good exactly when all its pages    *)
(* are of one version.  The loader's serial programmer is modelled only in *)
(* what it does to the boot mode string in the EEPROM.                     *)
(*                                                                         *)
(* Without the mode string the loader is in generic mode: it starts the    *)
(* application unchecked.  The system writes the string at every start,    *)
(* but erases it along with all settings in between.  What a damaged       *)
(* application does when it is started is not modelled: it goes astray.    *)
(***************************************************************************)
EXTENDS Integers

CONSTANTS
    NPages,      \* pages of the application section
    Versions,    \* firmware versions
    MaxCrashes   \* bound: resets and power failures in a behaviour

ASSUME FwAssumption ==
    /\ NPages \in Nat \ {0}
    /\ Versions # {} /\ {"blank", "garbage"} \cap Versions = {}
    /\ MaxCrashes \in Nat

VARIABLES
    internal,     \* the application section of the internal flash
    partition,    \* the firmware partition of the external flash
    command,      \* boot_data.loader_command, in memory that a reset preserves
    bootMode,     \* boot_data.boot_mode, likewise
    status,       \* boot_data.loader_status
    powerOn,      \* PORF of MCUSR
    eepromMode,   \* the mode string in the EEPROM
    modeString,   \* the loader's copy of it on its stack
    place,           \* what is executing
    page,         \* the page the loop at place works on
    job,          \* why the loader copies: recovery or a load command
    rebooting,    \* the reboot thread is waiting
    formatAsked,  \* history: the last reboot request, still in force, asked for a format
    crashes,
    attended      \* somebody may hold the button and run the serial programmer

fwVars == <<internal, partition, command, bootMode, status, powerOn, eepromMode,
          modeString, place, page, job, rebooting, formatAsked, crashes, attended>>
flash == <<internal, partition>>
bootData == <<command, bootMode, status>>

Pages == 0 .. NPages - 1
Content == Versions \cup {"blank", "garbage"}
Commands == {"NONE", "LOAD_FW", "SERIAL_BOOT"}
BootModes == {"NORMAL", "REBOOT", "FORMAT"}
ModeStrings == {"Sapphire", "erased"}

\* ldr_u16_get_internal_crc, ldr_u16_get_partition_crc and ffs_fw_u16_crc.
CrcGood(copy) == \E v \in Versions : \A p \in Pages : copy[p] = v

LoaderPlaces == {"reset", "generic", "button", "serial", "integrity", "eraseInternal",
                 "copyInternal", "copied", "command", "run", "fatal"}
OsPlaces == {"init", "format", "fwCheck", "erasePartition", "copyPartition", "config",
             "ready", "deleting"}

FwTypeOK ==
    /\ internal \in [Pages -> Content] /\ partition \in [Pages -> Content]
    /\ command \in Commands /\ bootMode \in BootModes
    /\ status \in {"NORMAL", "NEW_FW", "RECOVERED_FW"}
    /\ powerOn \in BOOLEAN
    /\ eepromMode \in ModeStrings /\ modeString \in ModeStrings
    /\ place \in LoaderPlaces \cup OsPlaces \cup {"astray"}
    /\ page \in Pages
    /\ job \in {"recover", "load"}
    /\ rebooting \in BOOLEAN /\ formatAsked \in BOOLEAN
    /\ crashes \in 0 .. MaxCrashes
    /\ attended \in BOOLEAN

\* A node leaves the factory with firmware inside and any external flash.
FwInit ==
    /\ \E v \in Versions : internal = [p \in Pages |-> v]
    /\ partition \in [Pages -> Content]
    /\ command \in Commands /\ bootMode \in BootModes /\ status = "NORMAL"
    /\ powerOn = TRUE
    /\ eepromMode = "Sapphire" /\ modeString = "Sapphire"
    /\ place = "reset" /\ page = 0 /\ job = "recover"
    /\ rebooting = FALSE /\ formatAsked = FALSE /\ crashes = 0
    /\ attended \in BOOLEAN

-----------------------------------------------------------------------------
(* The loader *)

\* After a power-on reset the memory holds nothing of worth.
CommandAtStart == IF powerOn THEN "NONE" ELSE command

\* Mutant: the status of an earlier start is reported again.
StatusAtStart_Kept == status
StatusAtStart == "NORMAL"

StartLoader ==
    /\ place = "reset"
    /\ modeString' = eepromMode
    /\ IF eepromMode = "Sapphire"
       THEN command' = CommandAtStart /\ status' = StatusAtStart /\ place' = "button"
       ELSE place' = "generic" /\ UNCHANGED <<command, status>>
    /\ UNCHANGED <<flash, bootMode, powerOn, eepromMode, page, job, rebooting, formatAsked, crashes>>

PassButton ==
    /\ place = "button" /\ command # "SERIAL_BOOT"
    /\ place' = "integrity"
    /\ UNCHANGED <<flash, bootData, powerOn, eepromMode, modeString, page, job, rebooting,
                   formatAsked, crashes>>

HoldButton ==
    /\ place = "button" /\ attended
    /\ place' = "serial"
    /\ UNCHANGED <<flash, bootData, powerOn, eepromMode, modeString, page, job, rebooting,
                   formatAsked, crashes>>

\* The command of sys_reboot_to_loader does what the button does.
SerialBoot ==
    /\ place = "button" /\ command = "SERIAL_BOOT"
    /\ place' = "serial"
    /\ UNCHANGED <<flash, bootData, powerOn, eepromMode, modeString, page, job, rebooting,
                   formatAsked, crashes>>

\* serial_v_loop: a programmer may write the EEPROM.
Programmed == eepromMode' \in IF attended THEN ModeStrings ELSE {eepromMode}

\* Mutant: the loader starts over after the serial loop, whatever the mode string is.
SerialLoop_StartsOver ==
    /\ place = "serial"
    /\ Programmed
    /\ place' = "reset"
    /\ UNCHANGED <<flash, bootData, powerOn, modeString, page, job, rebooting, formatAsked, crashes>>
\* serial_v_loop with its time limit, and the check of the mode string after it.
SerialLoop ==
    /\ place = "serial"
    /\ Programmed
    /\ place' = IF modeString # "Sapphire" THEN "reset" ELSE "integrity"
    /\ UNCHANGED <<flash, bootData, powerOn, modeString, page, job, rebooting, formatAsked, crashes>>

MayRecover == CrcGood(partition)

CheckInternal ==
    /\ place = "integrity"
    /\ place' = IF CrcGood(internal) THEN "command"
             ELSE IF MayRecover THEN "eraseInternal" ELSE "fatal"
    /\ job' = "recover" /\ page' = 0
    /\ UNCHANGED <<flash, bootData, powerOn, eepromMode, modeString, rebooting, formatAsked, crashes>>

\* Mutant: the partition is loaded whatever its CRC.
MayLoad_Unchecked == command = "LOAD_FW"
MayLoad == command = "LOAD_FW" /\ CrcGood(partition)

CheckCommand ==
    /\ place = "command"
    /\ place' = IF MayLoad THEN "eraseInternal" ELSE "run"
    /\ job' = "load" /\ page' = 0
    /\ UNCHANGED <<flash, bootData, powerOn, eepromMode, modeString, rebooting, formatAsked, crashes>>

\* Mutant: the loop runs one page too far.
NextPage_OneMore(after) ==
    IF page < NPages THEN page' = page + 1 /\ place' = place ELSE page' = 0 /\ place' = after
\* One turn of a loop over the pages of a flash, then on to the place `after'.
NextPage(after) ==
    IF page + 1 < NPages THEN page' = page + 1 /\ place' = place ELSE page' = 0 /\ place' = after

\* ldr_v_erase_app
EraseInternal ==
    /\ place = "eraseInternal"
    /\ internal' = [internal EXCEPT ![page] = "blank"]
    /\ NextPage("copyInternal")
    /\ UNCHANGED <<partition, bootData, powerOn, eepromMode, modeString, job, rebooting,
                   formatAsked, crashes>>

CopiedToInternal == [internal EXCEPT ![page] = partition[page]]

\* ldr_v_copy_partition_to_internal
CopyInternal ==
    /\ place = "copyInternal"
    /\ internal' = CopiedToInternal
    /\ NextPage("copied")
    /\ UNCHANGED <<partition, bootData, powerOn, eepromMode, modeString, job, rebooting,
                   formatAsked, crashes>>

CheckCopy ==
    /\ place = "copied"
    /\ status' = IF job = "load" THEN "NEW_FW" ELSE "RECOVERED_FW"
    /\ place' = IF ~CrcGood(internal) THEN "fatal" ELSE IF job = "load" THEN "run" ELSE "command"
    /\ UNCHANGED <<flash, command, bootMode, powerOn, eepromMode, modeString, page, job,
                   rebooting, formatAsked, crashes>>

\* The fatal error: the serial programmer without a time limit, then a restart.
FatalLoop ==
    /\ place = "fatal" /\ attended
    /\ Programmed
    /\ place' = "reset"
    /\ UNCHANGED <<flash, bootData, powerOn, modeString, page, job, rebooting, formatAsked, crashes>>

\* Generic mode: with the button or without firmware the serial programmer, which
\* only a person ends, and then the application, whatever its CRC.
Started == IF CrcGood(internal) THEN "init" ELSE "astray"

GenericSerial ==
    /\ place = "generic" /\ attended
    /\ Programmed
    /\ place' = Started
    /\ UNCHANGED <<flash, bootData, powerOn, modeString, page, job, rebooting, formatAsked, crashes>>

RunGeneric ==
    /\ place = "generic" /\ internal[0] # "blank"
    /\ place' = Started
    /\ UNCHANGED <<flash, bootData, powerOn, eepromMode, modeString, page, job, rebooting,
                   formatAsked, crashes>>

\* Somebody resets the node whose application went astray.
ResetByHand ==
    /\ place = "astray" /\ attended
    /\ place' = "reset"
    /\ UNCHANGED <<flash, bootData, powerOn, eepromMode, modeString, page, job, rebooting,
                   formatAsked, crashes>>

RunApp ==
    /\ place = "run"
    /\ command' = "NONE"
    /\ place' = "init"
    /\ UNCHANGED <<flash, bootMode, status, powerOn, eepromMode, modeString, page, job, rebooting,
                   formatAsked, crashes>>

-----------------------------------------------------------------------------
(* The start of the operating system *)

\* Mutant: the boot mode is believed after a power failure, too.
FormatMode_AnyReset == bootMode = "FORMAT"
FormatMode == ~powerOn /\ bootMode = "FORMAT"

\* sys_v_init
SysInit ==
    /\ place = "init"
    /\ command' = "NONE"
    /\ bootMode' = "NORMAL"
    /\ powerOn' = FALSE
    /\ page' = 0
    /\ place' = IF FormatMode THEN "format" ELSE "fwCheck"
    /\ UNCHANGED <<flash, status, eepromMode, modeString, job, rebooting, formatAsked, crashes>>

\* ffs_v_format, the firmware partition included, and the reboot after it.
Format ==
    /\ place = "format"
    /\ partition' = [partition EXCEPT ![page] = "blank"]
    /\ NextPage("reset")
    /\ bootMode' = IF place' = "reset" THEN "REBOOT" ELSE bootMode
    /\ formatAsked' = FALSE
    /\ UNCHANGED <<internal, command, status, powerOn, eepromMode, modeString, job, rebooting, crashes>>

\* ffs_fw_i8_init: a bad partition is erased and rewritten from the internal flash.
FwCheck ==
    /\ place = "fwCheck"
    /\ page' = 0
    /\ place' = IF CrcGood(partition) THEN "config" ELSE "erasePartition"
    /\ UNCHANGED <<flash, bootData, powerOn, eepromMode, modeString, job, rebooting, formatAsked, crashes>>

\* ffs_fw_v_erase, at the start or when the firmware file is deleted.
ErasePartition ==
    /\ place \in {"erasePartition", "deleting"}
    /\ partition' = [partition EXCEPT ![page] = "blank"]
    /\ NextPage(IF place = "deleting" THEN "ready" ELSE "copyPartition")
    /\ UNCHANGED <<internal, bootData, powerOn, eepromMode, modeString, job, rebooting,
                   formatAsked, crashes>>

CopyPartition ==
    /\ place = "copyPartition"
    /\ partition' = [partition EXCEPT ![page] = internal[page]]
    /\ NextPage("config")
    /\ UNCHANGED <<internal, bootData, powerOn, eepromMode, modeString, job, rebooting,
                   formatAsked, crashes>>

\* cfg_v_init puts the boot loader into Sapphire mode.
InitConfig ==
    /\ place = "config"
    /\ eepromMode' = "Sapphire"
    /\ place' = "ready"
    /\ UNCHANGED <<flash, bootData, powerOn, modeString, page, job, rebooting, formatAsked, crashes>>

-----------------------------------------------------------------------------
(* The running system: commands of a client *)

\* cfg_v_default_all, for the reset of the configuration or, in cfg_v_init, for
\* settings of another version: the mode string goes with everything else.
EraseSettings ==
    /\ place \in {"ready", "config"}
    /\ eepromMode' = "erased"
    /\ UNCHANGED <<flash, bootData, powerOn, modeString, place, page, job, rebooting,
                   formatAsked, crashes>>

\* sys_reboot_to_loader
RequestLoader ==
    /\ place = "ready"
    /\ command' = "SERIAL_BOOT" /\ bootMode' = "REBOOT"
    /\ place' = "reset" /\ page' = 0
    /\ rebooting' = FALSE /\ formatAsked' = FALSE
    /\ UNCHANGED <<flash, status, powerOn, eepromMode, modeString, job, crashes>>

DeleteFirmware ==
    /\ place = "ready"
    /\ place' = "deleting" /\ page' = 0
    /\ UNCHANGED <<flash, bootData, powerOn, eepromMode, modeString, job, rebooting, formatAsked, crashes>>

\* ffs_fw_i32_write: what was not erased before becomes garbage.
Upload(p, v) ==
    /\ place = "ready"
    /\ partition' = [partition EXCEPT ![p] = IF @ \in {"blank", v} THEN v ELSE "garbage"]
    /\ UNCHANGED <<internal, bootData, powerOn, eepromMode, modeString, place, page, job, rebooting,
                   formatAsked, crashes>>

\* sys_v_load_fw and sys_v_reboot_delay: the reboot thread waits a second, in
\* which the system goes on, and resets the processor.
RequestReboot(mode, load) ==
    /\ place = "ready"
    /\ command' = IF load THEN "LOAD_FW" ELSE command
    /\ bootMode' = mode
    /\ rebooting' = TRUE
    /\ formatAsked' = (mode = "FORMAT")
    /\ UNCHANGED <<flash, status, powerOn, eepromMode, modeString, place, page, job, crashes>>

Reboot ==
    /\ place = "ready" /\ rebooting
    /\ place' = "reset" /\ page' = 0
    /\ rebooting' = FALSE
    /\ UNCHANGED <<flash, bootData, powerOn, eepromMode, modeString, job, formatAsked, crashes>>

-----------------------------------------------------------------------------
(* Failures.  An assertion, the watchdog or the reset pin leaves the memory  *)
(* as it is; a power failure leaves anything in it.                          *)

Crash ==
    /\ crashes < MaxCrashes
    /\ crashes' = crashes + 1
    /\ place' = "reset" /\ page' = 0 /\ rebooting' = FALSE
    /\ \/ UNCHANGED <<command, bootMode, powerOn>>
       \/ command' \in Commands /\ bootMode' \in BootModes /\ powerOn' = TRUE
    /\ formatAsked' = (formatAsked /\ powerOn' = powerOn)
    /\ UNCHANGED <<flash, status, eepromMode, modeString, job>>

Loader ==
    \/ StartLoader \/ PassButton \/ SerialBoot \/ SerialLoop \/ CheckInternal \/ CheckCommand
    \/ EraseInternal \/ CopyInternal \/ CheckCopy \/ RunApp \/ RunGeneric

OsStart == SysInit \/ Format \/ FwCheck \/ ErasePartition \/ CopyPartition \/ InitConfig

Client ==
    \/ DeleteFirmware \/ EraseSettings \/ RequestLoader
    \/ \E p \in Pages, v \in Versions : Upload(p, v)
    \/ \E mode \in BootModes : RequestReboot(mode, FALSE)
    \/ RequestReboot("REBOOT", TRUE)

System == (Loader \/ OsStart) /\ UNCHANGED attended
Attendant == HoldButton \/ FatalLoop \/ GenericSerial \/ ResetByHand
Environment == (Attendant \/ Client \/ Reboot \/ Crash) /\ UNCHANGED attended

FwNext == System \/ Environment

FwSpec == FwInit /\ [][FwNext]_fwVars

\* The processor executes the loader and the system; clients need do nothing.
FwFair == WF_fwVars(System)
FwFairSpec == FwSpec /\ FwFair

-----------------------------------------------------------------------------
(* Properties *)

\* At every moment, in the middle of any erase or copy, one of the two copies is
\* complete: no reset or power failure can leave a node that cannot start
\* (main.c 170-224, loader.c 52-80, ffs_fw.c 28-85).
Bootable == CrcGood(internal) \/ CrcGood(partition)

\* What the loader checked and started stays whole while it runs; and as long as
\* nobody works the button and the programmer, the loader neither gives up nor starts
\* a damaged application, although every reset of the settings leaves the node in
\* generic mode, where it checks nothing (main.c 194-223, 242-252; config.c 728-735).
RunsGoodFirmware ==
    /\ place \in OsPlaces \cup {"run"} => CrcGood(internal)
    /\ ~attended => place \notin {"fatal", "astray"}

\* When the loader reports new firmware, it runs what is in the partition, whole.
NewFirmwareIsUploaded ==
    place = "run" /\ status = "NEW_FW" => internal = partition

\* The firmware that runs is whole, and the right one.
FirmwareSound == FwTypeOK /\ RunsGoodFirmware /\ NewFirmwareIsUploaded

\* The file system is only ever erased because somebody asked for it, however
\* resets and power failures fall (system.c 92-113, flash_fs.c 53-60).
FormatOnlyWhenAsked == place = "format" /\ page = 0 => formatAsked

\* After any failure the node comes back, without anybody's help.
ComesBack == ~attended => []<>(place = "ready")

\* "check if we erased the eeprom to change the boot mode, if so, restart the
\* loader" (main.c 152-153).
EraseRestartsLoader ==
    [][place = "serial" /\ eepromMode' = "erased" => place' = "reset"]_fwVars

\* The mode string is erased by an application that is whole, and the loader writes the
\* internal flash only when it has read the string.
GenericIsWhole ==
    /\ eepromMode = "erased" => place \in OsPlaces \cup {"reset", "generic"} /\ CrcGood(internal)
    /\ place = "generic" => eepromMode = "erased"

\* The inductive form of Bootable and RunsGoodFirmware: whoever writes one copy
\* has checked the other.
FwInv ==
    /\ place \in {"eraseInternal", "copyInternal"} => CrcGood(partition)
    /\ place = "copyInternal" => \A p \in Pages : p < page => internal[p] = partition[p]
    /\ place = "copied" => CrcGood(partition) /\ internal = partition
    /\ place = "command" => CrcGood(internal)
    /\ NewFirmwareIsUploaded
    /\ RunsGoodFirmware
    /\ place \in LoaderPlaces \ {"reset", "generic", "run", "fatal"} => status # "NEW_FW"
    /\ ~attended => GenericIsWhole
    /\ Bootable

\* The inductive form of FormatOnlyWhenAsked: the boot mode that a reset finds and
\* believes was set by the request, and is taken back before the format begins.
FormatInv ==
    /\ bootMode = "FORMAT" /\ ~powerOn => formatAsked
    /\ place = "format" => bootMode = "NORMAL"
    /\ FormatOnlyWhenAsked
=============================================================================
