------------------------------ MODULE FloppyDrive ------------------------------
(***************************************************************************)
(* The floppy drive of the emulated machine: the WD1772 controller of      *)
(* rom_probe.c, the disk in memory with its map of readable sectors, and   *)
(* what the user does to the disk while the EPS uses it (insert, blank     *)
(* disk, save).  The EPS operating system is the caller of the register    *)
(* operations; of it the model assumes that it gives a busy controller no  *)
(* command but FORCE INTERRUPT, as the WD1772 demands, and moves all bytes *)
(* of a sector it writes.                                                  *)
(*                                                                         *)
(* A byte on the disk is abstracted to where it came from: the disk it was *)
(* read from or written for, and whether the EPS wrote it.                 *)
(***************************************************************************)
EXTENDS Naturals

CONSTANTS
    Disk,           \* disks and images the user has
    Blank,          \* what create_blank() makes
    NoDisk,         \* the empty drive
    LastTrack,      \* 79
    Sectors,        \* sectors on a track, both sides: 20
    SectorBytes,    \* 512
    Damaged         \* Damaged[disk]: its unreadable sectors

Track == 0 .. LastTrack
Block == Track \X (0 .. Sectors - 1)
Medium == Disk \cup {Blank}
Byte == [disk : Medium \cup {NoDisk}, written : BOOLEAN]

ASSUME MediumAssumption ==
    /\ Disk # {} /\ Blank \notin Disk /\ NoDisk \notin Medium
    /\ Damaged \in [Disk -> SUBSET Block]
ASSUME GeometryAssumption ==
    /\ LastTrack \in Nat
    /\ Sectors \in Nat \ {0}
    /\ SectorBytes \in Nat \ {0}

VARIABLES
    mounted,        \* the disk in the drive
    image,          \* disk_image
    unreadable,     \* the sectors disk_sector_status does not call readable
    changePending,  \* disk_change_pending, the one-shot input IP1
    directoryOf,    \* the disk the EPS was last told is in the drive
    track,          \* fdc_physical_track
    sector,         \* fdc_sector, with the side; Sectors when out of range
    command,        \* fdc_last_command: none, seek, read, write, force
    fdcBlock,       \* the sector fdc_data points into
    remaining,      \* fdc_remaining
    failed,         \* fdc_error_status is set
    intrq,          \* the controller's interrupt request, PCL of channel 0
    writtenFor,     \* the disk in the drive when the command came
    spoiled,        \* an insert failed late and left its map of sectors
    waiting,        \* the controller owes the EPS an answer to its command
    torn            \* the sectors half written in the file saved last

diskVars == <<mounted, image, unreadable, changePending, spoiled>>
fdcVars == <<track, sector, command, fdcBlock, remaining, failed, intrq>>
vars == <<diskVars, fdcVars, directoryOf, writtenFor, waiting, torn>>

Original(disk) == [block \in Block |->
                      [k \in 1 .. SectorBytes |->
                          [disk |-> disk, written |-> FALSE]]]

Unreadable(disk) == IF disk \in Disk THEN Damaged[disk] ELSE {}

Init ==
    /\ mounted \in Disk \cup {NoDisk}
    /\ image = Original(mounted)
    /\ unreadable = Unreadable(mounted)
    /\ changePending = FALSE
    /\ spoiled = FALSE
    /\ directoryOf = mounted
    /\ track = 0
    /\ sector = 0
    /\ command = "none"
    /\ fdcBlock = <<0, 0>>
    /\ remaining = 0
    /\ failed = FALSE
    /\ intrq = FALSE
    /\ writtenFor = mounted
    /\ waiting = FALSE
    /\ torn = {}
-------------------------------------------------------------------------------
(* The EPS: registers of the WD1772. *)

SelectSector ==
    /\ sector' \in 0 .. Sectors
    /\ UNCHANGED <<diskVars, track, command, fdcBlock, remaining, failed,
                   intrq, directoryOf, writtenFor, waiting, torn>>

\* Slip: the head steps beyond the last track.
SeekCommandUnclamped ==
    /\ remaining = 0
    /\ track' \in 0 .. LastTrack + 1
    /\ command' = "seek"
    /\ failed' = FALSE
    /\ intrq' = TRUE
    /\ waiting' = TRUE
    /\ UNCHANGED <<diskVars, sector, fdcBlock, remaining, directoryOf,
                   writtenFor, torn>>

\* RESTORE, SEEK and the STEP commands: the head moves and the controller
\* answers at once.
SeekCommand ==
    /\ remaining = 0
    /\ track' \in Track
    /\ command' = "seek"
    /\ failed' = FALSE
    /\ intrq' = TRUE
    /\ waiting' = TRUE
    /\ UNCHANGED <<diskVars, sector, fdcBlock, remaining, directoryOf,
                   writtenFor, torn>>

\* READ SECTOR or WRITE SECTOR of a sector that is there and readable.
StartTransfer(kind) ==
    /\ remaining = 0
    /\ mounted # NoDisk /\ sector < Sectors
    /\ <<track, sector>> \notin unreadable
    /\ command' = kind
    /\ fdcBlock' = <<track, sector>>
    /\ remaining' = SectorBytes
    /\ writtenFor' = mounted
    /\ failed' = FALSE
    /\ intrq' = FALSE
    /\ waiting' = TRUE
    /\ UNCHANGED <<diskVars, track, sector, directoryOf, torn>>

\* Slip: the error is recorded without an interrupt.
RefuseTransferSilently(kind) ==
    /\ remaining = 0
    /\ mounted # NoDisk /\ sector < Sectors
    /\ <<track, sector>> \in unreadable
    /\ command' = kind
    /\ failed' = TRUE
    /\ intrq' = FALSE
    /\ waiting' = TRUE
    /\ UNCHANGED <<diskVars, track, sector, fdcBlock, remaining, directoryOf,
                   writtenFor, torn>>

\* The sector is damaged: the recorded error is the answer.
RefuseTransfer(kind) ==
    /\ remaining = 0
    /\ mounted # NoDisk /\ sector < Sectors
    /\ <<track, sector>> \in unreadable
    /\ command' = kind
    /\ failed' = TRUE
    /\ intrq' = TRUE
    /\ waiting' = TRUE
    /\ UNCHANGED <<diskVars, track, sector, fdcBlock, remaining, directoryOf,
                   writtenFor, torn>>

\* No disk, or no such sector: the controller forgets the command without an
\* interrupt, so no answer is owed.
IgnoreTransfer(kind) ==
    /\ remaining = 0
    /\ mounted = NoDisk \/ sector = Sectors
    /\ command' = kind
    /\ failed' = FALSE
    /\ intrq' = FALSE
    /\ waiting' = FALSE
    /\ UNCHANGED <<diskVars, track, sector, fdcBlock, remaining, directoryOf,
                   writtenFor, torn>>

TransferCommand ==
    \E kind \in {"read", "write"} :
        StartTransfer(kind) \/ RefuseTransfer(kind) \/ IgnoreTransfer(kind)

\* FORCE INTERRUPT, with or without the request for an interrupt.  The EPS
\* does not break off a sector it is writing.
ForceInterrupt ==
    /\ ~(remaining > 0 /\ command = "write")
    /\ command' = "force"
    /\ remaining' = 0
    /\ failed' = FALSE
    /\ intrq' \in BOOLEAN
    /\ waiting' = FALSE
    /\ UNCHANGED <<diskVars, track, sector, fdcBlock, directoryOf, writtenFor,
                   torn>>

\* A byte goes through the data register, by the CPU or by the DMA controller.
\* Without a transfer the register is only a register.
ReadByte ==
    /\ remaining > 0
    /\ command = "read"
    /\ remaining' = remaining - 1
    /\ intrq' = (intrq \/ remaining = 1)
    /\ UNCHANGED <<diskVars, track, sector, command, fdcBlock, failed,
                   directoryOf, writtenFor, waiting, torn>>

WriteByte ==
    /\ remaining > 0
    /\ command = "write"
    /\ image' = [image EXCEPT ![fdcBlock][SectorBytes - remaining + 1] =
                     [disk |-> writtenFor, written |-> TRUE]]
    /\ remaining' = remaining - 1
    /\ intrq' = (intrq \/ remaining = 1)
    /\ UNCHANGED <<mounted, unreadable, changePending, spoiled, track, sector,
                   command, fdcBlock, failed, directoryOf, writtenFor, waiting,
                   torn>>

\* The status register: reading it takes the interrupt request back.
ReadStatus ==
    /\ intrq' = FALSE
    /\ waiting' = (waiting /\ ~intrq)
    /\ UNCHANGED <<diskVars, track, sector, command, fdcBlock, remaining,
                   failed, directoryOf, writtenFor, torn>>

\* The DUART's input port: IP1 tells of a new disk, once.
ReadInputPort ==
    /\ directoryOf' = IF changePending THEN mounted ELSE directoryOf
    /\ changePending' = FALSE
    /\ UNCHANGED <<mounted, image, unreadable, spoiled, fdcVars, writtenFor,
                   waiting, torn>>
-------------------------------------------------------------------------------
(* The user. *)

\* Slip: the transfer goes on, with the new disk.
MountMidTransfer(disk) ==
    /\ mounted' = disk
    /\ image' = Original(disk)
    /\ unreadable' = Unreadable(disk)
    /\ spoiled' = FALSE
    /\ changePending' = TRUE
    /\ track' = 0
    /\ sector' = 0
    /\ failed' = FALSE
    /\ waiting' = waiting
    /\ UNCHANGED <<command, fdcBlock, intrq, directoryOf, writtenFor, torn,
                   remaining>>

\* Slip: the EPS is not told.
MountQuietly(disk) ==
    /\ mounted' = disk
    /\ image' = Original(disk)
    /\ unreadable' = Unreadable(disk)
    /\ spoiled' = FALSE
    /\ track' = 0
    /\ sector' = 0
    /\ remaining' = 0
    /\ failed' = FALSE
    /\ waiting' = (waiting /\ remaining = 0)
    /\ UNCHANGED <<command, fdcBlock, intrq, directoryOf, writtenFor, torn,
                   changePending>>

\* Slip: the error of the last disk stays in the status register.
MountKeepsError(disk) ==
    /\ mounted' = disk
    /\ image' = Original(disk)
    /\ unreadable' = Unreadable(disk)
    /\ spoiled' = FALSE
    /\ changePending' = TRUE
    /\ track' = 0
    /\ sector' = 0
    /\ remaining' = 0
    /\ waiting' = (waiting /\ remaining = 0)
    /\ UNCHANGED <<command, fdcBlock, intrq, directoryOf, writtenFor, torn,
                   failed>>

\* A disk goes in: insert_disk() of a valid image, create_blank_disk().
Mount(disk) ==
    /\ mounted' = disk
    /\ image' = Original(disk)
    /\ unreadable' = Unreadable(disk)
    /\ spoiled' = FALSE
    /\ changePending' = TRUE
    /\ track' = 0
    /\ sector' = 0
    /\ remaining' = 0
    /\ failed' = FALSE
    /\ waiting' = (waiting /\ remaining = 0)
    /\ UNCHANGED <<command, fdcBlock, intrq, directoryOf, writtenFor, torn>>

\* An HFE file whose damage shows on a later track: decode_hfe() has already
\* rewritten the map of readable sectors, track by track, when it gives up.
InsertFailsLate ==
    /\ \E decoded \in SUBSET Block : unreadable' = Block \ decoded
    /\ spoiled' = TRUE
    /\ UNCHANGED <<mounted, image, changePending, fdcVars, directoryOf,
                   writtenFor, waiting, torn>>

HalfWritten(block) ==
    \E j, k \in 1 .. SectorBytes :
        image[block][j].written /\ ~image[block][k].written

\* Slip: the disk is saved whatever the EPS is doing.
SaveDiskAnytime ==
    /\ mounted # NoDisk
    /\ torn' = {block \in Block : HalfWritten(block)}
    /\ UNCHANGED <<diskVars, fdcVars, directoryOf, writtenFor, waiting>>

\* Refused while the EPS is writing a sector.
SaveDisk ==
    /\ mounted # NoDisk
    /\ ~(remaining > 0 /\ command = "write")
    /\ torn' = {block \in Block : HalfWritten(block)}
    /\ UNCHANGED <<diskVars, fdcVars, directoryOf, writtenFor, waiting>>
-------------------------------------------------------------------------------
Next ==
    \/ SelectSector
    \/ SeekCommand
    \/ TransferCommand
    \/ ForceInterrupt
    \/ ReadByte
    \/ WriteByte
    \/ ReadStatus
    \/ ReadInputPort
    \/ \E disk \in Medium : Mount(disk)
    \/ InsertFailsLate
    \/ SaveDisk

Spec == Init /\ [][Next]_vars
-------------------------------------------------------------------------------
(* Properties. *)

TypeOK ==
    /\ mounted \in Medium \cup {NoDisk}
    /\ image \in [Block -> [1 .. SectorBytes -> Byte]]
    /\ unreadable \subseteq Block
    /\ changePending \in BOOLEAN
    /\ spoiled \in BOOLEAN
    /\ directoryOf \in Medium \cup {NoDisk}
    /\ track \in Track
    /\ sector \in 0 .. Sectors
    /\ command \in {"none", "seek", "read", "write", "force"}
    /\ fdcBlock \in Block
    /\ remaining \in 0 .. SectorBytes
    /\ failed \in BOOLEAN
    /\ intrq \in BOOLEAN
    /\ writtenFor \in Medium \cup {NoDisk}
    /\ waiting \in BOOLEAN
    /\ torn \subseteq Block

\* A disk that is swapped in while the EPS writes gets nothing of what was
\* meant for the one before.
NoStrayWrite ==
    \A block \in Block, k \in 1 .. SectorBytes :
        image[block][k].disk = mounted

\* A saved file holds no sector the EPS was in the middle of.
SavedSectorsWhole == torn = {}

\* The EPS knows which disk is in, or will be told: no number of swaps, blank
\* disks and reads of the input port leaves it with an old directory.
DirectoryNotStale == directoryOf # mounted => changePending

\* A command is answered: as long as the disk stays in, one that the
\* controller took up moves bytes or ends with an interrupt request.
CommandAnswered == waiting => remaining > 0 \/ intrq

\* An error the EPS can read in the status register is one of the disk in the
\* drive, at the track the head is on, unless an insert that failed late left
\* its map behind.
ErrorOfThisDisk ==
    failed /\ ~spoiled =>
        \E s \in 0 .. Sectors - 1 : <<track, s>> \in Unreadable(mounted)

\* Sectors that can be read stay so until another disk goes in.
MapOfThisDisk == unreadable = Unreadable(mounted)
===============================================================================
