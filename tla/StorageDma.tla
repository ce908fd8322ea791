------------------------------- MODULE StorageDma -------------------------------
(***************************************************************************)
(* Floppy controller, SCSI target and DMA controller together: bytes go    *)
(* from the devices to memory, and what ends a transfer becomes an         *)
(* interrupt of the EPS.  Of the floppy controller only what reaches the   *)
(* DMA controller is here (FloppyDrive has the rest).                      *)
(*                                                                         *)
(* The EPS operating system is the caller of the registers.  It is assumed *)
(* to read the SCSI status after an interrupt before it gives the next     *)
(* command, as the WD33C93 demands, and to let a command finish.           *)
(***************************************************************************)
EXTENDS Dmac

CONSTANTS
    SectorBytes,    \* 512
    MaxStream,      \* the longest READ of the EPS, in bytes
    SliceTransfers  \* dmac_service() moves at most so many bytes: 4096

ASSUME StorageAssumption ==
    /\ SectorBytes \in Nat \ {0}
    /\ MaxStream \in Nat \ {0}
    /\ SliceTransfers \in Nat \ {0}

VARIABLES
    sectorLeft,     \* fdc_remaining
    buffered,       \* bytes of an answer the CPU still has to read
    streaming,      \* scsi_stream_remaining
    int,            \* the interrupt bit of scsi_aux_status
    answerDue,      \* a command was given and has not come to its interrupt
    cut,            \* an image was changed under the command
    unwired,        \* int was set without driving PCL
    unheard         \* channels with an end no interrupt will tell of: one of
                    \* the other channel was pending, or it was masked then

scsiVars == <<buffered, streaming, int, answerDue, cut, unwired>>
vars == <<dmacVars, sectorLeft, scsiVars, unheard>>

Init ==
    /\ DmacInit
    /\ sectorLeft = 0
    /\ buffered = 0
    /\ streaming = 0
    /\ int = FALSE
    /\ answerDue = FALSE
    /\ cut = FALSE
    /\ unwired = FALSE
    /\ unheard = {}

\* History: of the channels that ask, who is not given the interrupt.
Hear(asking) ==
    unheard' = {c \in unheard \cup asking :
                   slot' # c /\ (channel'[c].ended \/ channel'[c].edge)}
-------------------------------------------------------------------------------
(* The floppy controller. *)

FloppyTransferCommand ==
    /\ sectorLeft = 0
    /\ sectorLeft' = SectorBytes
    /\ DrivePcl("floppy", TRUE)
    /\ UNCHANGED <<scsiVars, unheard>>

\* RESTORE, SEEK, STEP, a damaged sector, FORCE INTERRUPT with a request.
FloppyAnswersAtOnce ==
    /\ sectorLeft' = 0
    /\ PulsePcl("floppy")
    /\ Hear(IF "floppy" \in EdgeInterrupts /\ channel["floppy"].inte
              THEN {"floppy"} ELSE {})
    /\ UNCHANGED scsiVars

\* Reading the status, FORCE INTERRUPT without a request, or a transfer
\* command without a disk.
FloppyTakesRequestBack ==
    /\ sectorLeft' \in {sectorLeft, 0}
    /\ DrivePcl("floppy", TRUE)
    /\ UNCHANGED <<scsiVars, unheard>>

\* The CPU moves a byte through the data register.
FloppyByteByCpu ==
    /\ sectorLeft > 0
    /\ sectorLeft' = sectorLeft - 1
    /\ IF sectorLeft = 1
       THEN /\ DrivePcl("floppy", FALSE)
            /\ Hear(IF PclRaises("floppy", FALSE) THEN {"floppy"} ELSE {})
       ELSE UNCHANGED <<dmacVars, unheard>>
    /\ UNCHANGED scsiVars
-------------------------------------------------------------------------------
(* The SCSI target. *)

RaiseInterrupt ==
    /\ int' = TRUE
    /\ DrivePcl("scsi", FALSE)
    /\ Hear(IF PclRaises("scsi", FALSE) THEN {"scsi"} ELSE {})
    /\ UNCHANGED unwired

\* RESET, TEST UNIT READY, a READ beyond the image or without one, another
\* target or an unknown command: the answer is only an interrupt.
AnswerAtOnce ==
    /\ ~int /\ ~answerDue
    /\ buffered' = 0
    /\ streaming' = 0
    /\ answerDue' = FALSE
    /\ cut' = FALSE
    /\ RaiseInterrupt
    /\ UNCHANGED sectorLeft

\* REQUEST SENSE and INQUIRY: an answer for the CPU to read.  An answer of no
\* bytes sets the interrupt bit and leaves PCL alone.
AnswerBuffered(bytes) ==
    /\ ~int /\ ~answerDue
    /\ buffered' = bytes
    /\ streaming' = 0
    /\ int' = (bytes = 0)
    /\ answerDue' = ~int'
    /\ cut' = FALSE
    /\ unwired' = (bytes = 0)
    /\ UNCHANGED <<dmacVars, sectorLeft, unheard>>

\* READ of blocks the image has.
AnswerStreamed(bytes) ==
    /\ ~int /\ ~answerDue
    /\ buffered' = 0
    /\ streaming' = bytes
    /\ int' = FALSE
    /\ answerDue' = TRUE
    /\ cut' = FALSE
    /\ UNCHANGED <<dmacVars, sectorLeft, unwired, unheard>>

\* Slip: the last byte of an answer goes without an interrupt.
ReadBufferSilently ==
    /\ buffered > 0
    /\ buffered' = buffered - 1
    /\ UNCHANGED <<dmacVars, sectorLeft, streaming, int, answerDue, cut,
                   unwired, unheard>>

\* The CPU reads the data register; the last byte interrupts.
ReadBuffer ==
    /\ buffered > 0
    /\ buffered' = buffered - 1
    /\ IF buffered = 1
       THEN RaiseInterrupt
       ELSE UNCHANGED <<dmacVars, int, unwired, unheard>>
    /\ answerDue' = (answerDue /\ ~int')
    /\ UNCHANGED <<sectorLeft, streaming, cut>>

ReadStreamByCpu ==
    /\ buffered = 0 /\ streaming > 0
    /\ streaming' = streaming - 1
    /\ IF streaming = 1
       THEN RaiseInterrupt
       ELSE UNCHANGED <<dmacVars, int, unwired, unheard>>
    /\ answerDue' = (answerDue /\ ~int')
    /\ UNCHANGED <<sectorLeft, buffered, cut>>

\* Reading the SCSI status register takes the interrupt back.
ReadScsiStatus ==
    /\ int' = FALSE
    /\ unwired' = FALSE
    /\ DrivePcl("scsi", TRUE)
    /\ UNCHANGED <<sectorLeft, buffered, streaming, answerDue, cut, unheard>>

\* The user changes the CD image.
ChangeImage ==
    /\ buffered' = 0
    /\ streaming' = 0
    /\ cut' = (cut \/ answerDue)
    /\ answerDue' = FALSE
    /\ UNCHANGED <<dmacVars, sectorLeft, int, unwired, unheard>>
-------------------------------------------------------------------------------
(* The controller between two slices of the CPU. *)

DeviceLeft(c) == IF c = "floppy" THEN sectorLeft ELSE streaming

Smallest(a, b, c) ==
    CHOOSE n \in {a, b, c} : n <= a /\ n <= b /\ n <= c

\* Slip: the transfer count is not looked at.
MovedUncounted(c) ==
    IF channel[c].active
    THEN Smallest(DeviceLeft(c), DeviceLeft(c), SliceTransfers) ELSE 0

\* Bytes an active channel moves in one call of dmac_service().
Moved(c) ==
    IF channel[c].active
    THEN Smallest(channel[c].count, DeviceLeft(c), SliceTransfers) ELSE 0

\* Its count is used up, by the last byte or from the start.
Ends(c) == channel[c].active /\ Moved(c) = channel[c].count

\* The device gave its last byte and drives PCL low.
DeviceEnds(c) == Moved(c) > 0 /\ Moved(c) = DeviceLeft(c)

Served(c) ==
    LET moved == [channel[c] EXCEPT !.count = @ - Moved(c)]
        lined == IF DeviceEnds(c) THEN WithPcl(moved, FALSE) ELSE moved
    IN  IF Ends(c) THEN Completed(lined) ELSE lined

\* Slip: the end of the count is noted in the status only.
AsksForDeviceOnly(c) == DeviceEnds(c) /\ PclRaises(c, FALSE)

Asks(c) ==
    \/ DeviceEnds(c) /\ PclRaises(c, FALSE)
    \/ Ends(c) /\ channel[c].inte

DmacService ==
    /\ \E c \in Channel : channel[c].active
    /\ channel' = [c \in Channel |-> Served(c)]
    /\ slot' = IF slot # NoChannel THEN slot
               ELSE IF Asks("floppy") THEN "floppy"
               ELSE IF Asks("scsi") THEN "scsi" ELSE NoChannel
    /\ sectorLeft' = sectorLeft - Moved("floppy")
    /\ streaming' = streaming - Moved("scsi")
    /\ int' = (int \/ DeviceEnds("scsi"))
    /\ answerDue' = (answerDue /\ ~int')
    /\ Hear({c \in Channel : Asks(c)})
    /\ UNCHANGED <<buffered, cut, unwired>>
-------------------------------------------------------------------------------
(* The EPS. *)

Program ==
    /\ \E c \in Channel, inte \in BOOLEAN :
          \/ /\ \E count \in 1 .. MaxCount : StartChannel(c, count, inte)
             /\ Hear({})
          \/ /\ \E abort \in BOOLEAN : WriteControl(c, abort, inte)
             /\ Hear(IF inte /\ ~channel[c].inte THEN {c} ELSE {})
    /\ UNCHANGED <<sectorLeft, scsiVars>>

ClearStatus ==
    /\ \E c \in Channel, ended, edge \in BOOLEAN : WriteStatus(c, ended, edge)
    /\ Hear({})
    /\ UNCHANGED <<sectorLeft, scsiVars>>

\* The handler of interrupt level 2: interrupt_acknowledge() gives it the
\* vector of the pending channel, and it clears that channel's status.
HandleInterrupt ==
    /\ slot # NoChannel
    /\ WriteStatus(slot, TRUE, TRUE)
    /\ Hear({})
    /\ UNCHANGED <<sectorLeft, scsiVars>>

Next ==
    \/ FloppyTransferCommand
    \/ FloppyAnswersAtOnce
    \/ FloppyTakesRequestBack
    \/ FloppyByteByCpu
    \/ AnswerAtOnce
    \/ \E bytes \in 0 .. 1 : AnswerBuffered(bytes)
    \/ \E bytes \in 1 .. MaxStream : AnswerStreamed(bytes)
    \/ ReadBuffer
    \/ ReadStreamByCpu
    \/ ReadScsiStatus
    \/ ChangeImage
    \/ DmacService
    \/ Program
    \/ ClearStatus
    \/ HandleInterrupt

Spec == Init /\ [][Next]_vars

\* run_until() serves the channels and offers the pending interrupt in every
\* slice, and the EPS unmasks the level sooner or later.
FairSpec == Spec /\ WF_vars(DmacService) /\ WF_vars(HandleInterrupt)
-------------------------------------------------------------------------------
(* Properties. *)

TypeOK ==
    /\ channel \in [Channel -> Registers]
    /\ slot \in Channel \cup {NoChannel}
    /\ sectorLeft \in 0 .. SectorBytes
    /\ buffered \in 0 .. 1
    /\ streaming \in 0 .. MaxStream
    /\ int \in BOOLEAN
    /\ answerDue \in BOOLEAN
    /\ cut \in BOOLEAN
    /\ unwired \in BOOLEAN
    /\ unheard \subseteq Channel

\* Whatever is pending has a cause the handler finds in the status of the
\* channel, and is not masked: the EPS is not interrupted for nothing.
SlotHasReason ==
    slot # NoChannel =>
        /\ channel[slot].inte
        /\ channel[slot].ended \/ channel[slot].edge

\* The interrupt output of the SCSI chip is wired to PCL of its channel; only
\* an answer of no bytes sets the bit without the line.
IntWiredToPcl == ~unwired => (int <=> ~channel["scsi"].high)

HasBytes == buffered + streaming > 0

\* A SCSI command is answered: there are bytes to read or the interrupt has
\* come, until the status is read or another image cuts it short.
ScsiAnswered == answerDue => HasBytes

\* A transfer that ended with its interrupt enabled is handled, unless the
\* interrupt went unheard.
EndIsHandled ==
    \A c \in Channel :
        channel[c].ended /\ channel[c].inte
            ~> ~channel[c].ended \/ ~channel[c].inte \/ c \in unheard
================================================================================
