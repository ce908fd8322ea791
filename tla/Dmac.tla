---------------------------------- MODULE Dmac ----------------------------------
(***************************************************************************)
(* The two channels of the MC68450 DMA controller the EPS uses and the one *)
(* pending interrupt of rom_probe.c, dmac_irq_channel.  The devices drive  *)
(* the peripheral control line (PCL) of their channel and the EPS reads    *)
(* and writes the registers; StorageDma holds the two together.            *)
(***************************************************************************)
EXTENDS Naturals

CONSTANTS
    EdgeInterrupts, \* the channels whose PCL is programmed to interrupt
    MaxCount,       \* the longest transfer the EPS programs
    NoChannel       \* dmac_irq_channel is -1

Channel == {"floppy", "scsi"}

ASSUME DmacAssumption ==
    /\ EdgeInterrupts \subseteq Channel
    /\ MaxCount \in Nat \ {0}
    /\ NoChannel \notin Channel

VARIABLES
    channel,        \* the registers of each channel, and the level of its PCL
    slot            \* dmac_irq_channel

dmacVars == <<channel, slot>>

\* ended: the completion bits 0xe0 of the status, edge: its PCT bit 0x02,
\* inte: the interrupt enable bit, high: the level of PCL.
Registers ==
    [active : BOOLEAN, ended : BOOLEAN, edge : BOOLEAN, inte : BOOLEAN,
     high : BOOLEAN, count : 0 .. MaxCount]

\* The edge of the SCSI channel tells the boot ROM that the card is there.
DmacInit ==
    /\ channel = [c \in Channel |->
                     [active |-> FALSE, ended |-> FALSE, edge |-> c = "scsi",
                      inte |-> FALSE, high |-> TRUE, count |-> 0]]
    /\ slot = NoChannel

\* A falling edge of PCL is noted in the status.
WithPcl(regs, high) ==
    [regs EXCEPT !.high = high, !.edge = @ \/ (regs.high /\ ~high)]

\* It asks for an interrupt where the channel is programmed to.
PclRaises(c, high) ==
    /\ c \in EdgeInterrupts
    /\ channel[c].high /\ ~high
    /\ channel[c].inte

\* A transfer that ends stops the channel.
Completed(regs) == [regs EXCEPT !.active = FALSE, !.ended = TRUE]

\* The one pending interrupt is taken by who comes first.
Claim(c) == slot' = IF slot = NoChannel THEN c ELSE slot

Release(c) == slot' = IF slot = c THEN NoChannel ELSE slot

\* A device drives its line.
DrivePcl(c, high) ==
    /\ channel' = [channel EXCEPT ![c] = WithPcl(@, high)]
    /\ IF PclRaises(c, high) THEN Claim(c) ELSE UNCHANGED slot

\* A device takes its request back and raises it again at once.
PulsePcl(c) ==
    /\ channel' = [channel EXCEPT ![c].high = FALSE, ![c].edge = TRUE]
    /\ IF c \in EdgeInterrupts /\ channel[c].inte
       THEN Claim(c) ELSE UNCHANGED slot
-------------------------------------------------------------------------------
(* The registers, as the EPS writes them. *)

\* Slip: the status is cleared without looking at the pending interrupt.
WriteStatusKeepsSlot(c, ended, edge) ==
    /\ channel' = [channel EXCEPT ![c].ended = @ /\ ~ended,
                                  ![c].edge  = @ /\ ~edge]
    /\ UNCHANGED slot

\* Status: a one clears a flag; the pending interrupt goes with the last one.
WriteStatus(c, ended, edge) ==
    LET cleared == [channel[c] EXCEPT !.ended = @ /\ ~ended,
                                      !.edge  = @ /\ ~edge]
    IN  /\ channel' = [channel EXCEPT ![c] = cleared]
        /\ IF cleared.ended \/ cleared.edge THEN UNCHANGED slot ELSE Release(c)

\* Control: start a transfer of count bytes.  The EPS starts a channel with
\* a clear status and no transfer in progress, as the MC68450 demands.
StartChannel(c, count, inte) ==
    /\ ~channel[c].active /\ ~channel[c].ended /\ ~channel[c].edge
    /\ channel' = [channel EXCEPT ![c].active = TRUE,
                                  ![c].count  = count,
                                  ![c].inte   = inte]
    /\ IF inte THEN UNCHANGED slot ELSE Release(c)

\* Control: abort, or only mask or unmask the interrupt.
WriteControl(c, abort, inte) ==
    /\ channel' = [channel EXCEPT ![c].active = @ /\ ~abort,
                                  ![c].inte   = inte]
    /\ IF inte THEN UNCHANGED slot ELSE Release(c)
================================================================================
