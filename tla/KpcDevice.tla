------------------------------- MODULE KpcDevice -------------------------------
(***************************************************************************)
(* The devices around the 68HC11 of the keypad: the serial line to the     *)
(* main board (SCI), the synchronous link on which the keypad answers its  *)
(* scans (SPI), the timer flags, and the choice of an interrupt.           *)
(*                                                                         *)
(* Each action of the firmware is one kpc_device_step(): an instruction    *)
(* with its access, the time it takes, and the interrupt that follows.     *)
(* The firmware is any program (Hc11 has its instructions).  The phases 3  *)
(* to 5 of a panel transition are never entered and are left out, and so   *)
(* is the count of transfers, which is 1 wherever the code looks at it.    *)
(***************************************************************************)
EXTENDS Naturals, Sequences

CONSTANTS
    SerialBytes,    \* what goes over the serial line
    Scans,          \* scan commands of the keypad, other than 0 and ff
    QueueSize,      \* KPC_DEVICE_QUEUE_SIZE: 4096
    Character,      \* the cycles of a character on the serial line
    Transfer,       \* the cycles of a synchronous transfer: 16
    Instruction,    \* the cycles an instruction takes
    TimerFlag,      \* the flags of TFLG1 that have a use: IC2, IC3, OC4, OC5
    Configurations, \* what the firmware enables, and which source it promotes
    Entry,          \* the cycles of an interrupt entry: 12
    NoByte

ASSUME KpcAssumption ==
    /\ QueueSize \in Nat \ {0} /\ Character \in Nat \ {0} /\ Transfer \in Nat \ {0}
    /\ Instruction \subseteq 1 .. Character
    /\ Entry \in 1 .. Character
    /\ TimerFlag \subseteq {"IC2", "IC3", "OC4", "OC5"}
    /\ NoByte \notin SerialBytes

Scanned == Scans \cup {"zero", "ff"}

VARIABLES
    sci,        \* rx_count, tx, sci_tx_cycles_remaining and the byte behind it
    spi,        \* the transfer: cycles left, the flag, whether it was read
    panel,      \* panel_transition_phase and spi_receive_value
    flags,      \* TFLG1
    enabled,    \* TMSK1 and the enable bits of SCI and SPI
    first,      \* the promoted source of HPRIO
    masked,     \* the I bit
    kpcIllegal, \* illegal_opcode of the core: the firmware has stopped
    active,     \* kpc_physical_active of the main board
    due,        \* history: bytes accepted and not yet taken by the main board
    reports     \* history: scans that were answered with the edge

kpcVars == <<sci, spi, panel, flags, enabled, first, masked, kpcIllegal, active, due,
             reports>>

KpcInit ==
    /\ sci = [rx |-> 0, tx |-> <<>>, busy |-> 0, behind |-> NoByte]
    /\ spi = [left |-> 0, complete |-> FALSE, seen |-> FALSE]
    /\ panel = [phase |-> 0, receive |-> "idle"]
    /\ flags = {}
    /\ enabled = {}
    /\ first = "none"
    /\ masked = TRUE
    /\ kpcIllegal = FALSE
    /\ active = FALSE
    /\ due = <<>>
    /\ reports = 0
-------------------------------------------------------------------------------
(* The serial line. *)

\* sci_start_transmit() drops the byte when the queue is full.
Started(s, byte) ==
    IF Len(s.tx) = QueueSize THEN s
    ELSE [s EXCEPT !.tx = Append(@, byte), !.busy = Character]

\* A write of SCI_DATA: one byte can wait behind the one that is sent.
SciWritten(s, byte) ==
    IF s.busy = 0 THEN Started(s, byte)
    ELSE IF s.behind = NoByte THEN [s EXCEPT !.behind = byte] ELSE s

\* Slip: the byte that waited is sent and goes on waiting.
SciTickKeepsBehind(s, n) ==
    IF n < s.busy THEN [s EXCEPT !.busy = @ - n]
    ELSE IF s.busy = 0 \/ s.behind = NoByte THEN [s EXCEPT !.busy = 0]
    ELSE Started([s EXCEPT !.busy = 0], s.behind)

\* sci_tick(), for no more than the time of a character
SciTick(s, n) ==
    IF n < s.busy THEN [s EXCEPT !.busy = @ - n]
    ELSE IF s.busy = 0 \/ s.behind = NoByte THEN [s EXCEPT !.busy = 0]
    ELSE LET next == Started([s EXCEPT !.busy = 0, !.behind = NoByte], s.behind)
             rest == n - s.busy
         IN  [next EXCEPT !.busy = IF @ > rest THEN @ - rest ELSE 0]

\* sci_status_value()
SciStatus(s) ==
    (IF s.behind = NoByte THEN {"TDRE"} ELSE {}) \cup
    (IF s.busy = 0 THEN {"TC"} ELSE {}) \cup
    (IF s.rx > 0 THEN {"RDRF"} ELSE {})
-------------------------------------------------------------------------------
(* The synchronous link and the keypad behind it. *)

SpiTick(p, n) ==
    IF p.left = 0 THEN p
    ELSE IF n < p.left THEN [p EXCEPT !.left = @ - n]
    ELSE [p EXCEPT !.left = 0, !.complete = TRUE]

\* Slip: the line stays at the edge until the ff.
AnswerAgain(value) ==
    CASE panel.phase = 6 -> "edge"
      [] panel.phase = 7 -> "idle"
      [] OTHER -> panel.receive

\* What a transfer brings.
Answer(value) ==
    CASE panel.phase = 6 -> "edge"
      [] panel.phase \in {2, 7} -> "idle"
      [] OTHER -> panel.receive

\* A press waits for a scan, a release takes whatever comes first for it;
\* the ff that follows ends both.
AfterTransfer(value) ==
    CASE panel.phase = 1 /\ value # "ff" -> [panel EXCEPT !.phase = 2]
      [] panel.phase = 6 -> [panel EXCEPT !.phase = 7]
      [] panel.phase \in {2, 7} /\ value = "ff" -> [phase |-> 0, receive |-> "idle"]
      [] OTHER -> panel
-------------------------------------------------------------------------------
(* timer_resolve_interrupt() *)

SciPending(s) ==
    \/ "RIE" \in enabled' /\ "RDRF" \in SciStatus(s)
    \/ "TIE" \in enabled' /\ "TDRE" \in SciStatus(s)
    \/ "TCIE" \in enabled' /\ "TC" \in SciStatus(s)

Pending(s, p, f) ==
    (f \cap enabled') \cup
    (IF "SPIE" \in enabled' /\ p.complete THEN {"SPI"} ELSE {}) \cup
    (IF SciPending(s) THEN {"SCI"} ELSE {})

Order == <<"IC2", "IC3", "OC4", "OC5", "SPI", "SCI">>

Cause(pending) ==
    IF first' \in pending THEN first'
    ELSE Order[CHOOSE i \in 1 .. Len(Order) :
                  /\ Order[i] \in pending
                  /\ \A j \in 1 .. i - 1 : Order[j] \notin pending]

\* The flags the counter and the capture inputs raise meanwhile: timer_tick(),
\* timer_set_compare_flags(), kpc_device_input_capture(); the count is left out.
Timed(f, raised) == {f \cup new : new \in SUBSET (TimerFlag \cap raised)}

\* The rest of a step after the access: s, p, f and m are what it left.
Clock(s, p, f, m) ==
    \E n \in Instruction, f1 \in Timed(f, TimerFlag) :
        LET s1 == SciTick(s, n)
            p1 == SpiTick(p, n)
            pending == Pending(s1, p1, f1)
        IN  IF m \/ pending = {}
            THEN sci' = s1 /\ spi' = p1 /\ flags' = f1 /\ masked' = m
            ELSE /\ Cause(pending) \in pending
                 /\ sci' = SciTick(s1, Entry)
                 /\ spi' = SpiTick(p1, Entry)
                 /\ flags' \in Timed(f1, {"OC4", "OC5"})
                 /\ masked' = TRUE

Settings == <<enabled, first>>
Board == <<active>>
-------------------------------------------------------------------------------
(* The firmware. *)

\* An instruction without an access, CLI, SEI or RTI among them.
Run ==
    /\ ~kpcIllegal
    /\ UNCHANGED <<panel, Settings, kpcIllegal, Board, due, reports>>
    /\ \E m \in BOOLEAN : Clock(sci, spi, flags, m)

Stop ==
    /\ ~kpcIllegal
    /\ kpcIllegal' = TRUE
    /\ UNCHANGED <<sci, spi, panel, flags, Settings, masked, Board, due, reports>>

ReadSci ==
    /\ ~kpcIllegal
    /\ UNCHANGED <<panel, Settings, kpcIllegal, Board, due, reports>>
    /\ Clock([sci EXCEPT !.rx = IF @ > 0 THEN @ - 1 ELSE 0], spi, flags, masked)

\* The firmware looks at TDRE first; the byte is then accepted unless the
\* queue to the main board is full.
WriteSci(byte) ==
    /\ ~kpcIllegal
    /\ "TDRE" \in SciStatus(sci)
    /\ Len(due) < QueueSize
    /\ due' = Append(due, byte)
    /\ UNCHANGED <<panel, Settings, kpcIllegal, Board, reports>>
    /\ Clock(SciWritten(sci, byte), spi, flags, masked)

ReadSpiStatus ==
    /\ ~kpcIllegal
    /\ UNCHANGED <<panel, Settings, kpcIllegal, Board, due, reports>>
    /\ Clock(sci, [spi EXCEPT !.seen = TRUE], flags, masked)

ReadSpiData ==
    /\ ~kpcIllegal
    /\ UNCHANGED <<panel, Settings, kpcIllegal, Board, due, reports>>
    /\ Clock(sci, [spi EXCEPT !.complete = @ /\ ~spi.seen, !.seen = FALSE],
             flags, masked)

WriteSpi(value) ==
    /\ ~kpcIllegal
    /\ panel' = AfterTransfer(value)
    /\ reports' = IF Answer(value) = "edge" /\ (value # "ff" \/ panel.phase = 6)
                  THEN reports + 1 ELSE reports
    /\ UNCHANGED <<Settings, kpcIllegal, Board, due>>
    /\ Clock(sci, [left |-> Transfer, complete |-> FALSE, seen |-> FALSE], flags, masked)

\* TFLG1: a one clears a flag.
ClearFlags ==
    /\ ~kpcIllegal
    /\ UNCHANGED <<panel, Settings, kpcIllegal, Board, due, reports>>
    /\ \E f \in TimerFlag : Clock(sci, spi, flags \ {f}, masked)

\* TMSK1, SCCR2, SPCR and HPRIO
Configure(set, promoted) ==
    /\ ~kpcIllegal
    /\ enabled' = set
    /\ first' = promoted
    /\ UNCHANGED <<panel, kpcIllegal, Board, due, reports>>
    /\ Clock(sci, spi, flags, masked)
-------------------------------------------------------------------------------
(* The main board. *)

Receive ==
    /\ sci.rx < QueueSize
    /\ sci' = [sci EXCEPT !.rx = @ + 1]
    /\ UNCHANGED <<spi, panel, flags, Settings, masked, kpcIllegal, Board, due, reports>>

\* kpc_device_panel_transition() and what the board puts over it: one transfer,
\* and the phase of a release; _complete() goes back to the idle line.
Offered(pressed) ==
    [phase |-> IF pressed THEN 1 ELSE 6, receive |-> IF pressed THEN "edge" ELSE "idle"]
Quiet == [phase |-> 0, receive |-> "idle"]

\* kpc_device_transmit(); over says that it was the code and then 00 of the
\* transition, which completes it.
KpcTransmit(over) ==
    /\ sci.tx # <<>>
    /\ over => active
    /\ sci' = [sci EXCEPT !.tx = Tail(@)]
    /\ due' = IF due # <<>> /\ Head(due) = Head(sci.tx) THEN Tail(due) ELSE due
    /\ panel' = IF over THEN Quiet ELSE panel
    /\ active' = (active /\ ~over)
    /\ UNCHANGED <<spi, flags, Settings, masked, kpcIllegal, reports>>

\* kpc_execution_start_physical() takes a key off the queue; a device that is
\* still in a transition refuses it, and it is gone.
StartPhysical(pressed) ==
    /\ ~active
    /\ IF panel.phase = 0
       THEN /\ panel' = Offered(pressed)
            /\ active' = TRUE
            /\ reports' = 0
       ELSE UNCHANGED <<panel, active, reports>>
    /\ UNCHANGED <<sci, spi, flags, Settings, masked, kpcIllegal, due>>

KpcNext ==
    \/ Run \/ Stop \/ ReadSci \/ ReadSpiStatus \/ ReadSpiData \/ ClearFlags
    \/ \E byte \in SerialBytes : WriteSci(byte)
    \/ \E value \in Scanned : WriteSpi(value)
    \/ \E c \in Configurations : Configure(c[1], c[2])
    \/ Receive
    \/ \E over \in BOOLEAN : KpcTransmit(over)
    \/ \E pressed \in BOOLEAN : StartPhysical(pressed)

KpcSpec == KpcInit /\ [][KpcNext]_kpcVars
-------------------------------------------------------------------------------
(* Properties. *)

KpcTypeOK ==
    /\ sci \in [rx : 0 .. QueueSize, tx : Seq(SerialBytes), busy : 0 .. Character,
                behind : SerialBytes \cup {NoByte}]
    /\ spi \in [left : 0 .. Transfer, complete : BOOLEAN, seen : BOOLEAN]
    /\ panel \in [phase : {0, 1, 2, 6, 7}, receive : {"idle", "edge"}]
    /\ flags \subseteq TimerFlag
    /\ masked \in BOOLEAN /\ kpcIllegal \in BOOLEAN /\ active \in BOOLEAN

\* Every byte the firmware wrote when the transmitter said it was empty goes
\* to the main board, in order, whatever waited behind the one being sent.
BytesInOrder ==
    due = sci.tx \o (IF sci.behind = NoByte THEN <<>> ELSE <<sci.behind>>)

\* An edge is the answer to one scan: a key is not reported twice while the
\* firmware goes on scanning, not missed when it does, and none that is taken
\* off the queue is refused by the device.
EdgeReportedOnce ==
    /\ ~active => panel.phase = 0
    /\ reports <= 1
    /\ panel.phase \in {2, 7} => reports = 1
    /\ panel.phase \in {1, 6} => reports = 0
================================================================================
