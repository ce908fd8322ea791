------------------------------ MODULE Panel_proofs ------------------------------
(***************************************************************************)
(* The keypad, the display and the machine's slices, proved for every      *)
(* size: the serial lines and the key edges of the keypad's device, the    *)
(* instructions of its processor, the decoder of the display, the browser  *)
(* panel that records what it shows, and the interrupt line of the DUART.  *)
(***************************************************************************)
EXTENDS KpcDevice, Hc11, VfdDecoder, LivePanel, MachineSlices,
        SequenceTheorems, NaturalsInduction, WellFoundedInduction, TLAPS

-------------------------------------------------------------------------------
(* The serial line keeps its bytes in order and every edge of a key is     *)
(* reported once, for any queue, pace of the line and order of accesses.   *)

Sci == [rx : 0 .. QueueSize, tx : Seq(SerialBytes), busy : 0 .. Character,
        behind : SerialBytes \cup {NoByte}]
Spi == [left : 0 .. Transfer, complete : BOOLEAN, seen : BOOLEAN]

\* What the transmitter still has: the queue, and the byte behind it.
OnTheWay(s) == IF s.behind = NoByte THEN s.tx ELSE Append(s.tx, s.behind)

LEMMA OnTheWayInOrder ==
    ASSUME NEW s \in Sci
    PROVE  /\ OnTheWay(s) = s.tx \o (IF s.behind = NoByte THEN <<>> ELSE <<s.behind>>)
           /\ OnTheWay(s) \in Seq(SerialBytes)
<1>1. s.tx \in Seq(SerialBytes) /\ s.behind \in SerialBytes \cup {NoByte}
  BY DEF Sci
<1>2. CASE s.behind = NoByte
  BY <1>1, <1>2, ConcatEmptySeq DEF OnTheWay
<1>3. CASE s.behind # NoByte
  <2>1. s.behind \in SerialBytes
    BY <1>1, <1>3
  <2>2. Append(s.tx, s.behind) = s.tx \o <<s.behind>>
    BY <1>1, <2>1, AppendIsConcat
  <2>3. QED
    BY <1>1, <1>3, <2>1, <2>2, AppendProperties DEF OnTheWay
<1>4. QED
  BY <1>2, <1>3

LEMMA BusyKeepsOrder ==
    ASSUME NEW s \in Sci, NEW n \in 0 .. Character
    PROVE  [s EXCEPT !.busy = n] \in Sci /\ OnTheWay([s EXCEPT !.busy = n]) = OnTheWay(s)
<1> DEFINE t == [s EXCEPT !.busy = n]
<1>1. t.rx = s.rx /\ t.tx = s.tx /\ t.busy = n /\ t.behind = s.behind
  BY DEF Sci
<1>2. t \in Sci
  <2>1. t = [rx |-> s.rx, tx |-> s.tx, busy |-> n, behind |-> s.behind]
    BY DEF Sci
  <2>2. /\ s.rx \in 0 .. QueueSize /\ s.tx \in Seq(SerialBytes)
        /\ s.behind \in SerialBytes \cup {NoByte}
    BY DEF Sci
  <2>3. QED
    BY <2>1, <2>2, Zenon DEF Sci
<1> HIDE DEF t
<1>3. OnTheWay(t) = OnTheWay(s)
  BY <1>1, Zenon DEF OnTheWay
<1> USE DEF t
<1>4. QED
  BY <1>2, <1>3

\* Time moves the byte behind into the queue, and drops none while the queue to
\* the main board has room for both.
LEMMA TickKeepsOrder ==
    ASSUME NEW s \in Sci, NEW n \in 0 .. Character, Len(OnTheWay(s)) <= QueueSize
    PROVE  SciTick(s, n) \in Sci /\ OnTheWay(SciTick(s, n)) = OnTheWay(s)
<1>0. /\ s.rx \in 0 .. QueueSize /\ s.tx \in Seq(SerialBytes) /\ s.busy \in 0 .. Character
      /\ s.behind \in SerialBytes \cup {NoByte}
      /\ Len(s.tx) \in Nat
  BY LenProperties DEF Sci
<1>1. CASE n < s.busy
  <2>1. SciTick(s, n) = [s EXCEPT !.busy = s.busy - n]
    BY <1>1 DEF SciTick
  <2>2. s.busy - n \in 0 .. Character
    <3>1. s.busy \in 0 .. Character /\ Character \in Nat
      BY <1>0, KpcAssumption
    <3>2. QED
      BY <1>1, <3>1
  <2>3. QED
    BY <2>1, <2>2, BusyKeepsOrder
<1>2. CASE ~(n < s.busy) /\ (s.busy = 0 \/ s.behind = NoByte)
  <2>1. SciTick(s, n) = [s EXCEPT !.busy = 0]
    BY <1>2 DEF SciTick
  <2>2. 0 \in 0 .. Character
    BY KpcAssumption
  <2>3. QED
    BY <2>1, <2>2, BusyKeepsOrder
<1>3. CASE ~(n < s.busy) /\ s.busy # 0 /\ s.behind # NoByte
  <2>1. s.behind \in SerialBytes
    BY <1>0, <1>3
  <2>2. Len(s.tx) # QueueSize
    <3>1. Len(OnTheWay(s)) = Len(s.tx) + 1
      BY <1>0, <1>3, <2>1, AppendProperties DEF OnTheWay
    <3>2. QED
      BY <1>0, <3>1, KpcAssumption
  <2> DEFINE left == IF Character > n - s.busy THEN Character - (n - s.busy) ELSE 0
             moved == [s EXCEPT !.tx = Append(s.tx, s.behind), !.busy = left,
                                !.behind = NoByte]
  <2>3. left \in 0 .. Character
    BY <1>0, <1>3, KpcAssumption
  <2> HIDE DEF left
  <2>4. SciTick(s, n) = moved
    BY <1>0, <1>3, <2>2 DEF SciTick, Started, Sci, left
  <2>5. Append(s.tx, s.behind) \in Seq(SerialBytes)
    BY <1>0, <2>1, AppendProperties
  <2>6. QED
    BY <1>0, <1>3, <2>3, <2>4, <2>5 DEF Sci, OnTheWay
<1>4. QED
  BY <1>1, <1>2, <1>3

LEMMA SpiTickType ==
    ASSUME NEW p \in Spi, NEW n \in Nat
    PROVE  SpiTick(p, n) \in Spi
<1>1. p.left \in 0 .. Transfer /\ Transfer \in Nat
  BY KpcAssumption DEF Spi
<1>2. CASE p.left = 0
  BY <1>2 DEF SpiTick
<1>3. CASE p.left # 0 /\ n < p.left
  <2>1. p.left - n \in 0 .. Transfer
    BY <1>1, <1>3
  <2>2. QED
    BY <1>3, <2>1 DEF SpiTick, Spi
<1>4. CASE p.left # 0 /\ ~(n < p.left)
  <2>1. 0 \in 0 .. Transfer
    BY <1>1
  <2>2. QED
    BY <1>4, <2>1 DEF SpiTick, Spi
<1>5. QED
  BY <1>2, <1>3, <1>4

\* The rest of a step leaves what is on the way as it is.
LEMMA ClockKeeps ==
    ASSUME NEW s \in Sci, NEW p \in Spi, NEW f \in SUBSET TimerFlag, NEW m \in BOOLEAN,
           Len(OnTheWay(s)) <= QueueSize, Clock(s, p, f, m)
    PROVE  /\ sci' \in Sci /\ OnTheWay(sci') = OnTheWay(s)
           /\ spi' \in Spi /\ flags' \subseteq TimerFlag /\ masked' \in BOOLEAN
<1>1. PICK n \in Instruction, f1 \in Timed(f, TimerFlag) :
        \/ /\ sci' = SciTick(s, n) /\ spi' = SpiTick(p, n)
           /\ flags' = f1 /\ masked' = m
        \/ /\ sci' = SciTick(SciTick(s, n), Entry) /\ spi' = SpiTick(SpiTick(p, n), Entry)
           /\ flags' \in Timed(f1, {"OC4", "OC5"}) /\ masked' = TRUE
  BY Zenon DEF Clock
<1>2. n \in 0 .. Character /\ n \in Nat /\ Entry \in 0 .. Character /\ Entry \in Nat
  BY KpcAssumption
<1>3. f1 \subseteq TimerFlag
  BY DEF Timed
<1>4. SciTick(s, n) \in Sci /\ OnTheWay(SciTick(s, n)) = OnTheWay(s)
  BY <1>2, TickKeepsOrder
<1>5. /\ SciTick(SciTick(s, n), Entry) \in Sci
      /\ OnTheWay(SciTick(SciTick(s, n), Entry)) = OnTheWay(s)
  <2> DEFINE t == SciTick(s, n)
  <2>1. t \in Sci /\ Len(OnTheWay(t)) <= QueueSize /\ OnTheWay(t) = OnTheWay(s)
    BY <1>4
  <2> HIDE DEF t
  <2>2. SciTick(t, Entry) \in Sci /\ OnTheWay(SciTick(t, Entry)) = OnTheWay(t)
    BY <1>2, <2>1, TickKeepsOrder
  <2>3. QED
    BY <2>1, <2>2 DEF t
<1>6. SpiTick(p, n) \in Spi /\ SpiTick(SpiTick(p, n), Entry) \in Spi
  BY <1>2, SpiTickType
<1>7. flags' \subseteq TimerFlag
  BY <1>1, <1>3 DEF Timed
<1>8. masked' \in BOOLEAN
  BY <1>1
<1>9. QED
  BY <1>1, <1>4, <1>5, <1>6, <1>7, <1>8

\* The panel: the edge is up until a scan has it, and a scan has it once.
PanelInv ==
    /\ panel \in [phase : {0, 1, 2, 6, 7}, receive : {"idle", "edge"}]
    /\ panel.phase = 0 => panel.receive = "idle"
    /\ panel.phase = 1 => panel.receive = "edge"
    /\ reports \in Nat
    /\ EdgeReportedOnce

KpcInv ==
    /\ KpcTypeOK
    /\ BytesInOrder
    /\ Len(due) <= QueueSize
    /\ PanelInv

LEMMA KpcInvInit == KpcInit => KpcInv
<1> SUFFICES ASSUME KpcInit
             PROVE  KpcInv
  OBVIOUS
<1>1. /\ sci = [rx |-> 0, tx |-> <<>>, busy |-> 0, behind |-> NoByte]
      /\ panel = [phase |-> 0, receive |-> "idle"] /\ flags = {} /\ due = <<>>
      /\ reports = 0 /\ spi = [left |-> 0, complete |-> FALSE, seen |-> FALSE]
      /\ masked = TRUE /\ kpcIllegal = FALSE /\ active = FALSE
  BY DEF KpcInit
<1>2. 0 \in 0 .. QueueSize /\ 0 \in 0 .. Character /\ 0 \in 0 .. Transfer
  BY KpcAssumption
<1>3. sci \in Sci
  BY <1>1, <1>2, EmptySeq DEF Sci
<1>4. spi \in Spi
  BY <1>1, <1>2 DEF Spi
<1>5. panel \in [phase : {0, 1, 2, 6, 7}, receive : {"idle", "edge"}]
  BY <1>1
<1>6. masked \in BOOLEAN /\ kpcIllegal \in BOOLEAN /\ active \in BOOLEAN
  BY <1>1
<1>7. KpcTypeOK
  BY <1>1, <1>3, <1>4, <1>5, <1>6 DEF KpcTypeOK, Sci, Spi
<1>8. BytesInOrder /\ Len(due) <= QueueSize
  <2>1. OnTheWay(sci) = due
    BY <1>1 DEF OnTheWay
  <2>2. Len(due) = 0 /\ 0 <= QueueSize
    BY <1>1, EmptySeq, KpcAssumption
  <2>3. QED
    BY <1>3, <2>1, <2>2, OnTheWayInOrder DEF BytesInOrder
<1>9. PanelInv
  BY <1>1, <1>5 DEF PanelInv, EdgeReportedOnce
<1>10. QED
  BY <1>7, <1>8, <1>9 DEF KpcInv

\* A step of the firmware that writes no byte.
LEMMA FirmwareKeeps ==
    ASSUME KpcInv, NEW s \in Sci, NEW p \in Spi, NEW f \in SUBSET TimerFlag,
           NEW m \in BOOLEAN, OnTheWay(s) = OnTheWay(sci), Clock(s, p, f, m),
           UNCHANGED <<kpcIllegal, active, due>>
    PROVE  /\ BytesInOrder' /\ Len(due') <= QueueSize
           /\ panel' \in [phase : {0, 1, 2, 6, 7}, receive : {"idle", "edge"}] => KpcTypeOK'
<1>1. sci \in Sci
  BY DEF KpcInv, KpcTypeOK, Sci
<1>2. due = OnTheWay(s) /\ Len(due) <= QueueSize
  BY <1>1, OnTheWayInOrder DEF KpcInv, BytesInOrder
<1>3. /\ sci' \in Sci /\ OnTheWay(sci') = OnTheWay(s)
      /\ spi' \in Spi /\ flags' \subseteq TimerFlag /\ masked' \in BOOLEAN
  BY <1>2, ClockKeeps
<1>4. due' = OnTheWay(sci')
  BY <1>2, <1>3
<1>5. BytesInOrder'
  BY <1>3, <1>4, OnTheWayInOrder DEF BytesInOrder
<1>6. kpcIllegal' \in BOOLEAN /\ active' \in BOOLEAN
  BY DEF KpcInv, KpcTypeOK
<1>7. QED
  BY <1>2, <1>3, <1>5, <1>6 DEF KpcTypeOK, Sci, Spi

LEMMA KpcParts ==
    ASSUME KpcInv
    PROVE  /\ sci \in Sci /\ spi \in Spi /\ flags \in SUBSET TimerFlag /\ masked \in BOOLEAN
           /\ due = OnTheWay(sci) /\ Len(due) <= QueueSize
           /\ kpcIllegal \in BOOLEAN /\ active \in BOOLEAN
<1>1. sci \in Sci /\ spi \in Spi /\ flags \in SUBSET TimerFlag
  BY DEF KpcInv, KpcTypeOK, Sci, Spi
<1>2. masked \in BOOLEAN /\ kpcIllegal \in BOOLEAN /\ active \in BOOLEAN
  BY DEF KpcInv, KpcTypeOK
<1>3. due = OnTheWay(sci) /\ Len(due) <= QueueSize
  BY <1>1, OnTheWayInOrder DEF KpcInv, BytesInOrder
<1>4. QED
  BY <1>1, <1>2, <1>3

\* Steps that do not touch the panel.
LEMMA PanelUntouched ==
    ASSUME PanelInv, UNCHANGED <<panel, active, reports>>
    PROVE  PanelInv'
  BY DEF PanelInv, EdgeReportedOnce

LEMMA FirmwareAlone ==
    ASSUME KpcInv, NEW s \in Sci, NEW p \in Spi, NEW f \in SUBSET TimerFlag,
           NEW m \in BOOLEAN, OnTheWay(s) = OnTheWay(sci), Clock(s, p, f, m),
           UNCHANGED <<panel, kpcIllegal, Board, due, reports>>
    PROVE  KpcInv'
<1>1. UNCHANGED <<kpcIllegal, active, due>>
  BY DEF Board
<1>2. BytesInOrder' /\ Len(due') <= QueueSize
  BY <1>1, FirmwareKeeps
<1>3. panel' \in [phase : {0, 1, 2, 6, 7}, receive : {"idle", "edge"}]
  BY DEF KpcInv, PanelInv
<1>4. KpcTypeOK'
  BY <1>1, <1>3, FirmwareKeeps
<1>5. PanelInv'
  BY PanelUntouched DEF KpcInv, Board
<1>6. QED
  BY <1>2, <1>4, <1>5 DEF KpcInv

LEMMA ReadSciKeeps ==
    ASSUME KpcInv, ReadSci
    PROVE  KpcInv'
<1> DEFINE left == IF sci.rx > 0 THEN sci.rx - 1 ELSE 0
           s == [sci EXCEPT !.rx = left]
<1>1. sci \in Sci /\ spi \in Spi /\ flags \in SUBSET TimerFlag /\ masked \in BOOLEAN
  BY KpcParts
<1>2. left \in 0 .. QueueSize
  <2>1. sci.rx \in 0 .. QueueSize /\ QueueSize \in Nat
    BY <1>1, KpcAssumption DEF Sci
  <2>2. QED
    BY <2>1
<1>3. Clock(s, spi, flags, masked) /\ UNCHANGED <<panel, kpcIllegal, Board, due, reports>>
  BY DEF ReadSci
<1> HIDE DEF left
<1>4. s \in Sci
  <2>1. s = [rx |-> left, tx |-> sci.tx, busy |-> sci.busy, behind |-> sci.behind]
    BY <1>1 DEF Sci
  <2>2. /\ sci.busy \in 0 .. Character /\ sci.tx \in Seq(SerialBytes)
        /\ sci.behind \in SerialBytes \cup {NoByte}
    BY <1>1 DEF Sci
  <2>3. QED
    BY <1>2, <2>1, <2>2, Zenon DEF Sci
<1>5. s.tx = sci.tx /\ s.behind = sci.behind
  BY <1>1 DEF Sci
<1> HIDE DEF s
<1>6. OnTheWay(s) = OnTheWay(sci)
  BY <1>5, Zenon DEF OnTheWay
<1>7. QED
  BY <1>1, <1>3, <1>4, <1>6, FirmwareAlone

\* A byte is written while none is behind, and goes after all others.
LEMMA WriteSciKeeps ==
    ASSUME KpcInv, NEW byte \in SerialBytes, WriteSci(byte)
    PROVE  KpcInv'
<1> DEFINE s == SciWritten(sci, byte)
<1>1. /\ sci \in Sci /\ spi \in Spi /\ flags \in SUBSET TimerFlag /\ masked \in BOOLEAN
      /\ due = OnTheWay(sci) /\ kpcIllegal \in BOOLEAN /\ active \in BOOLEAN
  BY KpcParts
<1>2. /\ Len(due) < QueueSize /\ due' = Append(due, byte)
      /\ Clock(s, spi, flags, masked)
      /\ UNCHANGED <<panel, kpcIllegal, active, reports>>
  BY DEF WriteSci, Board
<1>3. sci.behind = NoByte
  BY DEF WriteSci, SciStatus
<1>4. /\ sci.rx \in 0 .. QueueSize /\ sci.tx \in Seq(SerialBytes)
      /\ sci.busy \in 0 .. Character /\ byte # NoByte
  BY <1>1, KpcAssumption DEF Sci
<1>5. due = sci.tx /\ Len(sci.tx) # QueueSize
  <2>1. due = sci.tx
    BY <1>1, <1>3 DEF OnTheWay
  <2>2. QueueSize \in Nat /\ Len(sci.tx) \in Nat
    BY <1>4, LenProperties, KpcAssumption
  <2>3. QED
    BY <1>2, <2>1, <2>2
<1>6. Append(sci.tx, byte) \in Seq(SerialBytes)
  BY <1>4, AppendProperties
<1>7. s \in Sci /\ OnTheWay(s) = due'
  <2>1. CASE sci.busy = 0
    <3>1. s = [rx |-> sci.rx, tx |-> Append(sci.tx, byte), busy |-> Character,
               behind |-> NoByte]
      BY <1>1, <1>3, <1>5, <2>1 DEF SciWritten, Started, Sci
    <3>2. Character \in 0 .. Character
      BY KpcAssumption
    <3>3. s \in Sci
      <4>1. NoByte \in SerialBytes \cup {NoByte}
        OBVIOUS
      <4>2. [rx |-> sci.rx, tx |-> Append(sci.tx, byte), busy |-> Character,
             behind |-> NoByte] \in Sci
        BY <1>4, <1>6, <3>2, <4>1, Zenon DEF Sci
      <4>3. QED
        BY <3>1, <4>2
    <3>4. OnTheWay(s) = Append(sci.tx, byte)
      BY <3>1 DEF OnTheWay
    <3>5. QED
      BY <1>2, <1>5, <3>3, <3>4
  <2>2. CASE sci.busy # 0
    <3>1. s = [rx |-> sci.rx, tx |-> sci.tx, busy |-> sci.busy, behind |-> byte]
      BY <1>1, <1>3, <2>2 DEF SciWritten, Sci
    <3>2. s \in Sci
      <4>1. byte \in SerialBytes \cup {NoByte}
        OBVIOUS
      <4>2. [rx |-> sci.rx, tx |-> sci.tx, busy |-> sci.busy, behind |-> byte] \in Sci
        BY <1>4, <4>1, Zenon DEF Sci
      <4>3. QED
        BY <3>1, <4>2
    <3>3. OnTheWay(s) = Append(sci.tx, byte)
      BY <1>4, <3>1 DEF OnTheWay
    <3>4. QED
      BY <1>2, <1>5, <3>2, <3>3
  <2>3. QED
    BY <2>1, <2>2
<1>8. Len(due') <= QueueSize
  <2>1. Len(due') = Len(due) + 1
    BY <1>2, <1>4, <1>5, AppendProperties
  <2>2. QueueSize \in Nat /\ Len(due) \in Nat
    BY <1>4, <1>5, LenProperties, KpcAssumption
  <2>3. QED
    BY <1>2, <2>1, <2>2
<1> HIDE DEF s
<1>9. /\ sci' \in Sci /\ OnTheWay(sci') = OnTheWay(s)
      /\ spi' \in Spi /\ flags' \subseteq TimerFlag /\ masked' \in BOOLEAN
  BY <1>1, <1>2, <1>7, <1>8, ClockKeeps
<1>10. BytesInOrder'
  BY <1>7, <1>9, OnTheWayInOrder DEF BytesInOrder
<1>11. PanelInv'
  BY <1>2, PanelUntouched DEF KpcInv
<1>12. KpcTypeOK'
  <2>1. kpcIllegal' \in BOOLEAN /\ active' \in BOOLEAN
    BY <1>1, <1>2
  <2>2. panel' \in [phase : {0, 1, 2, 6, 7}, receive : {"idle", "edge"}]
    BY <1>11 DEF PanelInv
  <2>3. QED
    BY <1>9, <2>1, <2>2 DEF KpcTypeOK, Sci, Spi
<1>13. QED
  BY <1>8, <1>10, <1>11, <1>12 DEF KpcInv

\* A scan moves the panel on, and is counted when it has the edge.
LEMMA TransferKeepsPanel ==
    ASSUME PanelInv, NEW value, panel' = AfterTransfer(value), active' = active,
           reports' = IF Answer(value) = "edge" /\ (value # "ff" \/ panel.phase = 6)
                      THEN reports + 1 ELSE reports
    PROVE  PanelInv'
<1>1. /\ panel \in [phase : {0, 1, 2, 6, 7}, receive : {"idle", "edge"}]
      /\ panel.phase = 0 => panel.receive = "idle"
      /\ panel.phase = 1 => panel.receive = "edge"
      /\ reports \in Nat /\ reports <= 1
      /\ ~active => panel.phase = 0
      /\ panel.phase \in {2, 7} => reports = 1
      /\ panel.phase \in {1, 6} => reports = 0
  BY DEF PanelInv, EdgeReportedOnce
<1>2. "idle" # "edge"
  OBVIOUS
<1>3. CASE panel.phase = 0
  <2>1. panel' = panel /\ reports' = reports
    BY <1>1, <1>2, <1>3 DEF AfterTransfer, Answer
  <2>2. QED
    BY <2>1, PanelUntouched
<1>4. CASE panel.phase = 1 /\ value # "ff"
  <2>1. panel' = [phase |-> 2, receive |-> panel.receive] /\ reports' = 1
    BY <1>1, <1>4 DEF AfterTransfer, Answer
  <2>2. QED
    BY <1>1, <1>4, <2>1 DEF PanelInv, EdgeReportedOnce
<1>5. CASE panel.phase = 1 /\ value = "ff"
  <2>1. panel' = panel /\ reports' = reports
    BY <1>1, <1>5 DEF AfterTransfer, Answer
  <2>2. QED
    BY <2>1, PanelUntouched
<1>6. CASE panel.phase = 6
  <2>1. panel' = [phase |-> 7, receive |-> panel.receive] /\ reports' = 1
    BY <1>1, <1>6 DEF AfterTransfer, Answer
  <2>2. QED
    BY <1>1, <1>6, <2>1 DEF PanelInv, EdgeReportedOnce
<1>7. CASE panel.phase \in {2, 7} /\ value = "ff"
  <2>1. panel' = [phase |-> 0, receive |-> "idle"] /\ reports' = reports
    BY <1>1, <1>2, <1>7 DEF AfterTransfer, Answer
  <2>2. QED
    BY <1>1, <2>1 DEF PanelInv, EdgeReportedOnce
<1>8. CASE panel.phase \in {2, 7} /\ value # "ff"
  <2>1. panel' = panel /\ reports' = reports
    BY <1>1, <1>2, <1>8 DEF AfterTransfer, Answer
  <2>2. QED
    BY <2>1, PanelUntouched
<1>9. QED
  BY <1>1, <1>3, <1>4, <1>5, <1>6, <1>7, <1>8

LEMMA WriteSpiKeeps ==
    ASSUME KpcInv, NEW value \in Scanned, WriteSpi(value)
    PROVE  KpcInv'
<1>1. /\ sci \in Sci /\ spi \in Spi /\ flags \in SUBSET TimerFlag /\ masked \in BOOLEAN
      /\ kpcIllegal \in BOOLEAN
  BY KpcParts
<1> DEFINE p == [left |-> Transfer, complete |-> FALSE, seen |-> FALSE]
<1>2. p \in Spi
  BY KpcAssumption DEF Spi
<1>3. /\ panel' = AfterTransfer(value)
      /\ reports' = IF Answer(value) = "edge" /\ (value # "ff" \/ panel.phase = 6)
                    THEN reports + 1 ELSE reports
      /\ UNCHANGED <<kpcIllegal, active, due>>
      /\ Clock(sci, p, flags, masked)
  BY DEF WriteSpi, Board
<1>4. PanelInv'
  BY <1>3, TransferKeepsPanel DEF KpcInv
<1> HIDE DEF p
<1>5. BytesInOrder' /\ Len(due') <= QueueSize
  BY <1>1, <1>2, <1>3, FirmwareKeeps
<1>6. KpcTypeOK'
  BY <1>1, <1>2, <1>3, <1>4, FirmwareKeeps DEF PanelInv
<1>7. QED
  BY <1>4, <1>5, <1>6 DEF KpcInv

LEMMA ReceiveKeeps ==
    ASSUME KpcInv, Receive
    PROVE  KpcInv'
<1>1. /\ sci \in Sci /\ spi \in Spi /\ flags \in SUBSET TimerFlag /\ masked \in BOOLEAN
      /\ kpcIllegal \in BOOLEAN /\ active \in BOOLEAN
      /\ due = OnTheWay(sci) /\ Len(due) <= QueueSize
  BY KpcParts
<1>2. /\ UNCHANGED <<spi, panel, flags, masked, kpcIllegal, active, due, reports>>
      /\ sci.rx < QueueSize /\ sci' = [sci EXCEPT !.rx = @ + 1]
  BY DEF Receive, Board, Settings
<1>3. /\ sci.rx \in 0 .. QueueSize /\ sci.tx \in Seq(SerialBytes)
      /\ sci.busy \in 0 .. Character /\ sci.behind \in SerialBytes \cup {NoByte}
  BY <1>1 DEF Sci
<1>4. sci.rx + 1 \in 0 .. QueueSize
  <2>1. sci.rx \in 0 .. QueueSize /\ sci.rx < QueueSize /\ QueueSize \in Nat
    BY <1>2, <1>3, KpcAssumption
  <2>2. QED
    BY <2>1
<1>5. sci' = [rx |-> sci.rx + 1, tx |-> sci.tx, busy |-> sci.busy, behind |-> sci.behind]
  BY <1>1, <1>2 DEF Sci
<1>6. sci' \in Sci
  BY <1>3, <1>4, <1>5, Zenon DEF Sci
<1>7. OnTheWay(sci') = OnTheWay(sci)
  BY <1>5 DEF OnTheWay
<1>8. BytesInOrder' /\ Len(due') <= QueueSize
  BY <1>1, <1>2, <1>6, <1>7, OnTheWayInOrder DEF BytesInOrder
<1>9. PanelInv'
  BY <1>2, PanelUntouched DEF KpcInv
<1>10. KpcTypeOK'
  BY <1>1, <1>2, <1>6, <1>9 DEF KpcTypeOK, Sci, Spi, PanelInv
<1>11. QED
  BY <1>8, <1>9, <1>10 DEF KpcInv

\* The main board takes the byte that is due.
LEMMA TransmitKeeps ==
    ASSUME KpcInv, NEW over \in BOOLEAN, KpcTransmit(over)
    PROVE  KpcInv'
<1>1. /\ sci \in Sci /\ spi \in Spi /\ flags \in SUBSET TimerFlag /\ masked \in BOOLEAN
      /\ kpcIllegal \in BOOLEAN /\ active \in BOOLEAN
      /\ due = OnTheWay(sci) /\ Len(due) <= QueueSize
  BY KpcParts
<1>2. /\ UNCHANGED <<spi, flags, masked, kpcIllegal, reports>>
      /\ sci.tx # <<>> /\ sci' = [sci EXCEPT !.tx = Tail(@)]
      /\ due' = IF due # <<>> /\ Head(due) = Head(sci.tx) THEN Tail(due) ELSE due
  BY DEF KpcTransmit, Settings
<1>3. /\ sci.rx \in 0 .. QueueSize /\ sci.tx \in Seq(SerialBytes)
      /\ sci.busy \in 0 .. Character /\ sci.behind \in SerialBytes \cup {NoByte}
  BY <1>1 DEF Sci
<1>4. Tail(sci.tx) \in Seq(SerialBytes)
  BY <1>2, <1>3, HeadTailProperties
<1>5. sci' = [rx |-> sci.rx, tx |-> Tail(sci.tx), busy |-> sci.busy, behind |-> sci.behind]
  BY <1>1, <1>2 DEF Sci
<1>6. sci' \in Sci
  BY <1>3, <1>4, <1>5, Zenon DEF Sci
<1>7. OnTheWay(sci') = Tail(due) /\ Head(due) = Head(sci.tx) /\ due # <<>>
  <2>1. CASE sci.behind = NoByte
    BY <1>1, <1>2, <1>5, <2>1 DEF OnTheWay
  <2>2. CASE sci.behind # NoByte
    <3>1. OnTheWay(sci') = Append(Tail(sci.tx), sci.behind) /\ due = Append(sci.tx, sci.behind)
      BY <1>1, <1>5, <2>2 DEF OnTheWay
    <3>2. sci.behind \in SerialBytes
      BY <1>3, <2>2
    <3>3. /\ Append(sci.tx, sci.behind) # <<>>
          /\ Head(Append(sci.tx, sci.behind)) = Head(sci.tx)
          /\ Tail(Append(sci.tx, sci.behind)) = Append(Tail(sci.tx), sci.behind)
      BY <1>2, <1>3, <3>2, HeadTailAppend, AppendProperties
    <3>4. QED
      BY <3>1, <3>3
  <2>3. QED
    BY <2>1, <2>2
<1>8. due' = OnTheWay(sci')
  BY <1>2, <1>7
<1>9. Len(due') <= QueueSize
  <2>1. due \in Seq(SerialBytes)
    BY <1>1, OnTheWayInOrder
  <2>2. Len(Tail(due)) = Len(due) - 1 /\ Len(due) \in Nat
    BY <1>7, <2>1, HeadTailProperties, LenProperties
  <2>3. due' = Tail(due)
    BY <1>2, <1>7
  <2>4. QED
    BY <1>1, <2>2, <2>3, KpcAssumption
<1>10. BytesInOrder'
  BY <1>6, <1>8, OnTheWayInOrder DEF BytesInOrder
<1>11. PanelInv'
  <2>1. CASE over
    <3>1. panel' = [phase |-> 0, receive |-> "idle"]
      BY <2>1 DEF KpcTransmit, Quiet
    <3>2. QED
      BY <1>2, <3>1 DEF KpcInv, PanelInv, EdgeReportedOnce
  <2>2. CASE ~over
    <3>1. panel' = panel /\ (active' <=> active)
      BY <2>2, Zenon DEF KpcTransmit
    <3>2. QED
      BY <1>2, <3>1 DEF KpcInv, PanelInv, EdgeReportedOnce
  <2>3. QED
    BY <2>1, <2>2
<1>12. KpcTypeOK'
  <2>1. active' \in BOOLEAN
    BY Zenon DEF KpcTransmit
  <2>2. QED
    BY <1>1, <1>2, <1>6, <1>11, <2>1 DEF KpcTypeOK, Sci, Spi, PanelInv
<1>13. QED
  BY <1>9, <1>10, <1>11, <1>12 DEF KpcInv

LEMMA StartKeeps ==
    ASSUME KpcInv, NEW pressed \in BOOLEAN, StartPhysical(pressed)
    PROVE  KpcInv'
<1>1. /\ ~active /\ UNCHANGED <<sci, spi, flags, masked, kpcIllegal, due>>
  BY DEF StartPhysical, Settings
<1>2. panel.phase = 0
  BY <1>1 DEF KpcInv, PanelInv, EdgeReportedOnce
<1>3. panel' = Offered(pressed) /\ active' = TRUE /\ reports' = 0
  BY <1>2, Zenon DEF StartPhysical
<1>4. PanelInv'
  <2>1. \/ panel' = [phase |-> 1, receive |-> "edge"]
        \/ panel' = [phase |-> 6, receive |-> "idle"]
    BY <1>3, Zenon DEF Offered
  <2>2. QED
    BY <1>3, <2>1 DEF PanelInv, EdgeReportedOnce
<1>5. BytesInOrder' /\ Len(due') <= QueueSize
  BY <1>1 DEF KpcInv, BytesInOrder
<1>6. KpcTypeOK'
  <2>1. active' \in BOOLEAN
    BY <1>3
  <2>2. QED
    BY <1>1, <1>4, <2>1 DEF KpcInv, KpcTypeOK, PanelInv
<1>7. QED
  BY <1>4, <1>5, <1>6 DEF KpcInv

LEMMA KpcInvStep == KpcInv /\ [KpcNext]_kpcVars => KpcInv'
<1> SUFFICES ASSUME KpcInv, [KpcNext]_kpcVars
             PROVE  KpcInv'
  OBVIOUS
<1>0. sci \in Sci /\ spi \in Spi /\ flags \in SUBSET TimerFlag /\ masked \in BOOLEAN
  BY KpcParts
<1>1. CASE Run
  <2>1. PICK m \in BOOLEAN : Clock(sci, spi, flags, m)
    BY <1>1 DEF Run
  <2>2. UNCHANGED <<panel, kpcIllegal, Board, due, reports>>
    BY <1>1 DEF Run
  <2>3. QED
    BY <1>0, <2>1, <2>2, FirmwareAlone
<1>2. CASE Stop
  <2>1. /\ kpcIllegal' \in BOOLEAN
        /\ UNCHANGED <<sci, spi, panel, flags, masked, active, due, reports>>
    BY <1>2 DEF Stop, Board
  <2>2. PanelInv'
    BY <2>1, PanelUntouched DEF KpcInv
  <2>3. QED
    BY <2>1, <2>2 DEF KpcInv, KpcTypeOK, BytesInOrder
<1>3. CASE ReadSci
  BY <1>3, ReadSciKeeps
<1>4. CASE ReadSpiStatus
  <2> DEFINE p == [spi EXCEPT !.seen = TRUE]
  <2>1. p \in Spi
    BY <1>0 DEF Spi
  <2>2. Clock(sci, p, flags, masked) /\ UNCHANGED <<panel, kpcIllegal, Board, due, reports>>
    BY <1>4 DEF ReadSpiStatus
  <2> HIDE DEF p
  <2>3. QED
    BY <1>0, <2>1, <2>2, FirmwareAlone
<1>5. CASE ReadSpiData
  <2> DEFINE still == spi.complete /\ ~spi.seen
             p == [spi EXCEPT !.complete = still, !.seen = FALSE]
  <2>1. still \in BOOLEAN
    OBVIOUS
  <2>2. Clock(sci, p, flags, masked) /\ UNCHANGED <<panel, kpcIllegal, Board, due, reports>>
    BY <1>5, Zenon DEF ReadSpiData
  <2> HIDE DEF still
  <2>3. p \in Spi
    BY <1>0, <2>1 DEF Spi
  <2> HIDE DEF p
  <2>4. QED
    BY <1>0, <2>2, <2>3, FirmwareAlone
<1>6. CASE ClearFlags
  <2>1. PICK f \in TimerFlag : Clock(sci, spi, flags \ {f}, masked)
    BY <1>6 DEF ClearFlags
  <2>2. UNCHANGED <<panel, kpcIllegal, Board, due, reports>>
    BY <1>6 DEF ClearFlags
  <2>3. flags \ {f} \in SUBSET TimerFlag
    BY <1>0
  <2>4. QED
    BY <1>0, <2>1, <2>2, <2>3, FirmwareAlone
<1>7. ASSUME NEW byte \in SerialBytes, WriteSci(byte)
      PROVE  KpcInv'
  BY <1>7, WriteSciKeeps
<1>8. ASSUME NEW value \in Scanned, WriteSpi(value)
      PROVE  KpcInv'
  BY <1>8, WriteSpiKeeps
<1>9. ASSUME NEW c \in Configurations, Configure(c[1], c[2])
      PROVE  KpcInv'
  <2>1. Clock(sci, spi, flags, masked) /\ UNCHANGED <<panel, kpcIllegal, Board, due, reports>>
    BY <1>9 DEF Configure
  <2>2. QED
    BY <1>0, <2>1, FirmwareAlone
<1>10. CASE Receive
  BY <1>10, ReceiveKeeps
<1>11. ASSUME NEW over \in BOOLEAN, KpcTransmit(over)
       PROVE  KpcInv'
  BY <1>11, TransmitKeeps
<1>12. ASSUME NEW pressed \in BOOLEAN, StartPhysical(pressed)
       PROVE  KpcInv'
  BY <1>12, StartKeeps
<1>13. CASE UNCHANGED kpcVars
  BY <1>13 DEF kpcVars, KpcInv, KpcTypeOK, BytesInOrder, PanelInv, EdgeReportedOnce
<1>14. QED
  BY <1>1, <1>2, <1>3, <1>4, <1>5, <1>6, <1>7, <1>8, <1>9, <1>10, <1>11, <1>12, <1>13
     DEF KpcNext

LEMMA KpcInvariance == KpcSpec => []KpcInv
<1>1. QED
  BY KpcInvInit, KpcInvStep, PTL DEF KpcSpec

\* Whatever the firmware does and however it is interrupted, each byte it wrote
\* when the transmitter said it was empty reaches the main board, once and in
\* order (device_write8, sci_tick, kpc_device_transmit).
THEOREM SerialBytesInOrder == KpcSpec => []BytesInOrder
<1>1. KpcInv => BytesInOrder
  BY DEF KpcInv
<1>2. QED
  BY <1>1, KpcInvariance, PTL

\* A key is refused by no transition that is still on, and reported by exactly
\* one scan (kpc_device_panel_transition, device_write8).
THEOREM KeysReportedOnce == KpcSpec => []EdgeReportedOnce
<1>1. KpcInv => EdgeReportedOnce
  BY DEF KpcInv, PanelInv
<1>2. QED
  BY <1>1, KpcInvariance, PTL

-------------------------------------------------------------------------------
(* What the keypad's processor compares decides its branches, and it does  *)
(* not see an interrupt, for every size of a byte.                         *)

Arithmetic == {"N", "Z", "V", "C"}

LEMMA Sizes ==
    /\ Half \in Nat \ {0}
    /\ ByteSize = 2 * Half /\ ByteSize \in Nat \ {0}
    /\ WordSize = 2 * (ByteSize * Half) /\ ByteSize * Half \in Nat \ {0}
    /\ WordSize = ByteSize * ByteSize /\ WordSize \in Nat \ {0} /\ ByteSize <= WordSize
<1>1. Half \in Nat /\ Half >= 1
  BY Hc11Assumption
<1>2. ByteSize = 2 * Half /\ ByteSize \in Nat /\ ByteSize >= 2
  BY <1>1 DEF ByteSize
<1>3. ByteSize * ByteSize = 2 * (ByteSize * Half)
  BY <1>1, <1>2
<1>4. ByteSize * Half \in Nat /\ ByteSize * Half >= ByteSize
  BY <1>1, <1>2
<1>5. QED
  BY <1>1, <1>2, <1>3, <1>4 DEF WordSize

LEMMA HalfOfSize ==
    ASSUME NEW h \in Nat \ {0}
    PROVE  (2 * h) \div 2 = h
  OBVIOUS

\* The codes of a comparison say how the operands are ordered.
LEMMA FlagsMeanIt ==
    ASSUME NEW h \in Nat \ {0}, NEW l \in 0 .. 2 * h - 1, NEW r \in 0 .. 2 * h - 1,
           NEW codes, codes \cap Arithmetic = SubFlags(l, r, 2 * h)
    PROVE  Ordered(codes, l, r, 2 * h)
<1> DEFINE size == 2 * h
           result == Minus(l, r, size)
           overflow == /\ (l >= h) # (r >= h)
                       /\ (l >= h) # (result >= h)
<1>1. \A v : Negative(v, size) = (v >= h)
  BY HalfOfSize DEF Negative
<1>2. result \in 0 .. size - 1 /\ (result = 0 <=> l = r)
  BY DEF Minus
<1>3. SubFlags(l, r, size) =
          If(result = 0, "Z") \cup If(result >= h, "N") \cup If(l < r, "C") \cup If(overflow, "V")
  BY <1>1, Zenon DEF SubFlags, NZ
<1>4. /\ "C" \in codes <=> l < r
      /\ "Z" \in codes <=> l = r
      /\ "N" \in codes <=> result >= h
      /\ "V" \in codes <=> overflow
  <2> HIDE DEF result, overflow, size
  <2>1. /\ "C" \in codes <=> l < r
        /\ "Z" \in codes <=> result = 0
        /\ "N" \in codes <=> result >= h
        /\ "V" \in codes <=> overflow
    BY <1>3 DEF If, Arithmetic, size
  <2>2. QED
    BY <1>2, <2>1
<1>5. /\ Signed(l, size) = (IF l >= h THEN l - size ELSE l)
      /\ Signed(r, size) = (IF r >= h THEN r - size ELSE r)
  BY <1>1 DEF Signed
<1>6. (result >= h <=> overflow) <=> Signed(l, size) >= Signed(r, size)
  BY <1>5 DEF Minus
<1>7. ("N" \in codes) = ("V" \in codes) <=> Signed(l, size) >= Signed(r, size)
  <2> HIDE DEF result, overflow, size
  <2>1. QED
    BY <1>4, <1>6
<1>8. /\ Signed(l, size) = Signed(r, size) <=> l = r
      /\ Signed(l, size) \in Int /\ Signed(r, size) \in Int
  BY <1>5
<1>9. QED
  BY <1>4, <1>7, <1>8 DEF Ordered, Taken

\* A word is made of its two bytes.
LEMMA WordOfBytes ==
    /\ \A w \in Word : High(w) \in Byte /\ Low(w) \in Byte /\ Join(High(w), Low(w)) = w
    /\ \A high, low \in Byte : Join(high, low) \in Word
<1>1. ASSUME NEW w \in Word
      PROVE  High(w) \in Byte /\ Low(w) \in Byte /\ Join(High(w), Low(w)) = w
  <2> DEFINE q == w \div ByteSize
             m == w % ByteSize
  <2>1. w \in Nat /\ w < ByteSize * ByteSize /\ ByteSize \in Nat \ {0}
    BY Sizes DEF Word
  <2>2. /\ q \in Int /\ m \in Int /\ w = ByteSize * q + m /\ 0 <= m /\ m < ByteSize
    BY <2>1
  <2> HIDE DEF q, m
  <2>3. q >= 0
    <3>1. SUFFICES ASSUME q <= -1
                   PROVE  FALSE
      BY <2>2
    <3>2. ByteSize * q <= ByteSize * (-1) /\ ByteSize * (-1) = -ByteSize
      BY <2>1, <2>2, <3>1
    <3>3. ByteSize * q \in Int
      BY <2>1, <2>2
    <3>4. QED
      BY <2>1, <2>2, <3>2, <3>3
  <2>4. q < ByteSize
    <3>1. SUFFICES ASSUME ByteSize <= q
                   PROVE  FALSE
      BY <2>1, <2>2
    <3>2. ByteSize * ByteSize <= ByteSize * q
      BY <2>1, <2>2, <3>1
    <3>3. ByteSize * q \in Int /\ ByteSize * ByteSize \in Int
      BY <2>1, <2>2
    <3>4. QED
      BY <2>1, <2>2, <3>2, <3>3
  <2>5. q * ByteSize + m = w
    BY <2>1, <2>2
  <2>6. QED
    BY <2>1, <2>2, <2>3, <2>4, <2>5 DEF High, Low, Join, Byte, q, m
<1>2. ASSUME NEW high \in Byte, NEW low \in Byte
      PROVE  Join(high, low) \in Word
  <2>1. high * ByteSize <= (ByteSize - 1) * ByteSize
    BY Sizes DEF Byte
  <2>2. (ByteSize - 1) * ByteSize = ByteSize * ByteSize - ByteSize
    BY Sizes
  <2>3. high * ByteSize \in Nat /\ ByteSize * ByteSize \in Nat
    BY Sizes DEF Byte
  <2>4. QED
    BY Sizes, <2>1, <2>2, <2>3 DEF Byte, Word, Join
<1>3. QED
  BY <1>1, <1>2

\* The registers come back from the stack, whatever is on it with them.
LEMMA FrameReturns ==
    ASSUME NEW r \in Registers, NEW codes
    PROVE  Unframed(Frame(r, codes)) = r /\ Frame(r, codes)[9] = codes
<1> DEFINE f == Frame(r, codes)
<1>1. /\ f[1] = Low(r.pc) /\ f[2] = High(r.pc) /\ f[3] = Low(r.y) /\ f[4] = High(r.y)
      /\ f[5] = Low(r.x) /\ f[6] = High(r.x) /\ f[7] = r.a /\ f[8] = r.b /\ f[9] = codes
  BY DEF Frame
<1> HIDE DEF f
<1>2. /\ Join(High(r.x), Low(r.x)) = r.x /\ Join(High(r.y), Low(r.y)) = r.y
      /\ Join(High(r.pc), Low(r.pc)) = r.pc
  BY WordOfBytes DEF Registers
<1>3. Unframed(f) = [b |-> r.b, a |-> r.a, x |-> r.x, y |-> r.y, pc |-> r.pc]
  BY <1>1, <1>2, Zenon DEF Unframed
<1>4. r = [b |-> r.b, a |-> r.a, x |-> r.x, y |-> r.y, pc |-> r.pc]
  BY DEF Registers
<1>5. QED
  BY <1>1, <1>3, <1>4 DEF f

\* What a register may be given.
LEMMA RegisterGiven ==
    ASSUME NEW r \in Registers
    PROVE  /\ \A v \in Byte : [r EXCEPT !.a = v] \in Registers /\ [r EXCEPT !.b = v] \in Registers
           /\ \A k \in {"a", "b"}, v \in Byte : [r EXCEPT ![k] = v] \in Registers
           /\ \A w \in Word : /\ [r EXCEPT !.x = w] \in Registers
                              /\ [r EXCEPT !.y = w] \in Registers
                              /\ [r EXCEPT !.pc = w] \in Registers
           /\ \A k \in {"x", "y"}, w \in Word : [r EXCEPT ![k] = w] \in Registers
  BY DEF Registers

LEMMA WithDGiven ==
    ASSUME reg \in Registers, NEW w \in Word
    PROVE  WithD(w) \in Registers
<1>1. High(w) \in Byte /\ Low(w) \in Byte
  BY WordOfBytes
<1>2. QED
  BY <1>1 DEF WithD, Registers

Hc11Inv ==
    /\ reg \in Registers
    /\ \/ compared = <<>>
       \/ \E size \in {ByteSize, WordSize} : \E l, r \in 0 .. size - 1 :
             compared = <<l, r, size>> /\ ccr \cap Arithmetic = SubFlags(l, r, size)

LEMMA InvMeansIt == Hc11Inv => CodeRunsAsWritten
<1> SUFFICES ASSUME Hc11Inv
             PROVE  CodeRunsAsWritten
  OBVIOUS
<1>1. BranchesMeanIt
  <2> SUFFICES ASSUME compared # <<>>
               PROVE  Ordered(ccr, compared[1], compared[2], compared[3])
    BY DEF BranchesMeanIt
  <2>1. PICK size \in {ByteSize, WordSize} : \E l, r \in 0 .. size - 1 :
             compared = <<l, r, size>> /\ ccr \cap Arithmetic = SubFlags(l, r, size)
    BY DEF Hc11Inv
  <2>2. PICK l \in 0 .. size - 1, r \in 0 .. size - 1 :
             compared = <<l, r, size>> /\ ccr \cap Arithmetic = SubFlags(l, r, size)
    BY <2>1
  <2>3. PICK h \in Nat \ {0} : size = 2 * h
    BY Sizes
  <2>4. Ordered(ccr, l, r, size)
    BY <2>2, <2>3, FlagsMeanIt
  <2>5. compared[1] = l /\ compared[2] = r /\ compared[3] = size
    BY <2>2
  <2>6. QED
    BY <2>4, <2>5
<1>2. FrameRestores
  <2>1. Unframed(Frame(reg, ccr)) = reg /\ Frame(reg, ccr)[9] = ccr
    BY FrameReturns DEF Hc11Inv
  <2>2. QED
    BY <2>1, Zenon DEF FrameRestores, UnframedCodes
<1>3. QED
  BY <1>1, <1>2 DEF CodeRunsAsWritten

LEMMA ResultKeeps ==
    ASSUME NEW registers \in Registers, NEW codes, Result(registers, codes)
    PROVE  Hc11Inv'
  BY DEF Result, Hc11Inv

LEMMA JumpKeeps ==
    ASSUME Hc11Inv, NEW t \in Word, JumpTo(t)
    PROVE  Hc11Inv'
<1>1. reg' \in Registers /\ ccr' = ccr /\ compared' = compared
  BY RegisterGiven DEF JumpTo, Hc11Inv
<1>2. QED
  BY <1>1 DEF Hc11Inv

LEMMA SubtractedCodes ==
    ASSUME NEW l, NEW r, NEW size
    PROVE  Subtracted(l, r, size) \cap Arithmetic = SubFlags(l, r, size)
<1>1. SubFlags(l, r, size) \subseteq Arithmetic
  BY DEF SubFlags, NZ, If, Arithmetic
<1>2. QED
  BY <1>1 DEF Subtracted, Arithmetic

LEMMA CompareKeeps ==
    ASSUME NEW size \in {ByteSize, WordSize}, NEW l \in 0 .. size - 1, NEW r \in 0 .. size - 1,
           reg' \in Registers, ccr' = Subtracted(l, r, size), compared' = <<l, r, size>>
    PROVE  Hc11Inv'
<1>1. ccr' \cap Arithmetic = SubFlags(l, r, size)
  BY SubtractedCodes
<1>2. QED
  BY <1>1 DEF Hc11Inv

LEMMA MinusGiven ==
    ASSUME NEW size \in Nat \ {0}, NEW l \in 0 .. size - 1, NEW r \in 0 .. size - 1
    PROVE  Minus(l, r, size) \in 0 .. size - 1
  BY DEF Minus

LEMMA OneLess ==
    ASSUME NEW size \in Nat \ {0}, NEW v \in 0 .. size - 1
    PROVE  Minus(v, 1, size) \in 0 .. size - 1
  BY DEF Minus

LEMMA RemainderGiven ==
    ASSUME NEW n \in Nat \ {0}, NEW v \in Int
    PROVE  v % n \in 0 .. n - 1
  OBVIOUS

LEMMA QuotientGiven ==
    ASSUME NEW v \in Nat, NEW n \in Nat \ {0}
    PROVE  v \div n \in 0 .. v
<1> DEFINE q == v \div n
<1>1. q \in Int /\ n * q <= v /\ v < n * q + n
  OBVIOUS
<1> HIDE DEF q
<1>2. q >= 0
  <2>1. SUFFICES ASSUME q <= -1
                 PROVE  FALSE
    BY <1>1
  <2>2. n * q <= n * (-1) /\ n * (-1) = -n /\ n * q \in Int
    BY <1>1, <2>1
  <2>3. QED
    BY <1>1, <2>2
<1>3. q <= v
  <2>1. q <= n * q
    BY <1>1, <1>2
  <2>2. n * q \in Int
    BY <1>1
  <2>3. QED
    BY <1>1, <2>1, <2>2
<1>4. QED
  BY <1>1, <1>2, <1>3 DEF q

\* The values the instructions compute are bytes and words.
LEMMA Values ==
    ASSUME reg \in Registers
    PROVE  /\ reg.a \in Byte /\ reg.b \in Byte /\ reg.x \in Word /\ reg.y \in Word
           /\ reg.pc \in Word /\ D \in Word
           /\ Byte = 0 .. ByteSize - 1 /\ Word = 0 .. WordSize - 1 /\ Targets \subseteq Word
           /\ 0 \in Byte /\ WordSize - 1 \in Word /\ ByteSize \in {ByteSize, WordSize}
           /\ WordSize \in {ByteSize, WordSize}
<1>1. /\ reg.a \in Byte /\ reg.b \in Byte /\ reg.x \in Word /\ reg.y \in Word
      /\ reg.pc \in Word
  BY DEF Registers
<1>2. D \in Word
  BY <1>1, WordOfBytes DEF D
<1>3. Byte = 0 .. ByteSize - 1 /\ Word = 0 .. WordSize - 1
  BY DEF Byte, Word
<1>4. 0 \in Byte /\ 0 \in Word /\ 1 \in Word /\ WordSize - 1 \in Word
  BY Sizes DEF Byte, Word
<1>5. QED
  BY <1>1, <1>2, <1>3, <1>4 DEF Targets

LEMMA AddByteKeeps ==
    ASSUME Hc11Inv, NEW r \in {"a", "b"}, NEW v \in Byte, NEW carry \in {0, 1},
           AddByte(r, v, carry)
    PROVE  Hc11Inv'
<1>1. reg \in Registers /\ reg[r] \in Byte
  BY Values DEF Hc11Inv
<1>2. (reg[r] + v + carry) % ByteSize \in Byte
  <2> DEFINE sum == reg[r] + v + carry
  <2>1. sum \in Int /\ ByteSize \in Nat \ {0}
    BY <1>1, Sizes DEF Byte
  <2> HIDE DEF sum
  <2>2. sum % ByteSize \in Byte
    BY <2>1, RemainderGiven DEF Byte
  <2>3. QED
    BY <2>2 DEF sum
<1>3. [reg EXCEPT ![r] = (reg[r] + v + carry) % ByteSize] \in Registers
  BY <1>1, <1>2, RegisterGiven
<1>4. QED
  BY <1>3, ResultKeeps DEF AddByte

LEMMA LoadByteKeeps ==
    ASSUME Hc11Inv, NEW r \in {"a", "b"}, NEW v \in Byte, LoadByte(r, v)
    PROVE  Hc11Inv'
  BY RegisterGiven, ResultKeeps DEF LoadByte, Hc11Inv

LEMMA LoadWordKeeps ==
    ASSUME Hc11Inv, NEW r \in {"x", "y"}, NEW v \in Word, LoadWord(r, v)
    PROVE  Hc11Inv'
  BY RegisterGiven, ResultKeeps DEF LoadWord, Hc11Inv

LEMMA CompareInstruction ==
    ASSUME Hc11Inv, NEW size \in {ByteSize, WordSize}, NEW l \in 0 .. size - 1,
           NEW r \in 0 .. size - 1, Compare(l, r, size)
    PROVE  Hc11Inv'
<1>1. reg' \in Registers /\ ccr' = Subtracted(l, r, size) /\ compared' = <<l, r, size>>
  BY DEF Compare, Hc11Inv
<1>2. QED
  BY <1>1, CompareKeeps

LEMMA ExchangeKeeps ==
    ASSUME Hc11Inv, NEW r \in {"x", "y"}, Exchange(r)
    PROVE  Hc11Inv'
<1>1. reg \in Registers /\ reg[r] \in Word /\ D \in Word
  BY Values DEF Hc11Inv
<1>2. WithD(reg[r]) \in Registers
  BY <1>1, WithDGiven
<1>3. [WithD(reg[r]) EXCEPT ![r] = D] \in Registers
  BY <1>1, <1>2, RegisterGiven
<1>4. QED
  BY <1>3, ResultKeeps DEF Exchange

LEMMA DivideKeeps ==
    ASSUME Hc11Inv, Divide
    PROVE  Hc11Inv'
<1>1. reg \in Registers /\ reg.x \in Word /\ D \in Word /\ WordSize - 1 \in Word
  BY Values DEF Hc11Inv
<1>2. CASE reg.x = 0
  BY <1>1, <1>2, RegisterGiven, ResultKeeps DEF Divide
<1>3. CASE reg.x # 0
  <2>1. reg.x \in Nat \ {0} /\ D \in Nat
    BY <1>1, <1>3 DEF Word
  <2>2. D \div reg.x \in 0 .. D /\ D % reg.x \in 0 .. reg.x - 1
    <3>1. \A v \in Nat, n \in Nat \ {0} : v \div n \in 0 .. v
      BY QuotientGiven, Zenon
    <3>2. \A v \in Nat, n \in Nat \ {0} : v % n \in 0 .. n - 1
      OBVIOUS
    <3>3. QED
      BY <2>1, <3>1, <3>2, Zenon
  <2>3. D \div reg.x \in Word /\ D % reg.x \in Word
    BY <1>1, <2>1, <2>2, Sizes DEF Word
  <2>4. [WithD(D % reg.x) EXCEPT !.x = D \div reg.x] \in Registers
    <3> DEFINE q == D \div reg.x
               rest == WithD(D % reg.x)
    <3>1. rest \in Registers /\ q \in Word
      BY <1>1, <2>3, WithDGiven
    <3> HIDE DEF q, rest
    <3>2. [rest EXCEPT !.x = q] \in Registers
      BY <3>1, RegisterGiven
    <3>3. QED
      BY <3>2 DEF q, rest
  <2>5. QED
    BY <1>3, <2>4, ResultKeeps DEF Divide
<1>4. QED
  BY <1>2, <1>3

LEMMA MultiplyKeeps ==
    ASSUME Hc11Inv, Multiply
    PROVE  Hc11Inv'
<1>1. reg \in Registers /\ reg.a \in 0 .. ByteSize - 1 /\ reg.b \in 0 .. ByteSize - 1
  BY Values DEF Hc11Inv
<1> DEFINE a == reg.a
           b == reg.b
<1>2. a \in Nat /\ b \in Nat /\ a <= ByteSize - 1 /\ b <= ByteSize - 1 /\ ByteSize \in Nat \ {0}
  BY <1>1, Sizes
<1> HIDE DEF a, b
<1>3. a * b <= (ByteSize - 1) * b /\ (ByteSize - 1) * b <= (ByteSize - 1) * ByteSize
  BY <1>2
<1>4. (ByteSize - 1) * ByteSize = ByteSize * ByteSize - ByteSize
  BY <1>2
<1>5. /\ a * b \in Nat /\ (ByteSize - 1) * b \in Int /\ ByteSize * ByteSize \in Int
  BY <1>2
<1>6. a * b \in Word
  BY <1>2, <1>3, <1>4, <1>5, Sizes DEF Word
<1>7. WithD(reg.a * reg.b) \in Registers
  BY <1>1, <1>6, WithDGiven DEF a, b
<1>8. QED
  BY <1>7, ResultKeeps DEF Multiply

LEMMA CountKeeps ==
    ASSUME Hc11Inv, NEW r \in {"a", "b"}, NEW v \in Byte, NEW at, Count(r, v, at)
    PROVE  Hc11Inv'
  BY RegisterGiven, ResultKeeps DEF Count, Hc11Inv

LEMMA OneRegisterKeeps ==
    ASSUME Hc11Inv, NEW r \in {"a", "b"},
           Complement(r) \/ ShiftLeft(r) \/ Test(r) \/ ClearRegister(r)
              \/ Count(r, (reg[r] + 1) % ByteSize, Half - 1)
    PROVE  Hc11Inv'
<1>1. reg \in Registers /\ reg[r] \in Byte /\ 0 \in Byte
  BY Values DEF Hc11Inv
<1>2. ByteSize \in Nat \ {0} /\ ByteSize = 2 * Half /\ Half \in Nat
  BY Sizes
<1>3. ByteSize - 1 - reg[r] \in Byte
  BY <1>1, <1>2 DEF Byte
<1>4. (2 * reg[r]) % ByteSize \in Byte
  <2>1. 2 * reg[r] \in Int
    BY <1>1, <1>2 DEF Byte
  <2>2. QED
    BY <1>2, <2>1, RemainderGiven DEF Byte
<1>5. (reg[r] + 1) % ByteSize \in Byte
  <2>1. reg[r] + 1 \in Int
    BY <1>1, <1>2 DEF Byte
  <2>2. QED
    BY <1>2, <2>1, RemainderGiven DEF Byte
<1>6. CASE Complement(r)
  BY <1>1, <1>3, <1>6, RegisterGiven, ResultKeeps DEF Complement
<1>7. CASE ShiftLeft(r)
  BY <1>1, <1>4, <1>7, RegisterGiven, ResultKeeps DEF ShiftLeft
<1>8. CASE Test(r)
  BY <1>1, <1>8, ResultKeeps DEF Test
<1>9. CASE ClearRegister(r)
  BY <1>1, <1>9, RegisterGiven, ResultKeeps DEF ClearRegister
<1>10. CASE Count(r, (reg[r] + 1) % ByteSize, Half - 1)
  BY <1>5, <1>10, CountKeeps
<1>11. QED
  BY <1>6, <1>7, <1>8, <1>9, <1>10

LEMMA SubtractBKeeps ==
    ASSUME Hc11Inv, SubtractB
    PROVE  Hc11Inv'
<1>1. /\ reg \in Registers /\ reg.a \in 0 .. ByteSize - 1 /\ reg.b \in 0 .. ByteSize - 1
  BY Values DEF Hc11Inv
<1>2. Minus(reg.a, reg.b, ByteSize) \in Byte
  BY <1>1, Sizes, MinusGiven DEF Byte
<1>3. /\ reg' \in Registers /\ ccr' = Subtracted(reg.a, reg.b, ByteSize)
      /\ compared' = <<reg.a, reg.b, ByteSize>>
  BY <1>1, <1>2, RegisterGiven DEF SubtractB
<1>4. QED
  BY <1>1, <1>3, CompareKeeps

LEMMA InterruptKeeps ==
    ASSUME Hc11Inv, Interrupt \/ InterruptAndReturn
    PROVE  Hc11Inv'
<1>1. reg \in Registers /\ WordSize - 1 \in Word
  BY Values DEF Hc11Inv
<1>2. ccr' \cap Arithmetic = ccr \cap Arithmetic /\ compared' = compared
  <2>1. CASE Interrupt
    BY <2>1 DEF Interrupt, Arithmetic
  <2>2. CASE InterruptAndReturn
    <3>1. PICK now \in {ccr, {}} : ccr' = UnframedCodes(Frame(reg, ccr), now)
      BY <2>2 DEF InterruptAndReturn
    <3>2. Frame(reg, ccr)[9] = ccr
      BY <1>1, FrameReturns
    <3>3. ccr' = ccr \/ ccr' = ccr \ {"X"}
      BY <3>1, <3>2, Zenon DEF UnframedCodes
    <3>4. QED
      BY <2>2, <3>3 DEF InterruptAndReturn, Arithmetic
  <2>3. QED
    BY <2>1, <2>2
<1>3. reg' \in Registers
  <2>1. CASE Interrupt
    BY <1>1, <2>1, RegisterGiven DEF Interrupt
  <2>2. CASE InterruptAndReturn
    BY <1>1, <2>2, FrameReturns DEF InterruptAndReturn
  <2>3. QED
    BY <2>1, <2>2
<1>4. QED
  BY <1>2, <1>3 DEF Hc11Inv

\* The code of the keypad runs as it was written, for every size of a byte:
\* what it compares decides its branches, and no interrupt is seen between
\* (m68hc11_step(), branch_condition(), m68hc11_interrupt()).
THEOREM KeypadRunsAsWritten == Hc11Spec => []CodeRunsAsWritten
<1>1. Hc11Init => Hc11Inv
  <2> SUFFICES ASSUME Hc11Init
               PROVE  Hc11Inv
    OBVIOUS
  <2>1. {0, WordSize \div 2} \subseteq Word /\ 1 \in Word /\ 0 \in Word
    <3>1. /\ WordSize = 2 * (ByteSize * Half) /\ ByteSize * Half \in Nat \ {0}
      BY Sizes
    <3>2. WordSize \div 2 = ByteSize * Half
      BY <3>1, HalfOfSize
    <3>3. QED
      BY <3>1, <3>2 DEF Word
  <2>2. reg \in Registers
    BY <2>1 DEF Hc11Init, Registers
  <2>3. QED
    BY <2>2 DEF Hc11Init, Hc11Inv
<1>2. Hc11Inv /\ [Hc11Next]_hc11Vars => Hc11Inv'
  <2> SUFFICES ASSUME Hc11Inv, [Hc11Next]_hc11Vars
               PROVE  Hc11Inv'
    OBVIOUS
  <2>1. /\ reg \in Registers
        /\ reg.a \in Byte /\ reg.b \in Byte /\ reg.x \in Word /\ reg.y \in Word
        /\ reg.pc \in Word /\ D \in Word
        /\ Byte = 0 .. ByteSize - 1 /\ Word = 0 .. WordSize - 1 /\ Targets \subseteq Word
        /\ 0 \in Byte /\ WordSize - 1 \in Word
    BY Values DEF Hc11Inv
  <2>2. /\ ByteSize \in Nat \ {0} /\ WordSize \in Nat \ {0} /\ 1 <= ByteSize - 1
        /\ 1 <= WordSize - 1
    BY Sizes
  <2>3. CASE Page1A
    BY <2>1, <2>3, CompareInstruction DEF Page1A
  <2>4. CASE Page18
    <3>1. CASE Result([reg EXCEPT !.y = Minus(reg.y, 1, WordSize)],
                      Moved(Minus(reg.y, 1, WordSize), WordSize) \cup
                      If(reg.y = WordSize \div 2, "V"))
      <4>1. Minus(reg.y, 1, WordSize) \in Word
        BY <2>1, <2>2, OneLess
      <4>2. QED
        BY <2>1, <3>1, <4>1, RegisterGiven, ResultKeeps
    <3>2. CASE \E v \in Word : Compare(reg.y, v, WordSize) \/ LoadWord("y", v)
      BY <2>1, <3>2, CompareInstruction, LoadWordKeeps
    <3>3. CASE Exchange("y")
      BY <3>3, ExchangeKeeps
    <3>4. CASE \E r \in {"a", "b"} : StoreByte(reg[r]) \/ \E v \in Byte : LoadByte(r, v)
      BY <2>1, <3>4, ResultKeeps, LoadByteKeeps DEF StoreByte
    <3>5. QED
      BY <2>4, <3>1, <3>2, <3>3, <3>4, Zenon DEF Page18
  <2>5. CASE Branch
    <3>1. PICK t \in Targets : \E condition :
              JumpTo(IF Taken(condition, ccr) THEN t ELSE reg.pc)
      BY <2>5, Zenon DEF Branch
    <3>2. QED
      BY <2>1, <3>1, JumpKeeps
  <2>6. CASE Opcodes00
    <3>1. CASE Divide
      BY <3>1, DivideKeeps
    <3>2. CASE \E codes \in SUBSET {"C", "Z", "I", "X"} : Result(reg, codes)
      BY <2>1, <3>2, ResultKeeps
    <3>3. CASE \E v \in Byte : Result([reg EXCEPT !.a = v], ccr)
      BY <2>1, <3>3, RegisterGiven, ResultKeeps
    <3>4. CASE CountX((reg.x + 1) % WordSize) \/ CountX(Minus(reg.x, 1, WordSize))
      <4>1. reg.x + 1 \in Int
        BY <2>1
      <4>2. (reg.x + 1) % WordSize \in Word /\ Minus(reg.x, 1, WordSize) \in Word
        BY <2>1, <2>2, <4>1, OneLess, RemainderGiven
      <4>3. ASSUME NEW v \in Word, CountX(v)
            PROVE  Hc11Inv'
        BY <2>1, <4>3, RegisterGiven, ResultKeeps DEF CountX
      <4>4. QED
        BY <3>4, <4>2, <4>3
    <3>5. CASE \E f \in {"V", "C", "I"} : Result(reg, ccr \ {f}) \/ Result(reg, ccr \cup {f})
      BY <2>1, <3>5, ResultKeeps
    <3>6. QED
      BY <2>6, <3>1, <3>2, <3>3, <3>4, <3>5, Zenon DEF Opcodes00
  <2>7. CASE Opcodes10
    <3>1. CASE SubtractB
      BY <3>1, SubtractBKeeps
    <3>2. CASE \E t \in Targets : JumpTo(t)
      BY <2>1, <3>2, JumpKeeps
    <3>3. CASE \E v \in Byte : StoreByte(v)
      BY <2>1, <3>3, ResultKeeps DEF StoreByte
    <3>4. CASE LoadByte("b", reg.a) \/ LoadByte("a", reg.b)
      BY <2>1, <3>4, LoadByteKeeps
    <3>5. CASE AddByte("a", reg.b, 0)
      BY <2>1, <3>5, AddByteKeeps
    <3>6. QED
      BY <2>7, <3>1, <3>2, <3>3, <3>4, <3>5, Zenon DEF Opcodes10
  <2>8. CASE Opcodes30
    <3>1. CASE \E v \in Word : Result([reg EXCEPT !.x = v], ccr)
      BY <2>1, <3>1, RegisterGiven, ResultKeeps
    <3>2. CASE \E r \in {"a", "b"}, v \in Byte : Result([reg EXCEPT ![r] = v], ccr)
      BY <2>1, <3>2, RegisterGiven, ResultKeeps
    <3>3. CASE \E t \in Targets : JumpTo(t)
      BY <2>1, <3>3, JumpKeeps
    <3>4. CASE Result([reg EXCEPT !.x = (@ + reg.b) % WordSize], ccr)
      <4>1. reg.x + reg.b \in Int
        BY <2>1
      <4>2. (reg.x + reg.b) % WordSize \in Word
        BY <2>1, <2>2, <4>1, RemainderGiven
      <4>3. QED
        BY <2>1, <3>4, <4>2, RegisterGiven, ResultKeeps
    <3>5. QED
      BY <2>8, <3>1, <3>2, <3>3, <3>4, Zenon DEF Opcodes30
  <2>9. CASE Opcodes40
    <3>1. CASE Multiply
      BY <3>1, MultiplyKeeps
    <3>2. CASE \E r \in {"a", "b"} :
                  \/ Complement(r) \/ ShiftLeft(r) \/ Test(r) \/ ClearRegister(r)
                  \/ Count(r, (reg[r] + 1) % ByteSize, Half - 1)
      BY <3>2, OneRegisterKeeps
    <3>3. CASE Count("b", Minus(reg.b, 1, ByteSize), Half)
      <4>1. Minus(reg.b, 1, ByteSize) \in Byte
        BY <2>1, <2>2, OneLess
      <4>2. QED
        BY <3>3, <4>1, CountKeeps
    <3>4. QED
      BY <2>9, <3>1, <3>2, <3>3, Zenon DEF Opcodes40
  <2>10. CASE Opcodes60
    BY <2>1, <2>10, JumpKeeps, ResultKeeps DEF Opcodes60
  <2>11. CASE Opcodes80
    <3>1. CASE \E v \in Byte : Compare(reg.a, v, ByteSize) \/ LoadByte("a", v)
      BY <2>1, <3>1, LoadByteKeeps, CompareInstruction
    <3>2. CASE \E v \in Byte : \/ AddByte("a", v, 0)
                               \/ AddByte("a", v, IF "C" \in ccr THEN 1 ELSE 0)
      BY <3>2, AddByteKeeps
    <3>3. CASE \E t \in Targets : JumpTo(t)
      BY <2>1, <3>3, JumpKeeps
    <3>4. CASE \E v \in Word : StoreWord(v) \/ Compare(reg.x, v, WordSize)
      BY <2>1, <3>4, ResultKeeps, CompareInstruction DEF StoreWord
    <3>5. CASE Exchange("x")
      BY <3>5, ExchangeKeeps
    <3>6. QED
      BY <2>11, <3>1, <3>2, <3>3, <3>4, <3>5, Zenon DEF Opcodes80
  <2>12. CASE Opcodes90
    <3>1. CASE \E v \in Byte : LoadByte("a", v) \/ Compare(reg.a, v, ByteSize)
      BY <2>1, <3>1, LoadByteKeeps, CompareInstruction
    <3>2. CASE StoreByte(reg.a)
      BY <2>1, <3>2, ResultKeeps DEF StoreByte
    <3>3. CASE \E t \in Targets : JumpTo(t)
      BY <2>1, <3>3, JumpKeeps
    <3>4. QED
      BY <2>12, <3>1, <3>2, <3>3, Zenon DEF Opcodes90
  <2>13. CASE OpcodesC0
    <3>1. CASE \E v \in Word : LoadD(v) \/ AddD(v)
      <4>1. PICK v \in Word : LoadD(v) \/ AddD(v)
        BY <3>1
      <4>2. D + v \in Int
        BY <2>1
      <4>3. (D + v) % WordSize \in Word
        BY <2>1, <2>2, <4>2, RemainderGiven
      <4>4. WithD(v) \in Registers /\ WithD((D + v) % WordSize) \in Registers
        BY <2>1, <4>3, WithDGiven
      <4>5. QED
        BY <4>1, <4>4, ResultKeeps, Zenon DEF LoadD, AddD
    <3>2. CASE \E v \in Word : LoadWord("x", v)
      BY <3>2, LoadWordKeeps
    <3>3. CASE \E v \in Byte : LoadByte("b", v) \/ Compare(reg.b, v, ByteSize) \/ AddByte("b", v, 0)
      BY <2>1, <3>3, LoadByteKeeps, CompareInstruction, AddByteKeeps
    <3>4. CASE StoreByte(reg.b) \/ StoreWord(reg.x) \/ StoreWord(D)
      BY <2>1, <3>4, ResultKeeps DEF StoreByte, StoreWord
    <3>5. QED
      BY <2>13, <3>1, <3>2, <3>3, <3>4, Zenon DEF OpcodesC0
  <2>14. CASE Unknown
    BY <2>14 DEF Unknown, Hc11Inv
  <2>15. CASE Interrupt \/ InterruptAndReturn
    BY <2>15, InterruptKeeps
  <2>16. CASE UNCHANGED hc11Vars
    BY <2>16 DEF hc11Vars, Hc11Inv
  <2>17. QED
    BY <2>3, <2>4, <2>5, <2>6, <2>7, <2>8, <2>9, <2>10, <2>11, <2>12, <2>13, <2>14,
       <2>15, <2>16, Zenon DEF Hc11Next
<1>3. QED
  BY <1>1, <1>2, InvMeansIt, PTL DEF Hc11Spec

-------------------------------------------------------------------------------
(* The decoder of the display: a byte is a chain of steps on the state and *)
(* the page, and every step keeps what the editor may rely on.  While a    *)
(* byte is handled the cursor may stand behind the last cell.              *)

Place == Cell \cup {None}
Ends == (0 .. Cells) \cup {None}
DisplayByte == 0 .. 255

Field(top) ==
    [cursor : 0 .. top, start : Place, end : Ends,
     active : BOOLEAN, width : BOOLEAN, known : BOOLEAN, full : BOOLEAN,
     segments : SUBSET Cell, edit : Place, command : 0 .. 6, positioned : BOOLEAN,
     textMode : BOOLEAN, address : Place, noncell : BOOLEAN]

Lamps == [0 .. 2 -> SUBSET Int]

Decoder(top) ==
    [cells : [Cell -> Char], dots : SUBSET Cell, f : Field(top),
     indicator : (116 .. 124) \cup {None}, on : Lamps, flash : Lamps,
     metering : BOOLEAN, setup : 0 .. 3, pending : Nat \cup {None},
     level : 0 .. LevelTop, marker : Place, last : DisplayByte, dirty : BOOLEAN]

Pages == [cells : [Cell -> Char], dots : SUBSET Cell, start : Place, end : Ends,
          segments : SUBSET Cell]

Step(top) == [d : Decoder(top), page : Pages, consumed : BOOLEAN, complete : BOOLEAN,
              setupByte : BOOLEAN]

\* The page, if there is nothing new, has the text, points are at digits and
\* lamps that flash are on.
Sound(p) ==
    /\ p.d.dirty = FALSE => p.page.cells = p.d.cells /\ p.page.dots = p.d.dots
    /\ \A i \in p.d.dots : p.d.cells[i] = "digit"
    /\ \A b \in 0 .. 2 : p.d.flash[b] \subseteq p.d.on[b]

SameText(p, q) ==
    /\ q.page = p.page /\ q.d.cells = p.d.cells /\ q.d.dots = p.d.dots
    /\ q.d.on = p.d.on /\ q.d.flash = p.d.flash /\ q.d.dirty = p.d.dirty

Tops == {Cells - 1, Cells}

LEMMA Cursors ==
    /\ Cell \subseteq Place /\ None \in Place /\ Cell \subseteq Ends /\ None \in Ends
    /\ \A top \in Tops : Cell \subseteq 0 .. top /\ 0 .. top \subseteq Ends
    /\ 0 \in Cell /\ 0 .. Cells - 1 = Cell /\ Cells \in Nat
  BY VfdAssumption DEF Place, Ends, Tops, Cell

LEMMA WithFieldStep ==
    ASSUME NEW top, NEW p \in Step(top), NEW f \in Field(top)
    PROVE  /\ WithField(p, f) \in Step(top) /\ WithField(p, f).d.f = f
           /\ SameText(p, WithField(p, f))
           /\ WithField(p, f).consumed = p.consumed
           /\ WithField(p, f).complete = p.complete
           /\ WithField(p, f).setupByte = p.setupByte
           /\ WithField(p, f).d.indicator = p.d.indicator
  BY DEF WithField, Step, Decoder, SameText

LEMMA ConsumedStep ==
    ASSUME NEW top, NEW p \in Step(top), NEW complete \in BOOLEAN
    PROVE  /\ Consumed(p, complete) \in Step(top)
           /\ SameText(p, Consumed(p, complete))
  BY DEF Consumed, Step, Decoder, SameText

LEMMA WithTextSound ==
    ASSUME NEW top, NEW p \in Step(top), NEW cells \in [Cell -> Char], NEW dots \in SUBSET Cell,
           Sound(p), \A i \in dots : cells[i] = "digit"
    PROVE  Sound(WithText(p, cells, dots))
<1> DEFINE q == WithText(p, cells, dots)
<1>1. q.d.dirty = TRUE
  BY DEF WithText, Step, Decoder
<1>2. q.d.cells = cells /\ q.d.dots = dots /\ q.d.on = p.d.on /\ q.d.flash = p.d.flash
  BY DEF WithText, Step, Decoder
<1> HIDE DEF q
<1>3. Sound(q)
  BY <1>1, <1>2 DEF Sound
<1>4. QED
  BY <1>3 DEF q

LEMMA PageOfDecoder ==
    ASSUME NEW top \in Tops, NEW s \in Decoder(top)
    PROVE  /\ Page(s) \in Pages
           /\ Page(s).cells = s.cells /\ Page(s).dots = s.dots
  BY Cursors DEF Page, Decoder, Pages, Field

LEMMA PublishStepSound ==
    ASSUME NEW top \in Tops, NEW p \in Step(top), Sound(p)
    PROVE  /\ Publish(p) \in Step(top) /\ Sound(Publish(p)) /\ Publish(p).d.f = p.d.f
<1> DEFINE page == Page(p.d)
<1>1. page \in Pages /\ page.cells = p.d.cells /\ page.dots = p.d.dots
  BY PageOfDecoder DEF Step
<1> HIDE DEF page
<1> DEFINE q == [p EXCEPT !.page = page, !.d.dirty = FALSE]
<1>2. Publish(p) = q
  BY Zenon DEF Publish, page
<1>3. q \in Step(top)
  BY <1>1 DEF Step, Decoder
<1>4. /\ q.page = page /\ q.d.cells = p.d.cells /\ q.d.dots = p.d.dots
      /\ q.d.on = p.d.on /\ q.d.flash = p.d.flash /\ q.d.f = p.d.f
  BY DEF Step, Decoder
<1> HIDE DEF q
<1>5. Sound(q)
  BY <1>1, <1>4 DEF Sound
<1>6. QED
  BY <1>2, <1>3, <1>4, <1>5

LEMMA SameSound ==
    ASSUME NEW p, NEW q, Sound(p), SameText(p, q)
    PROVE  Sound(q)
  BY DEF Sound, SameText

LEMMA MotionField ==
    ASSUME NEW top \in Int, NEW f \in Field(top), NEW e \in Place, Cell \subseteq 0 .. top
    PROVE  [f EXCEPT !.edit = e, !.cursor = IF e = None THEN @ ELSE e,
                     !.segments = IF e = None THEN {} ELSE {e},
                     !.positioned = TRUE, !.command = 0] \in Field(top)
<1> DEFINE cursor == IF e = None THEN f.cursor ELSE e
           segments == IF e = None THEN {} ELSE {e}
<1>1. cursor \in 0 .. top /\ segments \in SUBSET Cell
  BY DEF Field, Place
<1> HIDE DEF cursor, segments
<1>2. [f EXCEPT !.edit = e, !.cursor = cursor, !.segments = segments,
                !.positioned = TRUE, !.command = 0] \in Field(top)
  BY <1>1, 0 \in 0 .. 6, TRUE \in BOOLEAN, Zenon DEF Field
<1>3. QED
  BY <1>2, Zenon DEF cursor, segments

LEMMA ReplacementField ==
    ASSUME NEW top \in Int, NEW f \in Field(top), Cell \subseteq 0 .. top
    PROVE  [f EXCEPT !.cursor = IF f.start = None THEN @ ELSE f.start,
                     !.active = f.start # None,
                     !.width = FALSE, !.known = TRUE,
                     !.full = f.start # None /\ f.start \in f.segments,
                     !.command = 0] \in Field(top)
<1> DEFINE cursor == IF f.start = None THEN f.cursor ELSE f.start
           begun == f.start # None
           full == f.start # None /\ f.start \in f.segments
<1>1. cursor \in 0 .. top
  BY DEF Field, Place
<1>2. begun \in BOOLEAN /\ full \in BOOLEAN
  OBVIOUS
<1> HIDE DEF cursor, begun, full
<1>3. [f EXCEPT !.cursor = cursor, !.active = begun, !.width = FALSE, !.known = TRUE,
                !.full = full, !.command = 0] \in Field(top)
  BY <1>1, <1>2, 0 \in 0 .. 6, Zenon DEF Field
<1>4. QED
  BY <1>3, Zenon DEF cursor, begun, full

LEMMA AdvancedField ==
    ASSUME NEW f \in Field(Cells - 1)
    PROVE  Advanced(f) \in Field(Cells)
<1> DEFINE segments == IF ~f.active THEN f.segments
                       ELSE IF f.full THEN f.segments \cup {f.cursor}
                       ELSE f.segments \ {f.cursor}
           cursor == f.cursor + 1
           end == IF f.active /\ ~f.known THEN f.cursor + 1 ELSE f.end
<1>1. f.cursor \in 0 .. Cells - 1 /\ f.segments \in SUBSET Cell /\ f.end \in Ends
  BY DEF Field
<1>2. cursor \in 0 .. Cells
  BY <1>1, Cursors
<1>3. end \in Ends
  BY <1>1, <1>2, Zenon DEF Ends
<1>4. segments \in SUBSET Cell
  <2>1. f.cursor \in Cell
    BY <1>1, Cursors
  <2>2. f.segments \cup {f.cursor} \in SUBSET Cell /\ f.segments \ {f.cursor} \in SUBSET Cell
    BY <1>1, <2>1
  <2>3. QED
    BY <1>1, <2>2, Zenon
<1> HIDE DEF segments, cursor, end
<1>5. [f EXCEPT !.segments = segments, !.cursor = cursor, !.end = end] \in Field(Cells)
  BY <1>2, <1>3, <1>4 DEF Field
<1>6. QED
  BY <1>5, Zenon DEF Advanced, segments, cursor, end

Good(top) == {p \in Step(top) : Sound(p)}

LEMMA TopsNumbers == Cells \in Nat /\ \A top \in Tops : top \in Nat /\ Cell \subseteq 0 .. top
  BY VfdAssumption DEF Tops, Cell

LEMMA WithFieldGood ==
    ASSUME NEW top, NEW p \in Good(top), NEW f \in Field(top)
    PROVE  WithField(p, f) \in Good(top)
<1> DEFINE q == WithField(p, f)
<1>1. q \in Step(top) /\ SameText(p, q) /\ Sound(p)
  BY WithFieldStep DEF Good
<1> HIDE DEF q
<1>2. QED
  BY <1>1, SameSound DEF Good, q

LEMMA ConsumedGood ==
    ASSUME NEW top, NEW p \in Good(top), NEW complete \in BOOLEAN
    PROVE  Consumed(p, complete) \in Good(top)
<1> DEFINE q == Consumed(p, complete)
<1>1. q \in Step(top) /\ SameText(p, q) /\ Sound(p)
  BY ConsumedStep DEF Good
<1> HIDE DEF q
<1>2. QED
  BY <1>1, SameSound DEF Good, q

LEMMA FieldOfStep ==
    ASSUME NEW top, NEW p \in Good(top)
    PROVE  p.d.f \in Field(top) /\ p.complete \in BOOLEAN /\ p.d \in Decoder(top)
  BY DEF Good, Step, Decoder

LEMMA MotionGood ==
    ASSUME NEW top \in Tops, NEW p \in Good(top), NEW by \in {1, -1}
    PROVE  Motion(p, by) \in Good(top)
<1> DEFINE f == p.d.f
           e == IF f.edit = None THEN None
                ELSE IF by > 0 THEN (IF f.edit < Cells - 1 THEN f.edit + 1 ELSE f.edit)
                ELSE (IF f.edit > 0 THEN f.edit - 1 ELSE f.edit)
           g == [f EXCEPT !.edit = e, !.cursor = IF e = None THEN @ ELSE e,
                          !.segments = IF e = None THEN {} ELSE {e},
                          !.positioned = TRUE, !.command = 0]
<1>1. f \in Field(top)
  BY FieldOfStep
<1>2. f.edit \in Place
  BY <1>1 DEF Field
<1>3. e \in Place
  BY <1>2, TopsNumbers DEF Place, None, Cell
<1> HIDE DEF e
<1>4. g \in Field(top)
  <2>1. top \in Int /\ Cell \subseteq 0 .. top
    BY TopsNumbers
  <2>2. QED
    BY <1>1, <1>3, <2>1, MotionField, Zenon
<1>5. Motion(p, by) = Consumed(WithField(p, g), TRUE)
  BY Zenon DEF Motion, e
<1> HIDE DEF g
<1>6. QED
  BY <1>4, <1>5, WithFieldGood, ConsumedGood

LEMMA CommandGood ==
    ASSUME NEW top \in Tops, NEW p \in Good(top), NEW v \in DisplayByte
    PROVE  CommandStep(p, v) \in Good(top)
<1>1. p.d.f \in Field(top) /\ p.complete \in BOOLEAN
  BY FieldOfStep
<1>2. ASSUME NEW n \in 0 .. 6
      PROVE  Awaiting(p, n) \in Good(top)
  <2>1. [p.d.f EXCEPT !.command = n] \in Field(top)
    BY <1>1, Zenon DEF Field
  <2>2. QED
    BY <1>1, <2>1, WithFieldGood, ConsumedGood DEF Awaiting
<1>3. Underlined(p) \in Good(top)
  <2>1. EditSegment(p.d.f) \in SUBSET Cell
    BY <1>1 DEF Field, Place, EditSegment
  <2>2. [p.d.f EXCEPT !.segments = EditSegment(p.d.f), !.command = 0] \in Field(top)
    BY <1>1, <2>1, 0 \in 0 .. 6, Zenon DEF Field
  <2>3. QED
    BY <2>2, WithFieldGood, ConsumedGood DEF Underlined
<1>4. Motion(p, 1) \in Good(top) /\ Motion(p, -1) \in Good(top)
  BY MotionGood
<1>5. Replacement(p) \in Good(top)
  <2>1. top \in Int /\ Cell \subseteq 0 .. top
    BY TopsNumbers
  <2>2. QED
    BY <1>1, <2>1, ReplacementField, WithFieldGood, Zenon DEF Replacement
<1>6. QED
  BY <1>2, <1>3, <1>4, <1>5 DEF CommandStep

LEMMA AddressGood ==
    ASSUME NEW top \in Tops, NEW p \in Good(top), NEW v \in DisplayByte
    PROVE  AddressStep(p, v) \in Good(top)
<1> DEFINE f == p.d.f
           addressed == Printable(v) \/ (v = 98 /\ p.d.last = 1)
           waits == v = 96 \/ f.textMode
           cursor == IF addressed THEN f.address ELSE f.cursor
           address == IF waits THEN f.address ELSE None
           g == [f EXCEPT !.cursor = cursor, !.address = address]
<1>1. CASE f.address = None
  BY <1>1 DEF AddressStep
<1>2. CASE f.address # None
  <2>1. f \in Field(top)
    BY FieldOfStep
  <2>2. f.address \in Cell /\ f.cursor \in 0 .. top
    BY <1>2, <2>1 DEF Field, Place
  <2>3. cursor \in 0 .. top
    BY <2>2, TopsNumbers, Zenon
  <2>4. address \in Place
    BY <2>2, Zenon DEF Place
  <2> HIDE DEF cursor, address
  <2>5. g \in Field(top)
    BY <2>1, <2>3, <2>4, Zenon DEF Field
  <2>6. AddressStep(p, v) = WithField(p, g)
    BY <1>2, Zenon DEF AddressStep, cursor, address
  <2> HIDE DEF g
  <2>7. QED
    BY <2>5, <2>6, WithFieldGood
<1>3. QED
  BY <1>1, <1>2

LEMMA WithTextGood ==
    ASSUME NEW top, NEW p \in Good(top), NEW cells \in [Cell -> Char],
           NEW dots \in SUBSET Cell, \A i \in dots : cells[i] = "digit"
    PROVE  WithText(p, cells, dots) \in Good(top) /\ WithText(p, cells, dots).d.f = p.d.f
<1>1. p \in Step(top) /\ Sound(p)
  BY DEF Good
<1>2. WithText(p, cells, dots) \in Step(top) /\ WithText(p, cells, dots).d.f = p.d.f
  BY <1>1 DEF WithText, Step, Decoder
<1>3. Sound(WithText(p, cells, dots))
  BY <1>1, WithTextSound, Zenon
<1>4. QED
  BY <1>2, <1>3, Zenon DEF Good

LEMMA PublishGood ==
    ASSUME NEW top \in Tops, NEW p \in Good(top)
    PROVE  Publish(p) \in Good(top) /\ Publish(p).d.f = p.d.f
  BY PublishStepSound DEF Good

LEMMA PendingGood ==
    ASSUME NEW top, NEW p \in Good(top), NEW n \in Nat \cup {None}
    PROVE  [p EXCEPT !.d.pending = n] \in Good(top)
<1> DEFINE q == [p EXCEPT !.d.pending = n]
<1>1. q \in Step(top) /\ SameText(p, q) /\ Sound(p)
  BY DEF Good, Step, Decoder, SameText
<1> HIDE DEF q
<1>2. QED
  BY <1>1, SameSound DEF q, Good

LEMMA LevelGood ==
    ASSUME NEW top, NEW p \in Good(top), NEW n \in 0 .. LevelTop
    PROVE  [p EXCEPT !.d.level = n] \in Good(top)
<1> DEFINE q == [p EXCEPT !.d.level = n]
<1>1. q \in Step(top) /\ SameText(p, q) /\ Sound(p)
  BY DEF Good, Step, Decoder, SameText
<1> HIDE DEF q
<1>2. QED
  BY <1>1, SameSound DEF q, Good

LEMMA MarkedGood ==
    ASSUME NEW top, NEW p \in Good(top), NEW place \in Place
    PROVE  [p EXCEPT !.d.marker = place] \in Good(top)
<1> DEFINE q == [p EXCEPT !.d.marker = place]
<1>1. q \in Step(top) /\ SameText(p, q) /\ Sound(p)
  BY DEF Good, Step, Decoder, SameText
<1> HIDE DEF q
<1>2. QED
  BY <1>1, SameSound DEF q, Good

LEMMA RenderGood ==
    ASSUME NEW top \in Tops, NEW p \in Good(top), NEW value \in Nat
    PROVE  RenderMeter(p, value) \in Good(top)
<1> DEFINE bars == IF value > LevelTop THEN LevelTop ELSE value
           meter == [i \in Cell |-> IF i = p.d.marker THEN "mark"
                                    ELSE IF i < bars THEN "bar" ELSE "blank"]
           f == [p.d.f EXCEPT !.start = None, !.end = None, !.active = FALSE,
                              !.segments = {}]
           written == WithText(p, meter, {})
           q == [WithField(written, f) EXCEPT !.d.level = bars]
<1>1. bars \in 0 .. LevelTop
  BY VfdAssumption
<1>2. meter \in [Cell -> Char]
  BY DEF Char
<1>3. f \in Field(top)
  <2>1. None \in Place /\ None \in Ends /\ {} \in SUBSET Cell
    BY Cursors
  <2>2. QED
    BY <2>1, FieldOfStep, ZenonT(60) DEF Field
<1>4. RenderMeter(p, value) = Publish(q)
  BY Zenon DEF RenderMeter
<1> HIDE DEF bars, meter, f
<1>5. written \in Good(top)
  BY <1>2, WithTextGood
<1> HIDE DEF written
<1>6. q \in Good(top)
  BY <1>1, <1>3, <1>5, WithFieldGood, LevelGood
<1>7. QED
  BY <1>4, <1>6, PublishGood

LEMMA LevelStepGood ==
    ASSUME NEW top \in Tops, NEW p \in Good(top), NEW v \in DisplayByte
    PROVE  LevelStep(p, v) \in Good(top)
<1> DEFINE held == p.d.pending
           marks == v \in {42, 94} /\ p.d.last = held /\ held \in 1 .. Cells
           q == IF held = None \/ marks THEN p ELSE RenderMeter(p, held)
<1>1. held \in Nat \cup {None}
  BY FieldOfStep DEF Decoder
<1>2. held # None => RenderMeter(p, held) \in Good(top)
  BY <1>1, RenderGood
<1>3. q \in Good(top)
  BY <1>2, Zenon
<1>4. LevelStep(p, v) = [q EXCEPT !.d.pending = None]
  BY Zenon DEF LevelStep
<1> HIDE DEF q
<1>5. QED
  BY <1>3, <1>4, PendingGood

LEMMA SetupGood ==
    ASSUME NEW top \in Tops, NEW p \in Good(top), NEW v \in DisplayByte
    PROVE  SetupStep(p, v) \in Good(top)
<1>1. ASSUME NEW n \in 0 .. 3, NEW metering \in BOOLEAN, NEW known \in BOOLEAN
      PROVE  MeterSetup(p, n, metering, known) \in Good(top)
  <2> DEFINE q == MeterSetup(p, n, metering, known)
  <2>1. q \in Step(top) /\ SameText(p, q) /\ Sound(p)
    BY DEF Good, Step, Decoder, SameText, MeterSetup
  <2> HIDE DEF q
  <2>2. QED
    BY <2>1, SameSound DEF q, Good
<1>2. p.d.metering \in BOOLEAN
  BY FieldOfStep DEF Decoder
<1>3. MeterOff(p) \in Good(top)
  <2> DEFINE q == MeterSetup(p, 0, FALSE, FALSE)
             r == [q EXCEPT !.d.pending = None, !.d.level = 0]
  <2>1. q \in Good(top)
    BY <1>1, 0 \in 0 .. 3, FALSE \in BOOLEAN, Zenon
  <2> HIDE DEF q
  <2>2. 0 \in 0 .. LevelTop
    BY VfdAssumption
  <2>3. r \in Step(top) /\ SameText(q, r) /\ Sound(q)
    BY <2>1, <2>2, ZenonT(60) DEF Good, Step, Decoder, SameText
  <2>4. MeterOff(p) = r
    BY Zenon DEF MeterOff, q
  <2> HIDE DEF r
  <2>5. QED
    BY <2>3, <2>4, SameSound DEF Good
<1>4. /\ MeterSetup(p, 1, p.d.metering, TRUE) \in Good(top)
      /\ MeterSetup(p, 2, p.d.metering, TRUE) \in Good(top)
      /\ MeterSetup(p, 3, p.d.metering, TRUE) \in Good(top)
      /\ MeterSetup(p, 0, TRUE, TRUE) \in Good(top)
      /\ MeterSetup(p, 0, p.d.metering, FALSE) \in Good(top)
  <2>1. 0 \in 0 .. 3 /\ 1 \in 0 .. 3 /\ 2 \in 0 .. 3 /\ 3 \in 0 .. 3
    OBVIOUS
  <2>2. QED
    BY <1>1, <1>2, <2>1, TRUE \in BOOLEAN, FALSE \in BOOLEAN, Zenon
<1>5. QED
  BY <1>3, <1>4 DEF SetupStep

LEMMA HoldGood ==
    ASSUME NEW top \in Tops, NEW p \in Good(top), NEW v \in DisplayByte
    PROVE  HoldStep(p, v) \in Good(top)
<1>1. [p EXCEPT !.d.pending = v] \in Good(top)
  <2>1. v \in Nat \cup {None}
    BY DEF DisplayByte
  <2>2. QED
    BY <2>1, PendingGood, Zenon
<1>2. HoldStep(p, v) \in {p, [p EXCEPT !.d.pending = v]}
  BY Zenon DEF HoldStep
<1>3. CASE HoldStep(p, v) = p
  BY <1>3, Zenon
<1>4. CASE HoldStep(p, v) = [p EXCEPT !.d.pending = v]
  BY <1>1, <1>4, Zenon
<1>5. QED
  BY <1>2, <1>3, <1>4, Zenon

\* Both commands of the marker take the point off the cell they write.
LEMMA MarkerGood ==
    ASSUME NEW top \in Tops, NEW p \in Good(top), NEW v \in DisplayByte,
           p.d.last \in 1 .. Cells
    PROVE  MarkerStep(p, v) \in Good(top)
<1> DEFINE at == p.d.last - 1
           old == p.d.marker
           moved == old # None /\ old # at /\ p.d.cells[old] = "mark"
           bare == [p.d.cells EXCEPT ![at] = UnderMarker(p, at)]
           marked == [i \in Cell |-> IF i = at THEN "mark"
                                     ELSE IF moved /\ i = old THEN UnderMarker(p, i)
                                     ELSE p.d.cells[i]]
           taken == {at} \cup IF moved THEN {old} ELSE {}
           bareDots == p.d.dots \ {at}
           markedDots == p.d.dots \ taken
           without == IF old = at THEN None ELSE old
           q == WithText(p, bare, bareDots)
           r == WithText(p, marked, markedDots)
<1>1. /\ p.d.cells \in [Cell -> Char] /\ p.d.dots \in SUBSET Cell /\ old \in Place
      /\ \A i \in p.d.dots : p.d.cells[i] = "digit"
  BY FieldOfStep DEF Decoder, Good, Sound
<1>2. at \in Cell
  <2>1. \A n \in 1 .. Cells : n - 1 \in Cell
    BY TopsNumbers DEF Cell
  <2>2. QED
    BY <2>1, Zenon
<1>3. \A i : UnderMarker(p, i) \in Char
  BY DEF UnderMarker, Char
<1>4. q \in Good(top)
  <2>1. bare \in [Cell -> Char] /\ bareDots \in SUBSET Cell
    BY <1>1, <1>2, <1>3
  <2>2. \A i \in bareDots : bare[i] = "digit"
    BY <1>1, <1>2
  <2> HIDE DEF bare, bareDots
  <2>3. QED
    BY <2>1, <2>2, WithTextGood
<1>5. r \in Good(top)
  <2> HIDE DEF at, old, moved
  <2>1. marked \in [Cell -> Char]
    BY <1>1, <1>3 DEF Char
  <2>2. markedDots \in SUBSET Cell
    BY <1>1
  <2>3. \A i \in markedDots : marked[i] = "digit"
    BY <1>1
  <2> HIDE DEF marked, markedDots
  <2>4. QED
    BY <2>1, <2>2, <2>3, WithTextGood
<1>6. without \in Place
  BY <1>1 DEF Place
<1>7. at \in Place
  BY <1>2 DEF Place
<1>8. MarkerStep(p, v) = IF v = 94 THEN [q EXCEPT !.d.marker = without]
                         ELSE [r EXCEPT !.d.marker = at]
  BY Zenon DEF MarkerStep
<1> HIDE DEF q, r, without, at
<1>9. [q EXCEPT !.d.marker = without] \in Good(top) /\ [r EXCEPT !.d.marker = at] \in Good(top)
  BY <1>4, <1>5, <1>6, <1>7, MarkedGood
<1>10. QED
  BY <1>8, <1>9, Zenon

LEMMA FreshField == NoField \in Field(Cells - 1)
<1>1. /\ 0 \in 0 .. Cells - 1 /\ None \in Place /\ None \in Ends /\ {} \in SUBSET Cell
      /\ 0 \in 0 .. 6 /\ TRUE \in BOOLEAN /\ FALSE \in BOOLEAN
  BY Cursors
<1>2. QED
  BY <1>1, Zenon DEF NoField, Field

LEMMA ClearGood ==
    ASSUME NEW p \in Good(Cells - 1)
    PROVE  Clear(p) \in Good(Cells - 1)
<1> DEFINE top == Cells - 1
           q == IF p.d.dirty THEN Publish(p) ELSE p
           empty == [i \in Cell |-> "blank"]
           r == WithField(WithText(q, empty, {}), NoField)
<1>1. top \in Tops
  BY Zenon DEF Tops
<1>2. NoField \in Field(top)
  BY FreshField
<1> HIDE DEF top
<1>3. p \in Good(top)
  BY DEF top
<1>4. q \in Good(top)
  BY <1>1, <1>3, PublishGood, Zenon
<1>5. empty \in [Cell -> Char]
  BY DEF Char
<1>6. Clear(p) = [r EXCEPT !.d.marker = None]
  BY Zenon DEF Clear
<1> HIDE DEF q, empty
<1>7. WithText(q, empty, {}) \in Good(top)
  BY <1>4, <1>5, WithTextGood
<1>8. r \in Good(top)
  BY <1>2, <1>7, WithFieldGood
<1> HIDE DEF r
<1>9. [r EXCEPT !.d.marker = None] \in Good(top)
  BY <1>8, MarkedGood, Cursors
<1>10. QED
  BY <1>6, <1>9 DEF top

\* An indicator that begins to flash is switched on with it.
LEMMA IndicatorGood ==
    ASSUME NEW top, NEW p \in Good(top), NEW v \in DisplayByte, p.d.indicator # None
    PROVE  IndicatorStep(p, v) \in Good(top)
<1> DEFINE bank == (p.d.indicator - 116) \div 3
           op == (p.d.indicator - 116) % 3
           bit == v % 16
           off == IF bank = 0 THEN op = 0 ELSE op = 1
           steady == IF bank = 0 THEN op = 1 ELSE op = 0
           lit == IF off THEN p.d.on[bank] \ {bit} ELSE p.d.on[bank] \cup {bit}
           flashing == IF off \/ steady THEN p.d.flash[bank] \ {bit}
                       ELSE p.d.flash[bank] \cup {bit}
           onLamps == [p.d.on EXCEPT ![bank] = lit]
           flashLamps == [p.d.flash EXCEPT ![bank] = flashing]
           q == [p EXCEPT !.d.on = onLamps, !.d.flash = flashLamps, !.d.indicator = None]
<1>1. /\ p.d.on \in Lamps /\ p.d.flash \in Lamps /\ p.d.indicator \in 116 .. 124
      /\ \A b \in 0 .. 2 : p.d.flash[b] \subseteq p.d.on[b]
  <2>1. p.d \in Decoder(top) /\ Sound(p)
    BY FieldOfStep, Zenon DEF Good
  <2>2. p.d.on \in Lamps /\ p.d.flash \in Lamps /\ p.d.indicator \in 116 .. 124
    BY <2>1 DEF Decoder
  <2>3. QED
    BY <2>1, <2>2, Zenon DEF Sound
<1>2. bank \in 0 .. 2 /\ bit \in Int
  BY <1>1 DEF DisplayByte
<1> HIDE DEF bank, bit, op
<1>3. /\ lit \in SUBSET Int /\ flashing \in SUBSET Int
      /\ flashing \subseteq lit
  BY <1>1, <1>2 DEF Lamps
<1>4. IndicatorStep(p, v) = q
  BY Zenon DEF IndicatorStep, bank, bit, op
<1> HIDE DEF lit, flashing
<1>5. onLamps \in Lamps /\ flashLamps \in Lamps
  BY <1>1, <1>2, <1>3 DEF Lamps
<1>6. \A b \in 0 .. 2 : flashLamps[b] \subseteq onLamps[b]
  BY <1>1, <1>2, <1>3 DEF Lamps
<1> HIDE DEF onLamps, flashLamps
<1>7. p \in Step(top) /\ Sound(p)
  BY DEF Good
<1>8. /\ q \in Step(top) /\ q.page = p.page /\ q.d.cells = p.d.cells /\ q.d.dots = p.d.dots
      /\ q.d.on = onLamps /\ q.d.flash = flashLamps /\ q.d.dirty = p.d.dirty
  BY <1>5, <1>7 DEF Step, Decoder
<1> HIDE DEF q
<1>9. Sound(q)
  BY <1>6, <1>7, <1>8 DEF Sound
<1>10. QED
  BY <1>4, <1>8, <1>9 DEF Good

LEMMA BeginGood ==
    ASSUME NEW p \in Good(Cells - 1)
    PROVE  BeginField(p) \in Good(Cells - 1)
<1> DEFINE f == p.d.f
           e == IF f.edit = None THEN f.cursor ELSE f.edit
           segments == IF f.positioned THEN {e} ELSE {}
           cursor == f.cursor
           g == [f EXCEPT !.start = cursor, !.end = cursor,
                          !.active = TRUE, !.width = FALSE, !.known = FALSE,
                          !.full = FALSE, !.edit = e, !.positioned = FALSE,
                          !.segments = segments]
<1>1. f \in Field(Cells - 1)
  BY FieldOfStep
<1>2. cursor \in Cell /\ f.edit \in Place
  BY <1>1, Cursors DEF Field
<1>3. e \in Cell
  BY <1>2 DEF Place
<1>4. segments \in SUBSET Cell
  BY <1>3
<1>5. cursor \in Place /\ cursor \in Ends /\ e \in Place
  BY <1>2, <1>3, Cursors
<1>6. BeginField(p) = WithField(p, g)
  BY Zenon DEF BeginField
<1> HIDE DEF cursor, e, segments
<1>7. g \in Field(Cells - 1)
  BY <1>1, <1>4, <1>5, TRUE \in BOOLEAN, FALSE \in BOOLEAN, Zenon DEF Field
<1> HIDE DEF g
<1>8. QED
  BY <1>6, <1>7, WithFieldGood

LEMMA GoodWider == Good(Cells - 1) \subseteq Good(Cells)
<1> SUFFICES ASSUME NEW p \in Good(Cells - 1)
             PROVE  p \in Good(Cells)
  OBVIOUS
<1>1. p.d.f \in Field(Cells - 1)
  BY FieldOfStep
<1>2. p.d.f \in Field(Cells)
  <2>1. p.d.f.cursor \in 0 .. Cells
    BY <1>1, Cursors DEF Field
  <2>2. QED
    BY <1>1, <2>1 DEF Field
<1>3. p.d \in Decoder(Cells)
  BY <1>2, FieldOfStep DEF Decoder
<1>4. p \in Step(Cells) /\ Sound(p)
  BY <1>3 DEF Good, Step
<1>5. QED
  BY <1>4 DEF Good

\* A point goes to a digit, and no point stays where a character is typed.
LEMMA TypeGood ==
    ASSUME NEW p \in Good(Cells - 1), NEW char \in Char, NEW dotted \in BOOLEAN,
           dotted => char = "digit"
    PROVE  Type(p, char, dotted) \in Good(Cells)
<1> DEFINE at == p.d.f.cursor
           cells == [p.d.cells EXCEPT ![at] = char]
           dots == IF dotted THEN p.d.dots \cup {at} ELSE p.d.dots \ {at}
           q == WithText(p, cells, dots)
           f == Advanced(p.d.f)
<1>1. /\ p.d.cells \in [Cell -> Char] /\ p.d.dots \in SUBSET Cell
      /\ \A i \in p.d.dots : p.d.cells[i] = "digit"
      /\ p.d.f \in Field(Cells - 1)
  BY FieldOfStep DEF Decoder, Good, Sound
<1>2. at \in Cell
  BY <1>1, Cursors DEF Field
<1>3. cells \in [Cell -> Char]
  BY <1>1, <1>2
<1>4. dots \in SUBSET Cell
  BY <1>1, <1>2
<1>5. \A i \in dots : cells[i] = "digit"
  BY <1>1, <1>2
<1>6. Type(p, char, dotted) = WithField(q, f)
  BY Zenon DEF Type
<1>7. f \in Field(Cells)
  BY <1>1, AdvancedField
<1>8. p \in Good(Cells)
  BY GoodWider
<1> HIDE DEF cells, dots, f
<1>9. q \in Good(Cells)
  BY <1>3, <1>4, <1>5, <1>8, WithTextGood
<1> HIDE DEF q
<1>10. QED
  BY <1>6, <1>7, <1>9, WithFieldGood

LEMMA IndicatorSetGood ==
    ASSUME NEW top, NEW p \in Good(top), NEW n \in (116 .. 124) \cup {None}
    PROVE  [p EXCEPT !.d.indicator = n] \in Good(top)
<1> DEFINE q == [p EXCEPT !.d.indicator = n]
<1>1. q \in Step(top) /\ SameText(p, q) /\ Sound(p)
  BY DEF Good, Step, Decoder, SameText
<1> HIDE DEF q
<1>2. QED
  BY <1>1, SameSound DEF q, Good

\* What the handler does with the fields that have no text, by name.
LEMMA FieldFlags ==
    ASSUME NEW top, NEW f \in Field(top), NEW v \in Cell
    PROVE  /\ [f EXCEPT !.textMode = FALSE] \in Field(top)
           /\ [f EXCEPT !.textMode = TRUE] \in Field(top)
           /\ [f EXCEPT !.noncell = FALSE] \in Field(top)
           /\ [f EXCEPT !.noncell = TRUE] \in Field(top)
           /\ [f EXCEPT !.command = 1, !.active = FALSE, !.width = FALSE] \in Field(top)
           /\ [f EXCEPT !.width = TRUE] \in Field(top)
           /\ [f EXCEPT !.active = FALSE, !.width = FALSE] \in Field(top)
           /\ [f EXCEPT !.address = v] \in Field(top)
  BY 1 \in 0 .. 6, TRUE \in BOOLEAN, FALSE \in BOOLEAN, Zenon DEF Field, Place

LEMMA DispatchGood ==
    ASSUME NEW p \in Good(Cells - 1), NEW v \in DisplayByte
    PROVE  Dispatch(p, v) \in Good(Cells)
<1> DEFINE top == Cells - 1
           f == p.d.f
           last == p.d.last
           full == v = 3
           Fields(g) == WithField(p, g) \in Good(Cells)
<1>1. NoField \in Field(top)
  BY FreshField
<1>2. f \in Field(top) /\ p.d \in Decoder(top)
  BY FieldOfStep
<1>3. ASSUME NEW g \in Field(top)
      PROVE  Fields(g)
  BY <1>3, WithFieldGood, GoodWider
<1>4. p \in Good(Cells)
  BY GoodWider
<1>5. [WithField(p, NoField) EXCEPT !.d.indicator = None] \in Good(Cells)
  BY <1>1, <1>3, IndicatorSetGood
<1>6. v \in 116 .. 124 => [p EXCEPT !.d.indicator = v] \in Good(Cells)
  BY <1>4, IndicatorSetGood
<1>7. Clear(p) \in Good(Cells) /\ BeginField(p) \in Good(Cells)
  BY ClearGood, BeginGood, GoodWider
<1>8. p.d.indicator # None => IndicatorStep(p, v) \in Good(Cells)
  BY IndicatorGood, GoodWider
<1>9. last \in 1 .. Cells => MarkerStep(p, v) \in Good(Cells)
  BY MarkerGood, GoodWider DEF Tops
<1>10. Type(p, "digit", TRUE) \in Good(Cells) /\ Type(p, CharOf(v), FALSE) \in Good(Cells)
  <2>1. "digit" \in Char /\ CharOf(v) \in Char
    BY DEF Char, CharOf
  <2>2. QED
    BY <2>1, TypeGood, TRUE \in BOOLEAN, FALSE \in BOOLEAN, Zenon
<1>11. [f EXCEPT !.width = FALSE, !.known = FALSE, !.full = full, !.segments = {}] \in Field(top)
  <2>1. full \in BOOLEAN /\ FALSE \in BOOLEAN /\ {} \in SUBSET Cell
    OBVIOUS
  <2> HIDE DEF full
  <2>2. QED
    BY <1>2, <2>1, Zenon DEF Field
<1>12. /\ Fields([f EXCEPT !.textMode = FALSE])
       /\ Fields([f EXCEPT !.textMode = TRUE])
       /\ Fields([f EXCEPT !.noncell = FALSE])
       /\ Fields([f EXCEPT !.noncell = TRUE])
       /\ Fields([f EXCEPT !.command = 1, !.active = FALSE, !.width = FALSE])
       /\ Fields([f EXCEPT !.width = TRUE])
       /\ Fields([f EXCEPT !.active = FALSE, !.width = FALSE])
       /\ Fields([f EXCEPT !.width = FALSE, !.known = FALSE, !.full = full, !.segments = {}])
  <2>1. 0 \in Cell
    BY Cursors
  <2> HIDE DEF Fields
  <2>2. QED
    BY <1>2, <1>3, <1>11, <2>1, FieldFlags, Zenon
<1>13. v < Cells => Fields([f EXCEPT !.address = v])
  <2>1. SUFFICES ASSUME v < Cells
                 PROVE  Fields([f EXCEPT !.address = v])
    OBVIOUS
  <2>2. v \in Cell
    BY <2>1, TopsNumbers DEF DisplayByte, Cell
  <2> HIDE DEF Fields
  <2>3. QED
    BY <1>2, <1>3, <2>2, FieldFlags, Zenon
<1>14. QED
  BY <1>4, <1>5, <1>6, <1>7, <1>8, <1>9, <1>10, <1>12, <1>13, ZenonT(60) DEF Dispatch

LEMMA PublishLastGood ==
    ASSUME NEW p \in Good(Cells)
    PROVE  PublishStep(p) \in Good(Cells - 1)
<1>1. ASSUME NEW q \in Good(Cells)
      PROVE  Wrapped(q) \in Good(Cells - 1)
  <2> DEFINE cursor == IF q.d.f.cursor >= Cells THEN 0 ELSE q.d.f.cursor
             g == [q.d.f EXCEPT !.cursor = cursor]
             r == WithField(q, g)
  <2>1. q.d.f \in Field(Cells) /\ q \in Step(Cells) /\ Sound(q)
    BY FieldOfStep DEF Good
  <2>2. cursor \in 0 .. Cells - 1
    BY <2>1, TopsNumbers, Cursors DEF Field
  <2> HIDE DEF cursor
  <2>3. g \in Field(Cells - 1)
    BY <2>1, <2>2, Zenon DEF Field
  <2>4. Wrapped(q) = r
    BY Zenon DEF Wrapped, cursor
  <2> HIDE DEF g
  <2>5. r \in Step(Cells - 1) /\ SameText(q, r)
    BY <2>1, <2>3 DEF WithField, Step, Decoder, SameText
  <2> HIDE DEF r
  <2>6. QED
    BY <2>1, <2>4, <2>5, SameSound DEF Good
<1>2. CASE p.d.f.cursor >= Cells \/ p.complete
  <2>1. Publish(p) \in Good(Cells)
    BY PublishGood DEF Tops
  <2>2. QED
    BY <1>1, <1>2, <2>1 DEF PublishStep
<1>3. CASE ~(p.d.f.cursor >= Cells \/ p.complete)
  <2>1. p.d.f \in Field(Cells) /\ p \in Step(Cells) /\ Sound(p)
    BY FieldOfStep DEF Good
  <2>2. p.d.f.cursor \in 0 .. Cells - 1
    BY <1>3, <2>1, TopsNumbers DEF Field
  <2>3. p.d.f \in Field(Cells - 1)
    BY <2>1, <2>2 DEF Field
  <2>4. p \in Step(Cells - 1)
    BY <2>1, <2>3 DEF Step, Decoder
  <2>5. PublishStep(p) = p
    BY <1>3, Zenon DEF PublishStep
  <2>6. QED
    BY <2>1, <2>4, <2>5 DEF Good
<1>4. QED
  BY <1>2, <1>3

\* One byte leaves the decoder sound, whatever the byte is.
LEMMA HandledGood ==
    ASSUME NEW v \in DisplayByte, d \in Decoder(Cells - 1), shown \in Pages,
           Sound([d |-> d, page |-> shown, consumed |-> FALSE, complete |-> FALSE,
                  setupByte |-> FALSE])
    PROVE  Handled(v) \in Good(Cells - 1)
<1> DEFINE top == Cells - 1
           begin == [d |-> d, page |-> shown, consumed |-> FALSE, complete |-> FALSE,
                     setupByte |-> FALSE]
           step1 == LevelStep(AddressStep(CommandStep(begin, v), v), v)
           step2 == HoldStep(SetupStep(step1, v), v)
           step3 == PublishStep(Dispatch(step2, v))
           q == [step3 EXCEPT !.d.last = v]
<1>1. top \in Tops
  BY Zenon DEF Tops
<1>2. begin \in Good(top)
  <2>1. begin \in Step(top)
    BY FALSE \in BOOLEAN, Zenon DEF Step
  <2>2. QED
    BY <2>1, Zenon DEF Good
<1> HIDE DEF begin, top
<1>3. step1 \in Good(top)
  BY <1>1, <1>2, CommandGood, AddressGood, LevelStepGood
<1> HIDE DEF step1
<1>4. step2 \in Good(top)
  BY <1>1, <1>3, SetupGood, HoldGood
<1> HIDE DEF step2
<1>5. step3 \in Good(top)
  BY <1>4, DispatchGood, PublishLastGood DEF top
<1> HIDE DEF step3
<1>6. step3 \in Step(top) /\ Sound(step3)
  BY <1>5 DEF Good
<1>7. q \in Step(top) /\ SameText(step3, q)
  BY <1>6 DEF Step, Decoder, SameText
<1>8. Handled(v) = q
  BY Zenon DEF Handled, step3, step2, step1, begin
<1> HIDE DEF q
<1>9. QED
  BY <1>6, <1>7, <1>8, SameSound DEF Good, top

VfdInv ==
    /\ d \in Decoder(Cells - 1)
    /\ shown \in Pages
    /\ coming \in [first : Seq(DisplayByte), more : Nat]
    /\ TextIsPublished

\* The editor has the text of the EPS or is going to get it, points are at
\* digits and a lamp that flashes is on, whatever bytes the EPS sends, for any
\* length of the display (duart_write(), plugin_capture_display()).
THEOREM EditorHasTheText == VfdSpec => []TextIsPublished
<1>1. VfdInit => VfdInv
  <2> SUFFICES ASSUME VfdInit
               PROVE  VfdInv
    OBVIOUS
  <2>1. Fresh \in Decoder(Cells - 1)
    <3> DEFINE cells == [i \in Cell |-> "blank"]
               lamps == [b \in 0 .. 2 |-> {}]
    <3>1. cells \in [Cell -> Char] /\ lamps \in Lamps
      BY DEF Char, Lamps
    <3>2. /\ {} \in SUBSET Cell /\ None \in Place /\ None \in (116 .. 124) \cup {None}
          /\ None \in Nat \cup {None}
      BY Cursors
    <3>3. 0 \in 0 .. 3 /\ 0 \in 0 .. LevelTop /\ 0 \in DisplayByte
      BY VfdAssumption DEF DisplayByte
    <3> HIDE DEF cells, lamps
    <3>4. [cells |-> cells, dots |-> {}, f |-> NoField,
           indicator |-> None, on |-> lamps, flash |-> lamps,
           metering |-> FALSE, setup |-> 0, pending |-> None, level |-> 0,
           marker |-> None, last |-> 0, dirty |-> FALSE] \in Decoder(Cells - 1)
      BY <3>1, <3>2, <3>3, FreshField, FALSE \in BOOLEAN, Zenon DEF Decoder
    <3>5. QED
      BY <3>4, Zenon DEF Fresh, cells, lamps
  <2>2. /\ Page(Fresh) \in Pages
        /\ Page(Fresh).cells = Fresh.cells /\ Page(Fresh).dots = Fresh.dots
    BY <2>1, PageOfDecoder DEF Tops
  <2>3. coming \in [first : Seq(DisplayByte), more : Nat]
    BY VfdAssumption DEF VfdInit, DisplayByte
  <2>4. Fresh.dots = {} /\ Fresh.flash = [b \in 0 .. 2 |-> {}]
    BY DEF Fresh
  <2>5. QED
    BY <2>1, <2>2, <2>3, <2>4 DEF VfdInit, VfdInv, TextIsPublished, PointsAtDigits, FlashingIsOn
<1>2. VfdInv /\ [VfdNext]_vfdVars => VfdInv'
  <2> SUFFICES ASSUME VfdInv, [VfdNext]_vfdVars
               PROVE  VfdInv'
    OBVIOUS
  <2>1. ASSUME NEW v \in DisplayByte, ByteFromEps(v)
        PROVE  /\ d' \in Decoder(Cells - 1) /\ shown' \in Pages /\ TextIsPublished'
    <3> DEFINE begin == [d |-> d, page |-> shown, consumed |-> FALSE, complete |-> FALSE,
                         setupByte |-> FALSE]
               p == Handled(v)
    <3>1. begin.d = d /\ begin.page = shown
      OBVIOUS
    <3>2. Sound(begin)
      <4> HIDE DEF begin
      <4>1. QED
        BY <3>1 DEF Sound, VfdInv, TextIsPublished, PointsAtDigits, FlashingIsOn
    <3>3. p \in Good(Cells - 1)
      BY <3>2, HandledGood DEF VfdInv
    <3>4. d' = p.d /\ shown' = p.page
      BY <2>1, Zenon DEF ByteFromEps
    <3> HIDE DEF p
    <3>5. d' \in Decoder(Cells - 1) /\ shown' \in Pages /\ Sound(p)
      BY <3>3, <3>4 DEF Good, Step
    <3>6. d'.dirty \in BOOLEAN
      BY <3>5 DEF Decoder
    <3>7. TextIsPublished'
      BY <3>4, <3>5, <3>6 DEF Sound, TextIsPublished, PointsAtDigits, FlashingIsOn
    <3>8. QED
      BY <3>5, <3>7
  <2>2. CASE coming.first # <<>> /\ ByteFromEps(Head(coming.first))
    <3>1. Head(coming.first) \in DisplayByte
      BY <2>2 DEF VfdInv
    <3>2. coming' \in [first : Seq(DisplayByte), more : Nat]
      BY <2>2, SMTT(30) DEF VfdInv, ByteFromEps
    <3>3. d' \in Decoder(Cells - 1) /\ shown' \in Pages /\ TextIsPublished'
      BY <2>1, <2>2, <3>1, Zenon
    <3>4. QED
      BY <3>2, <3>3, Zenon DEF VfdInv
  <2>3. CASE coming.first = <<>> /\ coming.more > 0 /\ \E v \in DisplayBytes : ByteFromEps(v)
    <3>1. PICK v \in DisplayBytes : ByteFromEps(v)
      BY <2>3
    <3>2. v \in DisplayByte
      BY VfdAssumption DEF DisplayByte
    <3>3. coming' \in [first : Seq(DisplayByte), more : Nat]
      BY <2>3, <3>1 DEF VfdInv, ByteFromEps
    <3>4. d' \in Decoder(Cells - 1) /\ shown' \in Pages /\ TextIsPublished'
      BY <2>1, <3>1, <3>2, Zenon
    <3>5. QED
      BY <3>3, <3>4, Zenon DEF VfdInv
  <2>4. CASE Idle
    <3> DEFINE page == Page(d)
    <3>1. page \in Pages /\ page.cells = d.cells /\ page.dots = d.dots
      BY PageOfDecoder DEF VfdInv, Tops
    <3>2. shown' = page /\ d' = [d EXCEPT !.dirty = FALSE] /\ coming' = coming
      BY <2>4 DEF Idle
    <3> HIDE DEF page
    <3>3. /\ d' \in Decoder(Cells - 1) /\ d'.cells = d.cells /\ d'.dots = d.dots
          /\ d'.on = d.on /\ d'.flash = d.flash
      <4>1. d \in Decoder(Cells - 1)
        BY DEF VfdInv
      <4>2. QED
        BY <3>2, <4>1, ZenonT(60) DEF Decoder
    <3>4. QED
      BY <3>1, <3>2, <3>3 DEF VfdInv, TextIsPublished, PointsAtDigits, FlashingIsOn
  <2>5. CASE UNCHANGED vfdVars
    BY <2>5 DEF vfdVars, VfdInv, TextIsPublished, PointsAtDigits, FlashingIsOn
  <2>6. QED
    BY <2>2, <2>3, <2>4, <2>5 DEF VfdNext
<1>3. QED
  BY <1>1, <1>2, PTL DEF VfdSpec, VfdInv

-------------------------------------------------------------------------------
(* What the EPS records is what the user plays: a request of the browser   *)
(* panel does not disturb a recording it did not ask for.                  *)

Code == {Ready, Other, "enter"}

\* Every nonempty set of natural numbers has a least element.
LEMMA Least ==
    ASSUME NEW S \in SUBSET Nat, S # {}
    PROVE  \E n \in S : \A m \in S : n <= m
<1>1. PICK n \in S : \A m \in S : ~(<<m, n>> \in OpToRel(<, Nat))
  BY NatLessThanWellFounded, WFMin, Zenon
<1>2. ASSUME NEW m \in S
      PROVE  n <= m
  <2>1. ~(m < n)
    BY <1>1, Zenon DEF OpToRel
  <2>2. QED
    BY <2>1
<1>3. QED
  BY <1>2

\* What the loop of panel_drop_pending_ready() has kept of the first n bytes.
KeptStep(bytes, g, n) ==
    IF n = 0 THEN <<>>
    ELSE IF bytes[n] = Ready THEN g[n - 1] ELSE Append(g[n - 1], bytes[n])

KeptUpTo(bytes, n, g) == g = [i \in 0 .. n |-> KeptStep(bytes, g, i)]

LEMMA KeptExists ==
    ASSUME NEW bytes, NEW n \in Nat
    PROVE  \E g : KeptUpTo(bytes, n, g)
<1> DEFINE Lacking == {m \in Nat : ~ \E g : KeptUpTo(bytes, m, g)}
<1> SUFFICES ASSUME Lacking # {}
             PROVE  FALSE
  OBVIOUS
<1>1. PICK m \in Lacking : \A k \in Lacking : m <= k
  BY Least
<1>2. CASE m = 0
  <2> DEFINE g == [i \in 0 .. 0 |-> <<>>]
  <2>1. g = [i \in 0 .. 0 |-> KeptStep(bytes, g, i)]
    BY DEF KeptStep
  <2>2. QED
    BY <1>2, <2>1 DEF KeptUpTo
<1>3. CASE m # 0
  <2>1. m - 1 \in Nat /\ m - 1 \notin Lacking
    BY <1>1, <1>3
  <2>2. PICK g : g = [i \in 0 .. m - 1 |-> KeptStep(bytes, g, i)]
    BY <2>1 DEF KeptUpTo
  <2> DEFINE h == [i \in 0 .. m |-> IF i = m THEN KeptStep(bytes, g, m) ELSE g[i]]
  <2>3. ASSUME NEW i \in 0 .. m
        PROVE  h[i] = KeptStep(bytes, h, i)
    <3>1. CASE i = m
      BY <1>3, <3>1 DEF KeptStep
    <3>2. CASE i # m /\ i # 0
      <4>1. h[i] = g[i] /\ h[i - 1] = g[i - 1] /\ i \in 0 .. m - 1
        BY <3>2
      <4>2. g[i] = KeptStep(bytes, g, i)
        BY <2>2, <4>1
      <4>3. QED
        BY <3>2, <4>1, <4>2 DEF KeptStep
    <3>3. CASE i # m /\ i = 0
      <4>1. h[0] = g[0] /\ 0 \in 0 .. m - 1
        BY <3>3
      <4>2. g[0] = KeptStep(bytes, g, 0)
        BY <2>2, <4>1
      <4>3. QED
        BY <3>3, <4>1, <4>2 DEF KeptStep
    <3>4. QED
      BY <3>1, <3>2, <3>3
  <2>4. h = [i \in 0 .. m |-> KeptStep(bytes, h, i)]
    BY <2>3
  <2> HIDE DEF h
  <2>5. KeptUpTo(bytes, m, h)
    BY <2>4 DEF KeptUpTo
  <2>6. QED
    BY <2>5
<1>4. QED
  BY <1>2, <1>3

NoReady(bytes) == \A i \in 1 .. Len(bytes) : bytes[i] # Ready

\* The loop keeps a sequence without a readiness byte, and no longer one.
LEMMA DroppedHasNone ==
    ASSUME NEW bytes \in Seq(Code)
    PROVE  /\ DroppedReady(bytes) \in Seq(Code)
           /\ NoReady(DroppedReady(bytes))
           /\ Len(DroppedReady(bytes)) <= Len(bytes)
<1> DEFINE kept == CHOOSE g : KeptUpTo(bytes, Len(bytes), g)
           Clean(n) == /\ kept[n] \in Seq(Code)
                      /\ NoReady(kept[n])
                      /\ Len(kept[n]) <= n
           Bad == {n \in 0 .. Len(bytes) : ~Clean(n)}
<1>1. Len(bytes) \in Nat
  BY LenProperties
<1>2. KeptUpTo(bytes, Len(bytes), kept)
  BY <1>1, KeptExists
<1>3. DroppedReady(bytes) = kept[Len(bytes)]
  BY DEF DroppedReady, KeptUpTo, KeptStep
<1> HIDE DEF kept
<1>4. ASSUME NEW n \in 0 .. Len(bytes)
      PROVE  kept[n] = KeptStep(bytes, kept, n)
  BY <1>2 DEF KeptUpTo
<1>5. Bad = {}
  <2> SUFFICES ASSUME Bad # {}
               PROVE  FALSE
    OBVIOUS
  <2>0. Bad \in SUBSET Nat
    BY <1>1
  <2>1. PICK n \in Bad : \A k \in Bad : n <= k
    <3> HIDE DEF Bad
    <3>1. QED
      BY <2>0, Least, Zenon
  <2>2. n # 0
    <3>1. kept[0] = <<>>
      BY <1>1, <1>4 DEF KeptStep
    <3>2. Clean(0)
      BY <3>1, EmptySeq DEF NoReady
    <3>3. QED
      BY <2>1, <3>2
  <2>3. n \in 1 .. Len(bytes) /\ n - 1 \in 0 .. Len(bytes) /\ n - 1 \notin Bad
    BY <1>1, <2>1, <2>2
  <2>4. Clean(n - 1)
    BY <2>3
  <2> DEFINE s == kept[n - 1]
  <2>5. s \in Seq(Code) /\ NoReady(s) /\ Len(s) <= n - 1 /\ Len(s) \in Nat
    BY <2>4, LenProperties
  <2>6. bytes[n] \in Code
    BY <2>3, ElementOfSeq
  <2>7. kept[n] = IF bytes[n] = Ready THEN s ELSE Append(s, bytes[n])
    BY <1>4, <2>2, <2>3 DEF KeptStep
  <2> HIDE DEF s
  <2>8. CASE bytes[n] = Ready
    <3>1. kept[n] = s /\ Len(s) <= n
      BY <2>3, <2>5, <2>7, <2>8
    <3>2. QED
      BY <2>1, <2>5, <3>1
  <2>9. CASE bytes[n] # Ready
    <3>1. kept[n] = Append(s, bytes[n])
      BY <2>7, <2>9
    <3>2. /\ Append(s, bytes[n]) \in Seq(Code)
          /\ Len(Append(s, bytes[n])) = Len(s) + 1
          /\ \A i \in 1 .. Len(s) : Append(s, bytes[n])[i] = s[i]
          /\ Append(s, bytes[n])[Len(s) + 1] = bytes[n]
      BY <2>5, <2>6, AppendProperties
    <3>3. NoReady(Append(s, bytes[n]))
      BY <2>5, <2>9, <3>2 DEF NoReady
    <3>4. Len(Append(s, bytes[n])) <= n
      BY <2>3, <2>5, <3>2
    <3>5. QED
      BY <2>1, <3>1, <3>2, <3>3, <3>4
  <2>10. QED
    BY <2>8, <2>9
<1>6. QED
  <2>1. Len(bytes) \in 0 .. Len(bytes)
    BY <1>1
  <2>2. Clean(Len(bytes))
    BY <1>5, <2>1
  <2>3. QED
    BY <1>3, <2>2

Line(size) == {s \in Seq(Code) : Len(s) <= size}

LEMMA CodesApart == Ready # Other /\ Ready # "enter" /\ Other # "enter"
  BY DEF Ready, Other

LEMMA PressIsCode == \A key : Press(key) \in Code /\ Press(key) # Ready
  BY CodesApart DEF Press, Code

LEMMA ScheduledKeeps ==
    ASSUME NEW w \in Line(WireSize), NEW b \in Code
    PROVE  /\ Scheduled(w, b) \in Line(WireSize)
           /\ NoReady(w) /\ b # Ready => NoReady(Scheduled(w, b))
<1>1. w \in Seq(Code) /\ Len(w) <= WireSize /\ Len(w) \in Nat
  BY LenProperties DEF Line
<1>2. CASE Len(w) = WireSize
  BY <1>2 DEF Scheduled
<1>3. CASE Len(w) # WireSize
  <2>1. /\ Append(w, b) \in Seq(Code) /\ Len(Append(w, b)) = Len(w) + 1
        /\ \A i \in 1 .. Len(w) : Append(w, b)[i] = w[i]
        /\ Append(w, b)[Len(w) + 1] = b
    BY <1>1, AppendProperties
  <2>2. Len(Append(w, b)) <= WireSize
    BY <1>1, <1>3, <2>1, LivePanelAssumption
  <2>3. NoReady(w) /\ b # Ready => NoReady(Append(w, b))
    BY <1>1, <2>1 DEF NoReady
  <2>4. Scheduled(w, b) = Append(w, b)
    BY <1>3 DEF Scheduled
  <2>5. QED
    BY <2>1, <2>2, <2>3, <2>4 DEF Line
<1>4. QED
  BY <1>2, <1>3

LEMMA PairKeeps ==
    ASSUME NEW w \in Line(WireSize), NEW b \in Code, NEW c \in Code
    PROVE  /\ Pair(w, b, c) \in Line(WireSize)
           /\ NoReady(w) /\ b # Ready /\ c # Ready => NoReady(Pair(w, b, c))
<1> DEFINE one == Scheduled(w, b)
<1>1. one \in Line(WireSize) /\ (NoReady(w) /\ b # Ready => NoReady(one))
  BY ScheduledKeeps
<1> HIDE DEF one
<1>2. /\ Scheduled(one, c) \in Line(WireSize)
      /\ NoReady(one) /\ c # Ready => NoReady(Scheduled(one, c))
  BY <1>1, ScheduledKeeps
<1>3. QED
  BY <1>1, <1>2 DEF Pair, one

LEMMA LetGoKeeps ==
    ASSUME NEW w \in Line(WireSize)
    PROVE  LetGo(w) \in Line(WireSize)
<1>1. Other \in Code /\ Ready \in Code
  BY DEF Code
<1>2. Pair(w, Other, Other) \in Line(WireSize)
  BY <1>1, PairKeeps
<1>3. QED
  BY <1>1, <1>2, ScheduledKeeps DEF LetGo

Drains == [frames : Nat, search : 0 .. SearchBytes, burst : 0 .. FrameLimit,
           budget : 0 .. LoadPolls, periodic : BOOLEAN]

\* Nothing is armed: no byte the EPS sends and no idle line brings readiness.
Unarmed(k) == k.frames = 0 /\ k.burst = 0 /\ k.budget = 0

LEMMA LiveNumbers ==
    /\ SearchBytes \in Nat \ {0} /\ FrameLimit \in Nat \ {0} /\ LoadPolls \in Nat \ {0}
    /\ LoadFrames \in Nat \ {0} /\ WireSize \in Nat \ {0} /\ RxSize \in Nat \ {0}
    /\ \A key \in Keys : Frames[key] \in Nat
    /\ Enter \in Keys
  BY LivePanelAssumption

LEMMA ArmDisplayType ==
    ASSUME NEW k \in Drains, NEW n \in Nat
    PROVE  /\ ArmDisplay(k, n) \in Drains
           /\ ArmDisplay(k, n).frames = n /\ ArmDisplay(k, n).burst = 0
           /\ ArmDisplay(k, n).budget = k.budget
           /\ ArmDisplay(k, n).periodic = k.periodic
<1> DEFINE search == IF n > 0 THEN SearchBytes ELSE 0
<1>1. search \in 0 .. SearchBytes /\ 0 \in 0 .. FrameLimit
  BY LiveNumbers
<1>2. ArmDisplay(k, n) = [k EXCEPT !.frames = n, !.burst = 0, !.search = search]
  BY DEF ArmDisplay
<1> HIDE DEF search
<1>3. QED
  BY <1>1, <1>2 DEF Drains

LEMMA BudgetType ==
    ASSUME NEW k \in Drains, NEW n \in 0 .. LoadPolls
    PROVE  /\ [k EXCEPT !.budget = n] \in Drains
           /\ [k EXCEPT !.budget = n].budget = n
           /\ [k EXCEPT !.budget = n].periodic = k.periodic
  BY DEF Drains

LEMMA PeriodicType ==
    ASSUME NEW k \in Drains, NEW p \in BOOLEAN
    PROVE  [k EXCEPT !.periodic = p] \in Drains
  BY DEF Drains

LEMMA ArmLoadType ==
    ASSUME NEW k \in Drains
    PROVE  ArmLoad(k) \in Drains
<1>1. LoadPolls \in 0 .. LoadPolls /\ LoadFrames \in Nat
  BY LiveNumbers
<1>2. [k EXCEPT !.budget = LoadPolls] \in Drains
  BY <1>1, BudgetType
<1>3. QED
  BY <1>1, <1>2, ArmDisplayType DEF ArmLoad

LEMMA CancelLoadUnarms ==
    ASSUME NEW k \in Drains
    PROVE  /\ CancelLoad(k) \in Drains
           /\ Unarmed(CancelLoad(k))
           /\ CancelLoad(k).periodic = k.periodic
<1> DEFINE none == [k EXCEPT !.budget = 0]
<1>1. 0 \in 0 .. LoadPolls
  BY LiveNumbers
<1>2. none \in Drains /\ none.budget = 0 /\ none.periodic = k.periodic
  BY <1>1, BudgetType
<1> HIDE DEF none
<1>3. CancelLoad(k) = ArmDisplay(none, 0)
  BY DEF CancelLoad, none
<1>4. QED
  BY <1>2, <1>3, ArmDisplayType DEF Unarmed

\* A byte of the EPS arms nothing.
LEMMA ObservedType ==
    ASSUME NEW k \in Drains, NEW byte \in {"f7", "f", "request", "data"}
    PROVE  /\ Observed(k, byte).kpc \in Drains
           /\ Observed(k, byte).kpc.periodic = k.periodic
           /\ Unarmed(k) => Unarmed(Observed(k, byte).kpc) /\ ~Observed(k, byte).ready
<1> DEFINE deep == Delimited(k, byte)
<1>1. /\ k.frames \in Nat /\ k.search \in 0 .. SearchBytes /\ k.burst \in 0 .. FrameLimit
      /\ k.budget \in 0 .. LoadPolls /\ k.periodic \in BOOLEAN
  BY DEF Drains
<1>2. /\ deep \in Drains /\ deep.periodic = k.periodic /\ deep.budget = k.budget
      /\ k.frames = 0 => deep = k
  <2>1. CASE k.frames = 0
    BY <2>1 DEF Delimited
  <2>2. CASE k.frames # 0
    <3> DEFINE search == IF k.frames > 1 THEN SearchBytes ELSE 0
               burst == IF k.frames > 1 THEN FrameLimit ELSE 0
    <3>1. /\ search \in 0 .. SearchBytes /\ burst \in 0 .. FrameLimit
          /\ k.frames - 1 \in Nat /\ FrameLimit \in 0 .. FrameLimit
          /\ 0 \in 0 .. SearchBytes /\ 0 \in 0 .. FrameLimit
      BY <1>1, <2>2, LiveNumbers
    <3>2. \/ deep = [k EXCEPT !.frames = k.frames - 1, !.burst = 0, !.search = search]
          \/ deep = k
          \/ deep = [k EXCEPT !.frames = k.frames - 1, !.search = 0, !.burst = burst]
          \/ deep = [k EXCEPT !.burst = FrameLimit, !.search = 0]
      BY <2>2 DEF Delimited
    <3> HIDE DEF search, burst, deep
    <3>3. QED
      BY <2>2, <3>1, <3>2 DEF Drains
  <2>3. QED
    BY <2>1, <2>2
<1> HIDE DEF deep
<1>3. /\ deep.frames \in Nat /\ deep.search \in 0 .. SearchBytes /\ deep.burst \in 0 .. FrameLimit
  BY <1>2 DEF Drains
<1> DEFINE left == IF byte = "f" THEN deep.burst ELSE deep.burst - 1
           search == IF left = 0 /\ deep.frames > 0 THEN SearchBytes ELSE deep.search
<1>4. deep.burst > 0 => left \in 0 .. FrameLimit /\ search \in 0 .. SearchBytes
  BY <1>3, LiveNumbers
<1>5. deep.search > 0 => deep.search - 1 \in 0 .. SearchBytes
  BY <1>3, LiveNumbers
<1> HIDE DEF left
<1> DEFINE o == Observed(k, byte)
<1>6. \/ o.kpc = deep /\ (o.ready => deep.frames > 0)
      \/ deep.burst > 0 /\ o.kpc = [deep EXCEPT !.burst = left, !.search = search]
      \/ deep.search > 0 /\ deep.frames > 0 /\ o.kpc = [deep EXCEPT !.search = deep.search - 1]
  <2>1. CASE byte = "f7" /\ k.frames > 0
    BY <2>1 DEF Observed, deep
  <2>2. CASE ~(byte = "f7" /\ k.frames > 0) /\ deep.burst > 0
    <3>1. o.kpc = [deep EXCEPT !.burst = left,
                      !.search = IF left = 0 /\ deep.frames > 0 THEN SearchBytes ELSE @]
      BY <2>2, Zenon DEF Observed, deep, left
    <3>2. o.kpc = [deep EXCEPT !.burst = left, !.search = search]
      BY <3>1
    <3>3. QED
      BY <2>2, <3>2
  <2>3. CASE ~(byte = "f7" /\ k.frames > 0) /\ ~(deep.burst > 0)
    BY <2>3 DEF Observed, deep
  <2>4. QED
    BY <2>1, <2>2, <2>3
<1> HIDE DEF search, o
<1>7. o.kpc \in Drains /\ o.kpc.periodic = k.periodic
  BY <1>2, <1>4, <1>5, <1>6 DEF Drains
<1>8. ASSUME Unarmed(k)
      PROVE  Unarmed(o.kpc) /\ ~o.ready
  <2>1. deep = k /\ deep.burst = 0 /\ deep.frames = 0
    BY <1>2, <1>8 DEF Unarmed
  <2>2. o.kpc = deep /\ ~o.ready
    BY <1>6, <2>1
  <2>3. QED
    BY <1>8, <2>1, <2>2
<1>9. QED
  BY <1>7, <1>8 DEF o

\* While a recording runs undisturbed nothing is armed and no readiness byte
\* waits.
Undisturbed ==
    recording /\ quiet /\ ~kpc.periodic =>
        NoReady(panelWire) /\ NoReady(panelRx) /\ Unarmed(kpc)

LiveType ==
    /\ panelWire \in Line(WireSize) /\ panelRx \in Line(RxSize)
    /\ kpc \in Drains
    /\ enterPending \in BOOLEAN /\ recording \in BOOLEAN
    /\ entered \in BOOLEAN /\ quiet \in BOOLEAN

LiveInv == LiveType /\ Undisturbed

LEMMA LiveInvInit == LivePanelInit => LiveInv
<1> SUFFICES ASSUME LivePanelInit
             PROVE  LiveInv
  OBVIOUS
<1>1. /\ <<>> \in Seq(Code) /\ Len(<<>>) = 0
  BY EmptySeq
<1>2. <<>> \in Line(WireSize) /\ <<>> \in Line(RxSize)
  BY <1>1, LiveNumbers DEF Line
<1>3. 0 \in Nat /\ 0 \in 0 .. SearchBytes /\ 0 \in 0 .. FrameLimit /\ 0 \in 0 .. LoadPolls
  BY LiveNumbers
<1>4. kpc \in Drains
  BY <1>3, Zenon DEF LivePanelInit, Drains
<1>5. /\ enterPending \in BOOLEAN /\ recording \in BOOLEAN
      /\ entered \in BOOLEAN /\ quiet \in BOOLEAN /\ ~quiet
  BY Zenon DEF LivePanelInit
<1>6. panelWire = <<>> /\ panelRx = <<>>
  BY DEF LivePanelInit
<1>7. QED
  BY <1>2, <1>4, <1>5, <1>6, Zenon DEF LiveInv, LiveType, Undisturbed

\* The commands of the browser put codes on the wire and arm what they arm;
\* the recording is then not undisturbed any more.
LEMMA TouchedType ==
    ASSUME kpc \in Drains, NEW key \in Keys
    PROVE  Touched(key) \in Drains
<1> DEFINE k == [kpc EXCEPT !.periodic = FALSE]
<1>1. k \in Drains
  BY PeriodicType
<1> HIDE DEF k
<1>2. Frames[key] \in Nat
  BY LiveNumbers
<1>3. ArmDisplay(k, Frames[key]) \in Drains
  BY <1>1, <1>2, ArmDisplayType
<1>4. QED
  BY <1>3 DEF Touched, k

LEMMA ReleasedType ==
    ASSUME NEW k \in Drains, NEW key
    PROVE  Released(k, key) \in Drains
  BY ArmLoadType DEF Released

LEMMA ClickStep ==
    ASSUME LiveInv, NEW key \in Keys, NEW sampling \in BOOLEAN, Click(key, sampling)
    PROVE  LiveInv'
<1> DEFINE pressed == Pair(panelWire, Press(key), Other)
           touched == Touched(key)
<1>1. pressed \in Line(WireSize)
  BY PairKeeps, PressIsCode DEF LiveInv, LiveType, Code
<1>2. touched \in Drains
  BY TouchedType DEF LiveInv, LiveType
<1> HIDE DEF pressed, touched
<1>3. panelWire' = LetGo(pressed) /\ kpc' = Released(touched, key)
  BY Zenon DEF Click, pressed, touched
<1>4. panelWire' \in Line(WireSize) /\ kpc' \in Drains
  BY <1>1, <1>2, <1>3, LetGoKeeps, ReleasedType
<1>5. quiet' = FALSE /\ panelRx' = panelRx /\ entered' = entered
  BY Zenon DEF Click
<1>6. enterPending' \in BOOLEAN /\ recording' \in BOOLEAN
  BY Zenon DEF Click, LiveInv, LiveType
<1>7. quiet' \in BOOLEAN
  BY <1>5, Zenon
<1>8. QED
  BY <1>4, <1>5, <1>6, <1>7, Zenon DEF LiveInv, LiveType, Undisturbed

LEMMA KeyStep ==
    ASSUME LiveInv, NEW key \in Keys, PressKey(key) \/ ReleaseKey(key)
    PROVE  LiveInv'
<1>1. CASE PressKey(key)
  <2>1. Pair(panelWire, Press(key), Other) \in Line(WireSize)
    BY PairKeeps, PressIsCode DEF LiveInv, LiveType, Code
  <2>2. Touched(key) \in Drains
    BY TouchedType DEF LiveInv, LiveType
  <2>3. panelWire' \in Line(WireSize) /\ kpc' \in Drains /\ quiet' \in BOOLEAN /\ ~quiet'
    BY <1>1, <2>1, <2>2, Zenon DEF PressKey
  <2>4. QED
    BY <1>1, <2>3, Zenon DEF PressKey, LiveInv, LiveType, Undisturbed
<1>2. CASE ReleaseKey(key)
  <2>1. LetGo(panelWire) \in Line(WireSize)
    BY LetGoKeeps DEF LiveInv, LiveType
  <2>2. Released(kpc, key) \in Drains
    BY ReleasedType DEF LiveInv, LiveType
  <2>3. panelWire' \in Line(WireSize) /\ kpc' \in Drains /\ quiet' \in BOOLEAN /\ ~quiet'
    BY <1>2, <2>1, <2>2, Zenon DEF ReleaseKey
  <2>4. QED
    BY <1>2, <2>3, Zenon DEF ReleaseKey, LiveInv, LiveType, Undisturbed
<1>3. QED
  BY <1>1, <1>2

LEMMA NoteStep ==
    ASSUME LiveInv, PlayNote \/ PlayMidi
    PROVE  LiveInv'
<1> DEFINE wire == Pair(panelWire, Other, Other)
<1>1. wire \in Line(WireSize) /\ (NoReady(panelWire) => NoReady(wire))
  BY PairKeeps, CodesApart DEF LiveInv, LiveType, Code
<1> HIDE DEF wire
<1>2. CASE PlayNote
  <2>1. Frames[Enter] \in Nat
    BY LiveNumbers
  <2>2. ArmDisplay(kpc, Frames[Enter]) \in Drains
    BY <2>1, ArmDisplayType DEF LiveInv, LiveType
  <2>3. panelWire' = wire /\ kpc' \in Drains /\ quiet' \in BOOLEAN /\ ~quiet'
    BY <1>2, <2>2, Zenon DEF PlayNote, wire
  <2>4. QED
    BY <1>1, <1>2, <2>3, Zenon DEF PlayNote, LiveInv, LiveType, Undisturbed
<1>3. CASE PlayMidi
  <2>1. panelWire' = wire
    BY <1>3, Zenon DEF PlayMidi, wire
  <2>2. QED
    BY <1>1, <1>3, <2>1, Zenon DEF PlayMidi, LiveInv, LiveType, Undisturbed
<1>4. QED
  BY <1>2, <1>3

LEMMA MountStep ==
    ASSUME LiveInv, NEW os \in BOOLEAN, MountDisk(os)
    PROVE  LiveInv'
<1> DEFINE k == [kpc EXCEPT !.periodic = os]
<1>1. k \in Drains
  BY PeriodicType DEF LiveInv, LiveType
<1> HIDE DEF k
<1>2. CancelLoad(k) \in Drains
  BY <1>1, CancelLoadUnarms
<1>3. kpc' \in Drains /\ quiet' \in BOOLEAN /\ ~quiet'
  BY <1>2, Zenon DEF MountDisk, k
<1>4. QED
  BY <1>3, Zenon DEF MountDisk, LiveInv, LiveType, Undisturbed

\* Without a request the EPS gets no readiness byte while nothing is armed.
LEMMA TransmitStep ==
    ASSUME LiveInv, NEW byte \in {"f7", "f", "request", "data"}, Transmit(byte)
    PROVE  LiveInv'
<1> DEFINE o == Observed(kpc, byte)
           replied == Scheduled(panelWire, Reply(byte))
<1>1. /\ o.kpc \in Drains /\ o.kpc.periodic = kpc.periodic
      /\ Unarmed(kpc) => Unarmed(o.kpc) /\ ~o.ready
  BY ObservedType DEF LiveInv, LiveType
<1>2. /\ Reply(byte) \in Code /\ Ready \in Code
      /\ byte # "request" => Reply(byte) # Ready
  BY CodesApart DEF Reply, Code
<1>3. /\ replied \in Line(WireSize)
      /\ NoReady(panelWire) /\ byte # "request" => NoReady(replied)
  BY <1>2, ScheduledKeeps DEF LiveInv, LiveType
<1>4. /\ panelWire' = IF o.ready THEN Scheduled(replied, Ready) ELSE replied
      /\ kpc' = o.kpc /\ quiet' = (quiet /\ byte # "request")
      /\ UNCHANGED <<panelRx, enterPending, recording, entered>>
  BY Zenon DEF Transmit
<1> HIDE DEF o, replied
<1>5. Scheduled(replied, Ready) \in Line(WireSize)
  BY <1>2, <1>3, ScheduledKeeps
<1>6. panelWire' \in Line(WireSize)
  BY <1>3, <1>4, <1>5, Zenon
<1>7. quiet' \in BOOLEAN
  BY <1>4, Zenon DEF LiveInv, LiveType
<1>8. Undisturbed'
  <2> SUFFICES ASSUME recording', quiet', ~kpc'.periodic
               PROVE  NoReady(panelWire') /\ NoReady(panelRx') /\ Unarmed(kpc')
    BY Zenon DEF Undisturbed, NoReady, Unarmed
  <2>1. recording /\ quiet /\ ~kpc.periodic /\ byte # "request"
    BY <1>1, <1>4, Zenon
  <2>2. NoReady(panelWire) /\ NoReady(panelRx) /\ Unarmed(kpc)
    BY <2>1, Zenon DEF LiveInv, Undisturbed
  <2>3. panelWire' = replied
    BY <1>1, <1>4, <2>2, Zenon
  <2>4. QED
    BY <1>1, <1>3, <1>4, <2>1, <2>2, <2>3, Zenon
<1>9. QED
  BY <1>1, <1>4, <1>6, <1>7, <1>8, Zenon DEF LiveInv, LiveType

LEMMA LoadedStep ==
    ASSUME LiveInv, FileLoaded
    PROVE  LiveInv'
<1>1. /\ CancelLoad(kpc) \in Drains /\ Unarmed(CancelLoad(kpc))
      /\ CancelLoad(kpc).periodic = kpc.periodic
  BY CancelLoadUnarms DEF LiveInv, LiveType
<1>2. kpc' = CancelLoad(kpc) /\ UNCHANGED <<panelWire, panelRx, enterPending, recording, entered, quiet>>
  BY Zenon DEF FileLoaded
<1>3. QED
  BY <1>1, <1>2, Zenon DEF LiveInv, LiveType, Undisturbed

\* The EPS takes the first byte of the receiver.
LEMMA ReadStep ==
    ASSUME LiveInv, ReadPanel
    PROVE  LiveInv'
<1>1. panelRx \in Seq(Code) /\ panelRx # <<>> /\ Len(panelRx) <= RxSize /\ Len(panelRx) \in Nat
  BY LenProperties DEF ReadPanel, LiveInv, LiveType, Line
<1>2. /\ Tail(panelRx) \in Seq(Code) /\ Len(Tail(panelRx)) = Len(panelRx) - 1
      /\ \A i \in 1 .. Len(Tail(panelRx)) : Tail(panelRx)[i] = panelRx[i + 1]
  BY <1>1, HeadTailProperties
<1>3. Len(Tail(panelRx)) <= RxSize
  BY <1>1, <1>2, LiveNumbers
<1>4. NoReady(panelRx) => NoReady(Tail(panelRx))
  BY <1>1, <1>2 DEF NoReady
<1>5. entered' \in BOOLEAN
  BY Zenon DEF ReadPanel, LiveInv, LiveType
<1>6. Tail(panelRx) \in Line(RxSize)
  BY <1>2, <1>3 DEF Line
<1>7. panelRx' = Tail(panelRx) /\ UNCHANGED <<panelWire, kpc, enterPending, recording, quiet>>
  BY Zenon DEF ReadPanel
<1>8. QED
  BY <1>4, <1>5, <1>6, <1>7, Zenon DEF LiveInv, LiveType, Undisturbed

\* Entering RECORD cancels what was armed and drops every readiness byte.
LEMMA RecordStep ==
    ASSUME LiveInv, EnterRecord
    PROVE  LiveInv'
<1>1. /\ CancelLoad(kpc) \in Drains /\ Unarmed(CancelLoad(kpc))
  BY CancelLoadUnarms DEF LiveInv, LiveType
<1>2. /\ panelWire \in Seq(Code) /\ Len(panelWire) <= WireSize /\ Len(panelWire) \in Nat
      /\ panelRx \in Seq(Code) /\ Len(panelRx) <= RxSize /\ Len(panelRx) \in Nat
  BY LenProperties DEF LiveInv, LiveType, Line
<1> DEFINE w == DroppedReady(panelWire)
           r == DroppedReady(panelRx)
<1>3. /\ w \in Seq(Code) /\ NoReady(w) /\ Len(w) <= Len(panelWire)
      /\ r \in Seq(Code) /\ NoReady(r) /\ Len(r) <= Len(panelRx)
  BY <1>2, DroppedHasNone
<1>4. panelWire' = w /\ panelRx' = r /\ kpc' = CancelLoad(kpc)
  BY Zenon DEF EnterRecord
<1> HIDE DEF w, r
<1>5. w \in Line(WireSize) /\ r \in Line(RxSize)
  <2>1. Len(w) \in Nat /\ Len(r) \in Nat
    BY <1>3, LenProperties
  <2>2. Len(w) <= WireSize /\ Len(r) <= RxSize
    BY <1>2, <1>3, <2>1, LiveNumbers
  <2>3. QED
    BY <1>3, <2>2 DEF Line
<1>6. /\ enterPending' \in BOOLEAN /\ recording' \in BOOLEAN
      /\ entered' \in BOOLEAN /\ quiet' \in BOOLEAN
  BY Zenon DEF EnterRecord
<1>7. QED
  BY <1>1, <1>3, <1>4, <1>5, <1>6, Zenon DEF LiveInv, LiveType, Undisturbed

\* A slice moves bytes from the wire to the receiver, as far as it has room.
LEMMA SliceStep ==
    ASSUME LiveInv, RunSlice
    PROVE  LiveInv'
<1>1. /\ panelWire \in Seq(Code) /\ Len(panelWire) <= WireSize /\ Len(panelWire) \in Nat
      /\ panelRx \in Seq(Code) /\ Len(panelRx) <= RxSize /\ Len(panelRx) \in Nat
  BY LenProperties DEF LiveInv, LiveType, Line
<1>2. PICK n \in 1 .. Len(panelWire) :
          /\ n <= RxSize - Len(panelRx)
          /\ panelRx' = panelRx \o SubSeq(panelWire, 1, n)
          /\ panelWire' = SubSeq(panelWire, n + 1, Len(panelWire))
  BY Zenon DEF RunSlice
<1>3. UNCHANGED <<kpc, enterPending, recording, entered, quiet>>
  BY Zenon DEF RunSlice
<1>4. n \in Nat /\ n + 1 \in Nat /\ 1 <= n /\ n <= Len(panelWire) /\ RxSize \in Nat
  BY <1>1, <1>2, LiveNumbers
<1> DEFINE sent == SubSeq(panelWire, 1, n)
           rest == SubSeq(panelWire, n + 1, Len(panelWire))
<1>5. /\ sent \in Seq(Code) /\ Len(sent) = n
      /\ \A i \in 1 .. n : sent[i] = panelWire[i]
  <2>1. \A i \in 1 .. n : panelWire[i] \in Code
    BY <1>1, <1>4, ElementOfSeq
  <2>2. QED
    BY <1>1, <1>4, <2>1, SubSeqProperties
<1>6. /\ rest \in Seq(Code) /\ Len(rest) = Len(panelWire) - n
      /\ \A i \in 1 .. Len(rest) : rest[i] = panelWire[i + n]
  <2>1. \A i \in n + 1 .. Len(panelWire) : panelWire[i] \in Code
    BY <1>1, <1>4, ElementOfSeq
  <2>2. QED
    BY <1>1, <1>4, <2>1, SubSeqProperties
<1> HIDE DEF sent, rest
<1>7. /\ panelRx \o sent \in Seq(Code)
      /\ Len(panelRx \o sent) = Len(panelRx) + n
      /\ \A i \in 1 .. Len(panelRx) + n : (panelRx \o sent)[i] =
             IF i <= Len(panelRx) THEN panelRx[i] ELSE sent[i - Len(panelRx)]
  BY <1>1, <1>5, ConcatProperties
<1>8. panelRx' = panelRx \o sent /\ panelWire' = rest
  BY <1>2 DEF sent, rest
<1>9. panelRx' \in Line(RxSize) /\ panelWire' \in Line(WireSize)
  <2>1. Len(panelRx \o sent) <= RxSize /\ Len(rest) <= WireSize
    BY <1>1, <1>2, <1>4, <1>6, <1>7, LiveNumbers
  <2>2. QED
    BY <1>6, <1>7, <1>8, <2>1 DEF Line
<1>10. NoReady(panelWire) => NoReady(rest)
  <2> SUFFICES ASSUME NoReady(panelWire), NEW i \in 1 .. Len(rest)
               PROVE  rest[i] # Ready
    BY Zenon DEF NoReady
  <2>1. i + n \in 1 .. Len(panelWire)
    BY <1>1, <1>4, <1>6
  <2>2. QED
    BY <1>6, <2>1, Zenon DEF NoReady
<1>11. NoReady(panelWire) /\ NoReady(panelRx) => NoReady(panelRx \o sent)
  <2> SUFFICES ASSUME NoReady(panelWire), NoReady(panelRx),
                      NEW i \in 1 .. Len(panelRx) + n
               PROVE  (panelRx \o sent)[i] # Ready
    BY <1>7 DEF NoReady
  <2>1. CASE i <= Len(panelRx)
    <3>1. (panelRx \o sent)[i] = panelRx[i]
      BY <1>7, <2>1
    <3>2. QED
      BY <1>1, <2>1, <3>1 DEF NoReady
  <2>2. CASE ~(i <= Len(panelRx))
    <3> DEFINE j == i - Len(panelRx)
    <3>1. j \in 1 .. n /\ j \in 1 .. Len(panelWire)
      BY <1>1, <1>4, <2>2
    <3>2. (panelRx \o sent)[i] = sent[j] /\ sent[j] = panelWire[j]
      BY <1>5, <1>7, <2>2, <3>1
    <3>3. QED
      BY <3>1, <3>2 DEF NoReady
  <2>3. QED
    BY <2>1, <2>2
<1>12. QED
  BY <1>3, <1>8, <1>9, <1>10, <1>11, Zenon DEF LiveInv, LiveType, Undisturbed

\* A poll is only due while a load is on or nobody touched the panel.
LEMMA PollStep ==
    ASSUME LiveInv, Poll
    PROVE  LiveInv'
<1>1. Ready \in Code
  BY DEF Code
<1>2. Scheduled(panelWire, Ready) \in Line(WireSize)
  BY <1>1, ScheduledKeeps DEF LiveInv, LiveType
<1> DEFINE left == IF kpc.budget > 0 THEN kpc.budget - 1 ELSE 0
<1>3. kpc.budget \in 0 .. LoadPolls
  BY DEF LiveInv, LiveType, Drains
<1>4. left \in 0 .. LoadPolls
  BY <1>3, LiveNumbers
<1>5. kpc' = [kpc EXCEPT !.budget = left]
  BY DEF Poll
<1> HIDE DEF left
<1>6. kpc' \in Drains /\ kpc'.periodic = kpc.periodic
  BY <1>4, <1>5, BudgetType DEF LiveInv, LiveType
<1>7. ~(recording /\ quiet /\ ~kpc.periodic)
  <2>1. CASE kpc.budget > 0
    <3>1. ~Unarmed(kpc)
      BY <1>3, <2>1 DEF Unarmed
    <3>2. QED
      BY <3>1, Zenon DEF LiveInv, Undisturbed
  <2>2. CASE kpc.periodic
    BY <2>2
  <2>3. QED
    BY <2>1, <2>2, Zenon DEF Poll, CanPoll
<1>8. QED
  BY <1>2, <1>6, <1>7, Zenon DEF Poll, LiveInv, LiveType, Undisturbed

LEMMA LiveInvStep == LiveInv /\ [LivePanelNext]_livePanelVars => LiveInv'
<1> SUFFICES ASSUME LiveInv, [LivePanelNext]_livePanelVars
             PROVE  LiveInv'
  OBVIOUS
<1>1. ASSUME NEW k \in Keys, NEW sampling \in BOOLEAN, Click(k, sampling)
      PROVE  LiveInv'
  BY <1>1, ClickStep
<1>2. ASSUME NEW k \in Keys, PressKey(k) \/ ReleaseKey(k)
      PROVE  LiveInv'
  BY <1>2, KeyStep
<1>3. CASE PlayNote \/ PlayMidi
  BY <1>3, NoteStep
<1>4. ASSUME NEW os \in BOOLEAN, MountDisk(os)
      PROVE  LiveInv'
  BY <1>4, MountStep
<1>5. ASSUME NEW b \in {"f7", "f", "request", "data"}, Transmit(b)
      PROVE  LiveInv'
  BY <1>5, TransmitStep
<1>6. CASE FileLoaded
  BY <1>6, LoadedStep
<1>7. CASE ReadPanel
  BY <1>7, ReadStep
<1>8. CASE EnterRecord
  BY <1>8, RecordStep
<1>9. CASE RunSlice
  BY <1>9, SliceStep
<1>10. CASE Poll
  BY <1>10, PollStep
<1>11. CASE UNCHANGED livePanelVars
  BY <1>11, Zenon DEF livePanelVars, LiveInv, LiveType, Undisturbed
<1>12. QED
  BY <1>1, <1>2, <1>3, <1>4, <1>5, <1>6, <1>7, <1>8, <1>9, <1>10, <1>11, Zenon
     DEF LivePanelNext

LEMMA LiveInvProperty == LiveInv => RecordingUndisturbed
<1> SUFFICES ASSUME LiveInv, recording, quiet, ~kpc.periodic
             PROVE  Ready \notin ToSet(panelRx) /\ Ready \notin ToSet(panelWire)
  BY DEF RecordingUndisturbed
<1>1. NoReady(panelRx) /\ NoReady(panelWire)
  BY Zenon DEF LiveInv, Undisturbed
<1>2. panelRx \in Seq(Code) /\ panelWire \in Seq(Code)
  BY DEF LiveInv, LiveType, Line
<1>3. ASSUME NEW s \in Seq(Code), NoReady(s)
      PROVE  Ready \notin ToSet(s)
  BY <1>3 DEF ToSet, NoReady
<1>4. QED
  BY <1>1, <1>2, <1>3

\* No readiness byte is left or comes while a recording is undisturbed, for any
\* keys, wires and drains (instruction_hook, panel_drop_pending_ready,
\* kpc_legacy.c).
THEOREM RecordingKept == LivePanelInit /\ [][LivePanelNext]_livePanelVars => []RecordingUndisturbed
<1>1. QED
  BY LiveInvInit, LiveInvStep, LiveInvProperty, PTL

-------------------------------------------------------------------------------
(* The interrupt line of the main CPU, for every set of masks and          *)
(* commands.                                                               *)

(***************************************************************************)
(* The type invariant: every register of the DUART and every slice keeps   *)
(* its variables in range (duart_read, duart_write, run_until).            *)
(***************************************************************************)
LEMMA ServedType ==
    ASSUME up \subseteq Source, NEW u \in Served
    PROVE  u \subseteq Source
  BY DEF Served, Source

LEMMA LevelType ==
    ASSUME NEW u, NEW o, NEW k
    PROVE  Level(u, o, k) \in 0 .. 3
  BY DEF Level

LEMMA RegisterType ==
    ASSUME TypeOK, Register
    PROVE  /\ up' \subseteq Source
           /\ on' \subseteq Switch
           /\ imr' \in Masks \cup {{}}
           /\ line' \in 0 .. 3
  <1> USE DEF TypeOK
  <1>1. ASSUME ReadStatus PROVE up' \subseteq Source /\ UNCHANGED <<on, imr, line>>
    BY <1>1, ServedType DEF ReadStatus
  <1>2. ASSUME NEW r \in {"rxA", "rxB"}, ReadHolding(r)
        PROVE  up' \subseteq Source /\ line' \in 0 .. 3 /\ UNCHANGED <<on, imr>>
    BY <1>2, ServedType, LevelType DEF ReadHolding
  <1>3. ASSUME StartTimer
        PROVE  up' \subseteq Source /\ on' \subseteq Switch /\ UNCHANGED <<imr, line>>
    BY <1>3, ServedType DEF StartTimer, Switch
  <1>4. ASSUME StopTimer
        PROVE  up' \subseteq Source /\ on' \subseteq Switch /\ line' \in 0 .. 3 /\ imr' = imr
    BY <1>4, ServedType, LevelType DEF StopTimer, Refresh
  <1>5. ASSUME SelectTimerMode
        PROVE  on' \subseteq Switch /\ UNCHANGED <<up, imr, line>>
    BY <1>5 DEF SelectTimerMode, Switch
  <1>6. ASSUME NEW c \in Commands, CommandA(c)
        PROVE  up' \subseteq Source /\ on' \subseteq Switch /\ line' \in 0 .. 3 /\ imr' = imr
    BY <1>6, LevelType DEF CommandA, Switched, Refresh, Switch
  <1>7. ASSUME NEW c \in Commands, CommandB(c)
        PROVE  on' \subseteq Switch /\ line' \in 0 .. 3 /\ UNCHANGED <<up, imr>>
    BY <1>7, LevelType DEF CommandB, Switched, Refresh, Switch
  <1>8. ASSUME NEW t \in {"txA", "txB"}, WriteHolding(t)
        PROVE  up' \subseteq Source /\ line' \in 0 .. 3 /\ UNCHANGED <<on, imr>>
    BY <1>8, LevelType DEF WriteHolding, Refresh
  <1>9. ASSUME NEW k \in Masks, WriteMask(k)
        PROVE  imr' \in Masks /\ line' \in 0 .. 3 /\ UNCHANGED <<up, on>>
    BY <1>9, LevelType DEF WriteMask, Refresh
  <1> QED
    BY <1>1, <1>2, <1>3, <1>4, <1>5, <1>6, <1>7, <1>8, <1>9 DEF Register

LEMMA ToVoicesType ==
    ASSUME TypeOK, NEW level \in 0 .. 3, ToVoices(level)
    PROVE  /\ voicesPending' \in BOOLEAN
           /\ slice' \in {"voices", "main"}
           /\ line' \in 0 .. 3
  <1>1. voicesPending' \in BOOLEAN
    BY Zenon DEF TypeOK, ToVoices
  <1>2. slice' \in {"voices", "main"}
    BY Zenon DEF ToVoices
  <1>3. line' \in 0 .. 3
    <2>1. line' = 1 \/ line' = level
      BY Zenon DEF ToVoices
    <2> QED
      BY <2>1
  <1> QED
    BY <1>1, <1>2, <1>3

LEMMA ToDuartType ==
    ASSUME TypeOK, NEW level \in 0 .. 3, ToDuart(level)
    PROVE  /\ voicesPending' \in BOOLEAN
           /\ slice' \in {"duart", "voices", "main"}
           /\ line' \in 0 .. 3
  <1>1. CASE Asserted(up', on, imr)
    <2>1. slice' = "duart" /\ line' = 3 /\ voicesPending' = voicesPending
      BY <1>1, Zenon DEF ToDuart
    <2>2. voicesPending' \in BOOLEAN
      BY <2>1, Zenon DEF TypeOK
    <2> QED
      BY <2>1, <2>2
  <1>2. CASE ~Asserted(up', on, imr)
    <2>1. ToVoices(level)
      BY <1>2, Zenon DEF ToDuart
    <2> QED
      BY <2>1, ToVoicesType
  <1> QED
    BY <1>1, <1>2

LEMMA TypeStep == TypeOK /\ [Next]_vars => TypeOK'
  <1> SUFFICES ASSUME TypeOK, [Next]_vars PROVE TypeOK'
    OBVIOUS
  <1>0. line \in 0 .. 3
    BY DEF TypeOK
  <1>1. CASE EndMain
    <2>1. up' \subseteq Source /\ UNCHANGED <<on, imr>>
      BY <1>1, ServedType DEF EndMain, TypeOK
    <2>2. dmaPending' \in BOOLEAN
      BY <1>1, Zenon DEF EndMain, TypeOK
    <2>3. CASE dmaPending'
      <3>1. slice' = "dma" /\ line' = 2 /\ voicesPending' = voicesPending
        BY <1>1, <2>3, Zenon DEF EndMain
      <3>2. voicesPending' \in BOOLEAN
        BY <3>1, Zenon DEF TypeOK
      <3> QED
        BY <2>1, <2>2, <3>1, <3>2 DEF TypeOK
    <2>4. CASE ~dmaPending'
      <3>1. ToDuart(line)
        BY <1>1, <2>4, Zenon DEF EndMain
      <3> QED
        BY <1>0, <2>1, <2>2, <3>1, ToDuartType DEF TypeOK
    <2> QED
      BY <2>3, <2>4
  <1>2. CASE EndDma
    BY <1>2, ServedType, ToDuartType DEF EndDma, TypeOK
  <1>3. CASE EndDuart
    BY <1>3, ServedType, ToVoicesType DEF EndDuart, TypeOK
  <1>4. CASE EndVoices
    BY <1>4, ServedType DEF EndVoices, TypeOK
  <1>5. CASE UseDuart
    BY <1>5, RegisterType DEF UseDuart, TypeOK
  <1>6. CASE ClearDma
    BY <1>6 DEF ClearDma, TypeOK, duartVars
  <1>7. CASE ReadVoiceVector
    BY <1>7 DEF ReadVoiceVector, TypeOK, duartVars
  <1>8. CASE UNCHANGED vars
    BY <1>8 DEF vars, TypeOK, duartVars
  <1> QED
    BY <1>1, <1>2, <1>3, <1>4, <1>5, <1>6, <1>7, <1>8 DEF Next

(* TypeOK holds in every state of the specification. *)
THEOREM SlicesTypeCorrect == Spec => []TypeOK
  <1>1. Init => TypeOK
    <2> SUFFICES ASSUME Init PROVE TypeOK
      OBVIOUS
    <2>1. dmaPending \in BOOLEAN /\ voicesPending \in BOOLEAN
      BY Zenon DEF Init
    <2> QED
      BY <2>1 DEF Init, DuartInit, TypeOK, Source, Switch
  <1> QED
    BY <1>1, TypeStep, PTL DEF Spec

(***************************************************************************)
(* Level 3 has a source.  What time brings only adds sources; everything   *)
(* that takes one away, masks it or switches it off writes the line.       *)
(***************************************************************************)
LEMMA ServedKeeps ==
    ASSUME NEW u \in Served, NEW o, NEW k, Asserted(up, o, k)
    PROVE  Asserted(u, o, k)
  BY DEF Served, Asserted, Status

LEMMA SwitchOnKeeps ==
    ASSUME NEW o, NEW p, o \subseteq p, NEW k, Asserted(up, o, k)
    PROVE  Asserted(up, p, k)
  BY DEF Asserted, Status

LEMMA LevelAsserted ==
    ASSUME NEW u, NEW o, NEW k, Level(u, o, k) = 3
    PROVE  Asserted(u, o, k)
  BY DEF Level

LEMMA RegisterStep ==
    ASSUME NoSpuriousIrq, Register
    PROVE  NoSpuriousIrq'
  <1> USE DEF NoSpuriousIrq
  <1>1. CASE ReadStatus
    BY <1>1, ServedKeeps DEF ReadStatus
  <1>2. ASSUME NEW r \in {"rxA", "rxB"}, ReadHolding(r) PROVE NoSpuriousIrq'
    <2>1. PICK u \in Served :
             IF r \in u
             THEN up' \in {u, u \ {r}} /\ line' = Level(up', on, imr)
             ELSE up' = u /\ UNCHANGED line
      BY <1>2, Zenon DEF ReadHolding
    <2>2. on' = on /\ imr' = imr
      BY <1>2 DEF ReadHolding
    <2>3. CASE r \in u
      BY <2>1, <2>2, <2>3, LevelAsserted
    <2>4. CASE r \notin u
      BY <2>1, <2>2, <2>4, ServedKeeps
    <2> QED
      BY <2>3, <2>4
  <1>3. CASE StartTimer
    <2>1. PICK u \in Served : up' = u
      BY <1>3, Zenon DEF StartTimer
    <2>2. on' = on \cup {"timer"} /\ imr' = imr /\ line' = line
      BY <1>3 DEF StartTimer
    <2>3. Asserted(up, on, imr) => Asserted(up', on, imr)
      BY <2>1, ServedKeeps
    <2>4. Asserted(up', on, imr) => Asserted(up', on', imr')
      BY <2>2 DEF Asserted, Status
    <2> QED
      BY <2>2, <2>3, <2>4
  <1>4. CASE StopTimer
    BY <1>4, LevelAsserted DEF StopTimer, Refresh
  <1>5. CASE SelectTimerMode
    BY <1>5, SwitchOnKeeps DEF SelectTimerMode
  <1>6. ASSUME NEW c \in Commands, CommandA(c) PROVE NoSpuriousIrq'
    BY <1>6, LevelAsserted DEF CommandA, Refresh
  <1>7. ASSUME NEW c \in Commands, CommandB(c) PROVE NoSpuriousIrq'
    BY <1>7, LevelAsserted DEF CommandB, Refresh
  <1>8. ASSUME NEW t \in {"txA", "txB"}, WriteHolding(t) PROVE NoSpuriousIrq'
    BY <1>8, LevelAsserted DEF WriteHolding, Refresh
  <1>9. ASSUME NEW k \in Masks, WriteMask(k) PROVE NoSpuriousIrq'
    BY <1>9, LevelAsserted DEF WriteMask, Refresh
  <1> QED
    BY <1>1, <1>2, <1>3, <1>4, <1>5, <1>6, <1>7, <1>8, <1>9 DEF Register

LEMMA ToVoicesStep ==
    ASSUME NEW level, ToVoices(level), level = 3 => Asserted(up', on, imr),
           UNCHANGED <<on, imr>>
    PROVE  NoSpuriousIrq'
  <1>1. line' = 1 \/ line' = level
    BY Zenon DEF ToVoices
  <1> QED
    BY <1>1 DEF NoSpuriousIrq

LEMMA ToDuartStep ==
    ASSUME NEW level, ToDuart(level), level = 3 => Asserted(up', on, imr),
           UNCHANGED <<on, imr>>
    PROVE  NoSpuriousIrq'
  <1>1. CASE Asserted(up', on, imr)
    BY <1>1 DEF NoSpuriousIrq
  <1>2. CASE ~Asserted(up', on, imr)
    BY <1>2, ToVoicesStep DEF ToDuart
  <1> QED
    BY <1>1, <1>2

(* NoSpuriousIrq is inductive as it stands. *)
LEMMA SpuriousStep == NoSpuriousIrq /\ [Next]_vars => NoSpuriousIrq'
  <1> SUFFICES ASSUME NoSpuriousIrq, [Next]_vars PROVE NoSpuriousIrq'
    OBVIOUS
  <1>0. ASSUME up' \in Served, UNCHANGED <<on, imr>>
        PROVE  line = 3 => Asserted(up', on, imr)
    BY <1>0, ServedKeeps DEF NoSpuriousIrq
  <1>1. CASE EndMain
    <2>1. up' \in Served /\ UNCHANGED <<on, imr>>
      BY <1>1 DEF EndMain
    <2>2. CASE dmaPending'
      <3>1. line' = 2
        BY <1>1, <2>2, Zenon DEF EndMain
      <3> QED
        BY <3>1 DEF NoSpuriousIrq
    <2>3. CASE ~dmaPending'
      <3>1. ToDuart(line)
        BY <1>1, <2>3, Zenon DEF EndMain
      <3> QED
        BY <1>0, <2>1, <3>1, ToDuartStep
    <2> QED
      BY <2>2, <2>3
  <1>2. CASE EndDma
    BY <1>2, ToDuartStep DEF EndDma
  <1>3. CASE EndDuart
    BY <1>3, ToVoicesStep DEF EndDuart
  <1>4. CASE EndVoices
    BY <1>4 DEF EndVoices, NoSpuriousIrq
  <1>5. CASE UseDuart
    BY <1>5, RegisterStep DEF UseDuart
  <1>6. CASE ClearDma
    BY <1>6 DEF ClearDma, duartVars, NoSpuriousIrq
  <1>7. CASE ReadVoiceVector
    BY <1>7 DEF ReadVoiceVector, duartVars, NoSpuriousIrq
  <1>8. CASE UNCHANGED vars
    BY <1>8 DEF vars, duartVars, NoSpuriousIrq
  <1> QED
    BY <1>1, <1>2, <1>3, <1>4, <1>5, <1>6, <1>7, <1>8 DEF Next

(* The 68000 is never interrupted on level 3 without a source. *)
THEOREM InterruptHasSource == Spec => []NoSpuriousIrq
  <1>1. Init => NoSpuriousIrq
    BY DEF Init, DuartInit, NoSpuriousIrq
  <1> QED
    BY <1>1, SpuriousStep, PTL DEF Spec
================================================================================
