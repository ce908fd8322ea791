------------------------------ MODULE Storage_proofs ------------------------------
(***************************************************************************)
(* The pending interrupt of the DMA controller always has a cause, the     *)
(* interrupt of the SCSI chip is on the line and every SCSI command is     *)
(* answered: for every length of transfers, every slice and every choice   *)
(* of interrupting channels.                                               *)
(*                                                                         *)
(* The disk images keep what they were made from: for every disk, every    *)
(* order of its sectors and every damage to its fields.                    *)
(***************************************************************************)
EXTENDS StorageDma, DiskCodec, WellFoundedInduction, FiniteSetTheorems, TLAPS

DmacTypes ==
    /\ channel \in [Channel -> Registers]
    /\ slot \in Channel \cup {NoChannel}

DmacInv == DmacTypes /\ SlotHasReason

\* What an answer of no bytes leaves behind: its bit, and a line that is high.
UnwiredIsInt == unwired => int /\ channel["scsi"].high

\* A chip that has bytes to give has not interrupted.
BytesBeforeInt == HasBytes => ~int

\* It gives them from one place.
OneAnswer == buffered = 0 \/ streaming = 0

IInv ==
    /\ TypeOK
    /\ OneAnswer
    /\ SlotHasReason
    /\ IntWiredToPcl
    /\ UnwiredIsInt
    /\ BytesBeforeInt
    /\ ScsiAnswered

\* The shortest of three lengths is one of them and exceeds none.
LEMMA SmallestBounds ==
    ASSUME NEW a \in Nat, NEW b \in Nat, NEW c \in Nat
    PROVE  /\ Smallest(a, b, c) \in {a, b, c}
           /\ Smallest(a, b, c) <= a
           /\ Smallest(a, b, c) <= b
           /\ Smallest(a, b, c) <= c
<1>1. \E n \in {a, b, c} : n <= a /\ n <= b /\ n <= c
  <2>1. CASE a <= b /\ a <= c
    BY <2>1
  <2>2. CASE b <= a /\ b <= c
    BY <2>2
  <2>3. CASE c <= a /\ c <= b
    BY <2>3
  <2>4. QED BY <2>1, <2>2, <2>3
<1>2. QED BY <1>1 DEF Smallest

\* A device that drives its line takes no interrupt of the other channel and
\* raises none without a cause.
LEMMA DriveKeeps ==
    ASSUME DmacInv, NEW c \in Channel, NEW high \in BOOLEAN, DrivePcl(c, high)
    PROVE  /\ DmacInv'
           /\ channel'[c].high = high
           /\ \A d \in Channel \ {c} : channel'[d] = channel[d]
<1> USE DmacAssumption DEF DmacInv, DmacTypes
<1>1. channel'[c] = WithPcl(channel[c], high)
  BY DEF DrivePcl
<1>2. \A d \in Channel \ {c} : channel'[d] = channel[d]
  BY DEF DrivePcl
<1>3. /\ channel'[c] \in Registers
      /\ channel'[c].high = high
      /\ channel'[c].inte = channel[c].inte
      /\ channel'[c].ended = channel[c].ended
      /\ channel'[c].edge = (channel[c].edge \/ (channel[c].high /\ ~high))
  BY <1>1 DEF WithPcl, Registers
<1>4. channel' \in [Channel -> Registers]
  BY <1>2, <1>3 DEF DrivePcl
<1>5. SlotHasReason'
  <2>1. CASE PclRaises(c, high) /\ slot = NoChannel
    BY <2>1, <1>3 DEF DrivePcl, Claim, PclRaises, SlotHasReason
  <2>2. CASE ~(PclRaises(c, high) /\ slot = NoChannel)
    <3>1. slot' = slot
      BY <2>2 DEF DrivePcl, Claim
    <3>2. QED BY <3>1, <1>2, <1>3 DEF SlotHasReason
  <2>3. QED BY <2>1, <2>2
<1>6. slot' \in Channel \cup {NoChannel}
  BY DEF DrivePcl, Claim
<1>7. QED BY <1>2, <1>3, <1>4, <1>5, <1>6

\* Likewise a request taken back and raised again.
LEMMA PulseKeeps ==
    ASSUME DmacInv, NEW c \in Channel, PulsePcl(c)
    PROVE  /\ DmacInv'
           /\ \A d \in Channel \ {c} : channel'[d] = channel[d]
<1> USE DmacAssumption DEF DmacInv, DmacTypes
<1>1. channel'[c] = [channel[c] EXCEPT !.high = FALSE, !.edge = TRUE]
  BY DEF PulsePcl
<1>2. \A d \in Channel \ {c} : channel'[d] = channel[d]
  BY DEF PulsePcl
<1>3. /\ channel'[c] \in Registers
      /\ channel'[c].inte = channel[c].inte
      /\ channel'[c].edge
  BY <1>1 DEF Registers
<1>4. channel' \in [Channel -> Registers]
  BY <1>2, <1>3 DEF PulsePcl
<1>5. CASE c \in EdgeInterrupts /\ channel[c].inte /\ slot = NoChannel
  BY <1>5, <1>2, <1>3, <1>4 DEF PulsePcl, Claim, SlotHasReason
<1>6. CASE ~(c \in EdgeInterrupts /\ channel[c].inte /\ slot = NoChannel)
  <2>1. slot' = slot
    BY <1>6 DEF PulsePcl, Claim
  <2>2. QED BY <2>1, <1>2, <1>3, <1>4 DEF SlotHasReason
<1>7. QED BY <1>5, <1>6

\* The writes of the EPS clear a flag or the interrupt enable only together
\* with the pending interrupt.
LEMMA StatusKeeps ==
    ASSUME DmacInv, NEW c \in Channel, NEW ended \in BOOLEAN,
           NEW edge \in BOOLEAN, WriteStatus(c, ended, edge)
    PROVE  DmacInv' /\ \A d \in Channel : channel'[d].high = channel[d].high
<1> USE DmacAssumption DEF DmacInv, DmacTypes
<1> DEFINE cleared == [channel[c] EXCEPT !.ended = @ /\ ~ended,
                                         !.edge = @ /\ ~edge]
<1>1. /\ channel' = [channel EXCEPT ![c] = cleared]
      /\ IF cleared.ended \/ cleared.edge THEN UNCHANGED slot ELSE Release(c)
  BY DEF WriteStatus
<1>2. /\ cleared \in Registers
      /\ cleared.inte = channel[c].inte
      /\ cleared.high = channel[c].high
  BY DEF Registers
<1> HIDE DEF cleared
<1>3. \A d \in Channel : channel'[d] = IF d = c THEN cleared ELSE channel[d]
  BY <1>1
<1>4. channel' \in [Channel -> Registers]
  BY <1>1, <1>2
<1>5. SlotHasReason' /\ slot' \in Channel \cup {NoChannel}
  <2>1. CASE cleared.ended \/ cleared.edge
    BY <2>1, <1>1, <1>2, <1>3 DEF SlotHasReason
  <2>2. CASE ~(cleared.ended \/ cleared.edge)
    BY <2>2, <1>1, <1>2, <1>3 DEF SlotHasReason, Release
  <2>3. QED BY <2>1, <2>2
<1>6. QED BY <1>2, <1>3, <1>4, <1>5

LEMMA ControlKeeps ==
    ASSUME DmacInv, NEW c \in Channel, NEW inte \in BOOLEAN,
           \/ \E count \in 1 .. MaxCount : StartChannel(c, count, inte)
           \/ \E abort \in BOOLEAN : WriteControl(c, abort, inte)
    PROVE  DmacInv' /\ \A d \in Channel : channel'[d].high = channel[d].high
<1> USE DmacAssumption DEF DmacInv, DmacTypes
<1>1. /\ channel' = [channel EXCEPT ![c] = channel'[c]]
      /\ channel'[c] \in Registers
      /\ channel'[c].high = channel[c].high
      /\ channel'[c].ended = channel[c].ended
      /\ channel'[c].edge = channel[c].edge
      /\ channel'[c].inte = inte
  <2>1. CASE \E count \in 1 .. MaxCount : StartChannel(c, count, inte)
    <3>1. PICK count \in 1 .. MaxCount : StartChannel(c, count, inte)
      BY <2>1
    <3>2. channel' = [channel EXCEPT ![c].active = TRUE,
                                     ![c].count  = count,
                                     ![c].inte   = inte]
      BY <3>1 DEF StartChannel
    <3>3. count \in 0 .. MaxCount
      OBVIOUS
    <3>4. QED BY <3>2, <3>3 DEF Registers
  <2>2. CASE \E abort \in BOOLEAN : WriteControl(c, abort, inte)
    <3>1. PICK abort \in BOOLEAN : WriteControl(c, abort, inte)
      BY <2>2
    <3>2. channel' = [channel EXCEPT ![c].active = @ /\ ~abort,
                                     ![c].inte   = inte]
      BY <3>1 DEF WriteControl
    <3>3. QED BY <3>2 DEF Registers
  <2>3. QED BY <2>1, <2>2
<1>2. IF inte THEN UNCHANGED slot ELSE Release(c)
  BY DEF StartChannel, WriteControl
<1>3. \A d \in Channel \ {c} : channel'[d] = channel[d]
  BY <1>1
<1>4. channel' \in [Channel -> Registers]
  BY <1>1
<1>5. SlotHasReason' /\ slot' \in Channel \cup {NoChannel}
  <2>1. CASE inte
    BY <2>1, <1>1, <1>2, <1>3 DEF SlotHasReason
  <2>2. CASE ~inte
    BY <2>2, <1>1, <1>2, <1>3 DEF SlotHasReason, Release
  <2>3. QED BY <2>1, <2>2
<1>6. QED BY <1>1, <1>3, <1>4, <1>5

\* One slice of the controller: an interrupt it makes pending has its cause.
LEMMA ServiceKeeps ==
    ASSUME DmacInv, sectorLeft \in Nat, streaming \in Nat, DmacService
    PROVE  /\ DmacInv'
           /\ \A c \in Channel :
                 /\ Moved(c) \in 0 .. DeviceLeft(c)
                 /\ channel'[c].high = (channel[c].high /\ ~DeviceEnds(c))
<1> USE DmacAssumption, StorageAssumption DEF DmacInv, DmacTypes
<1>1. ASSUME NEW c \in Channel
      PROVE  /\ Moved(c) \in 0 .. DeviceLeft(c)
             /\ Moved(c) \in 0 .. channel[c].count
  <2>1. DeviceLeft(c) \in Nat
    BY DEF DeviceLeft
  <2>2. channel[c].count \in Nat /\ channel[c].active \in BOOLEAN
    BY DEF Registers
  <2>3. CASE channel[c].active
    <3>1. Moved(c) = Smallest(channel[c].count, DeviceLeft(c), SliceTransfers)
      BY <2>3 DEF Moved
    <3>2. QED BY <3>1, <2>1, <2>2, SmallestBounds
  <2>4. CASE ~channel[c].active
    BY <2>1, <2>2, <2>4 DEF Moved
  <2>5. QED BY <2>2, <2>3, <2>4
<1>2. ASSUME NEW c \in Channel
      PROVE  /\ channel'[c] = Served(c)
             /\ Served(c) \in Registers
             /\ Served(c).high = (channel[c].high /\ ~DeviceEnds(c))
             /\ Served(c).inte = channel[c].inte
             /\ Served(c).ended = (channel[c].ended \/ Ends(c))
             /\ Served(c).edge =
                   (channel[c].edge \/ (DeviceEnds(c) /\ channel[c].high))
  <2> DEFINE moved == [channel[c] EXCEPT !.count = @ - Moved(c)]
             lined == IF DeviceEnds(c) THEN WithPcl(moved, FALSE) ELSE moved
  <2>1. channel'[c] = Served(c)
    BY DEF DmacService
  <2>2. /\ moved \in Registers
        /\ moved.high = channel[c].high /\ moved.inte = channel[c].inte
        /\ moved.ended = channel[c].ended /\ moved.edge = channel[c].edge
    <3>1. channel[c].count - Moved(c) \in 0 .. MaxCount
      BY <1>1 DEF Registers
    <3>2. QED BY <3>1 DEF Registers
  <2> HIDE DEF moved
  <2>3. DeviceEnds(c) \in BOOLEAN /\ Ends(c) \in BOOLEAN
    BY DEF DeviceEnds, Ends
  <2>4. /\ lined \in Registers
        /\ lined.high = (channel[c].high /\ ~DeviceEnds(c))
        /\ lined.inte = channel[c].inte /\ lined.ended = channel[c].ended
        /\ lined.edge =
              (channel[c].edge \/ (DeviceEnds(c) /\ channel[c].high))
    <3>1. CASE DeviceEnds(c)
      BY <3>1, <2>2 DEF WithPcl, Registers
    <3>2. CASE ~DeviceEnds(c)
      BY <3>2, <2>2 DEF Registers
    <3>3. QED BY <3>1, <3>2
  <2>5. Served(c) = IF Ends(c) THEN Completed(lined) ELSE lined
    BY DEF Served, moved
  <2> HIDE DEF lined
  <2>6. CASE Ends(c)
    BY <2>1, <2>4, <2>5, <2>6 DEF Completed, Registers
  <2>7. CASE ~Ends(c)
    BY <2>1, <2>4, <2>5, <2>7 DEF Registers
  <2>8. QED BY <2>3, <2>6, <2>7
<1>3. channel' \in [Channel -> Registers]
  BY <1>2 DEF DmacService
<1>4. SlotHasReason' /\ slot' \in Channel \cup {NoChannel}
  <2>1. CASE slot # NoChannel
    BY <2>1, <1>2 DEF DmacService, SlotHasReason
  <2>2. CASE slot = NoChannel
    <3>1. slot' \in Channel \cup {NoChannel}
          /\ (slot' # NoChannel => Asks(slot'))
      BY <2>2 DEF DmacService, Channel
    <3>2. ASSUME NEW c \in Channel, Asks(c)
          PROVE  Served(c).inte /\ (Served(c).ended \/ Served(c).edge)
      BY <3>2, <1>2 DEF Asks, PclRaises
    <3>3. QED BY <3>1, <3>2, <1>2 DEF SlotHasReason
  <2>3. QED BY <2>1, <2>2
<1>5. QED BY <1>1, <1>2, <1>3, <1>4

\* The first state.
LEMMA InitIInv == Init => IInv
<1> SUFFICES ASSUME Init PROVE IInv
  OBVIOUS
<1> USE DmacAssumption, StorageAssumption
<1>1. channel \in [Channel -> Registers]
  <2>1. \A e \in BOOLEAN :
          [active |-> FALSE, ended |-> FALSE, edge |-> e, inte |-> FALSE,
           high |-> TRUE, count |-> 0] \in Registers
    BY DEF Registers
  <2>2. QED BY <2>1 DEF Init, DmacInit
<1>2. TypeOK
  <2>1. /\ sectorLeft \in 0 .. SectorBytes
        /\ buffered \in 0 .. 1
        /\ streaming \in 0 .. MaxStream
    BY DEF Init
  <2>2. /\ slot \in Channel \cup {NoChannel}
        /\ int \in BOOLEAN /\ answerDue \in BOOLEAN /\ cut \in BOOLEAN
        /\ unwired \in BOOLEAN /\ unheard \subseteq Channel
    BY DEF Init, DmacInit
  <2>3. QED BY <1>1, <2>1, <2>2 DEF TypeOK
<1>3. QED
  BY <1>2 DEF Init, DmacInit, IInv, SlotHasReason, IntWiredToPcl, UnwiredIsInt,
              BytesBeforeInt, ScsiAnswered, HasBytes, OneAnswer, Channel

\* The devices: each action of a device drives its own line only.
LEMMA FloppyKeeps ==
    ASSUME IInv, \/ FloppyTransferCommand \/ FloppyAnswersAtOnce
                 \/ FloppyTakesRequestBack \/ FloppyByteByCpu
    PROVE  IInv'
<1> USE DmacAssumption, StorageAssumption
<1>1. DmacInv /\ "floppy" \in Channel /\ "scsi" \in Channel \ {"floppy"}
  BY DEF IInv, TypeOK, DmacInv, DmacTypes, Channel
<1>2. DmacInv' /\ channel'["scsi"] = channel["scsi"]
  <2>1. CASE FloppyTransferCommand \/ FloppyTakesRequestBack
    BY <1>1, <2>1, DriveKeeps DEF FloppyTransferCommand, FloppyTakesRequestBack
  <2>2. CASE FloppyAnswersAtOnce
    BY <1>1, <2>2, PulseKeeps DEF FloppyAnswersAtOnce
  <2>3. CASE FloppyByteByCpu /\ sectorLeft = 1
    BY <1>1, <2>3, DriveKeeps DEF FloppyByteByCpu
  <2>4. CASE FloppyByteByCpu /\ sectorLeft # 1
    BY <1>1, <2>4 DEF FloppyByteByCpu, dmacVars, DmacInv, DmacTypes,
                      SlotHasReason
  <2>5. QED BY <2>1, <2>2, <2>3, <2>4
<1>3. sectorLeft' \in 0 .. SectorBytes
  <2>1. sectorLeft \in 0 .. SectorBytes /\ SectorBytes \in Nat
    BY DEF IInv, TypeOK
  <2>2. \/ sectorLeft' \in {sectorLeft, 0, SectorBytes}
        \/ sectorLeft > 0 /\ sectorLeft' = sectorLeft - 1
    BY DEF FloppyTransferCommand, FloppyAnswersAtOnce, FloppyTakesRequestBack,
           FloppyByteByCpu
  <2>3. QED BY <2>1, <2>2
<1>4. UNCHANGED scsiVars
  BY DEF FloppyTransferCommand, FloppyAnswersAtOnce, FloppyTakesRequestBack,
         FloppyByteByCpu
<1>5. unheard' \subseteq Channel
  BY <1>1 DEF IInv, TypeOK, FloppyTransferCommand, FloppyAnswersAtOnce,
         FloppyTakesRequestBack, FloppyByteByCpu, Hear
<1>6. TypeOK'
  BY <1>2, <1>3, <1>4, <1>5 DEF IInv, TypeOK, DmacInv, DmacTypes, scsiVars
<1>7. QED
  BY <1>2, <1>4, <1>6 DEF IInv, DmacInv, IntWiredToPcl, UnwiredIsInt,
                          BytesBeforeInt, ScsiAnswered, HasBytes,
                          OneAnswer, scsiVars

\* The interrupt of the SCSI chip and its line go together.
LEMMA RaiseKeeps ==
    ASSUME DmacInv, RaiseInterrupt, unheard \subseteq Channel
    PROVE  /\ DmacInv'
           /\ int' = TRUE /\ channel'["scsi"].high = FALSE
           /\ unwired' = unwired
           /\ unheard' \subseteq Channel
<1>1. "scsi" \in Channel
  BY DEF Channel
<1>2. QED
  BY <1>1, DriveKeeps DEF RaiseInterrupt, Hear

LEMMA ScsiKeeps ==
    ASSUME IInv,
           \/ AnswerAtOnce
           \/ \E bytes \in 0 .. 1 : AnswerBuffered(bytes)
           \/ \E bytes \in 1 .. MaxStream : AnswerStreamed(bytes)
           \/ ReadBuffer \/ ReadStreamByCpu \/ ReadScsiStatus \/ ChangeImage
    PROVE  IInv'
<1> USE DmacAssumption, StorageAssumption
<1>1. /\ DmacInv /\ "scsi" \in Channel
      /\ buffered \in 0 .. 1 /\ streaming \in 0 .. MaxStream
      /\ MaxStream \in Nat /\ unheard \subseteq Channel
      /\ sectorLeft \in 0 .. SectorBytes
      /\ int \in BOOLEAN /\ unwired \in BOOLEAN /\ cut \in BOOLEAN
      /\ answerDue \in BOOLEAN
      /\ IntWiredToPcl /\ UnwiredIsInt /\ BytesBeforeInt /\ ScsiAnswered
      /\ OneAnswer
  BY DEF IInv, TypeOK, DmacInv, DmacTypes, Channel
<1>2. DmacInv'
  <2>1. CASE AnswerAtOnce \/ RaiseInterrupt \/ ReadScsiStatus
    BY <1>1, <2>1, DriveKeeps DEF AnswerAtOnce, RaiseInterrupt, ReadScsiStatus
  <2>2. CASE UNCHANGED dmacVars
    BY <1>1, <2>2 DEF dmacVars, DmacInv, DmacTypes, SlotHasReason
  <2>3. QED
    BY <2>1, <2>2 DEF AnswerBuffered, AnswerStreamed, ReadBuffer,
                      ReadStreamByCpu, ChangeImage
<1>3. buffered' \in 0 .. 1 /\ streaming' \in 0 .. MaxStream
  <2>1. CASE AnswerAtOnce
    BY <1>1, <2>1 DEF AnswerAtOnce
  <2>2. CASE \E bytes \in 0 .. 1 : AnswerBuffered(bytes)
    BY <1>1, <2>2 DEF AnswerBuffered
  <2>3. CASE \E bytes \in 1 .. MaxStream : AnswerStreamed(bytes)
    BY <1>1, <2>3 DEF AnswerStreamed
  <2>4. CASE ReadBuffer
    BY <1>1, <2>4 DEF ReadBuffer
  <2>5. CASE ReadStreamByCpu
    BY <1>1, <2>5 DEF ReadStreamByCpu
  <2>6. CASE ReadScsiStatus
    BY <1>1, <2>6 DEF ReadScsiStatus
  <2>7. CASE ChangeImage
    BY <1>1, <2>7 DEF ChangeImage
  <2>8. QED BY <2>1, <2>2, <2>3, <2>4, <2>5, <2>6, <2>7
<1>4. unheard' \subseteq Channel /\ sectorLeft' = sectorLeft
  BY <1>1 DEF AnswerAtOnce, RaiseInterrupt, Hear, AnswerBuffered,
              AnswerStreamed, ReadBuffer, ReadStreamByCpu, ReadScsiStatus,
              ChangeImage
<1>5. /\ cut' \in BOOLEAN /\ answerDue' \in BOOLEAN
      /\ int' \in BOOLEAN /\ unwired' \in BOOLEAN
  BY <1>1 DEF AnswerAtOnce, RaiseInterrupt, AnswerBuffered, AnswerStreamed,
              ReadBuffer, ReadStreamByCpu, ReadScsiStatus, ChangeImage
<1>6. IntWiredToPcl' /\ UnwiredIsInt' /\ BytesBeforeInt' /\ ScsiAnswered'
  <2> USE DEF IntWiredToPcl, UnwiredIsInt, BytesBeforeInt, ScsiAnswered
  <2>1. CASE AnswerAtOnce
    <3>1. ~HasBytes' /\ ~answerDue' /\ ~int /\ unwired' = unwired
      BY <2>1 DEF AnswerAtOnce, HasBytes, RaiseInterrupt
    <3>2. int' /\ ~channel'["scsi"].high
      BY <1>1, <2>1, RaiseKeeps DEF AnswerAtOnce
    <3>3. QED BY <1>1, <3>1, <3>2
  <2>2. CASE \E bytes \in 0 .. 1 : AnswerBuffered(bytes)
    <3>1. \/ ~HasBytes' /\ int' /\ unwired' /\ ~answerDue'
          \/ HasBytes' /\ ~int' /\ ~unwired' /\ answerDue'
      <4>1. PICK bytes \in 0 .. 1 : AnswerBuffered(bytes)
        BY <2>2
      <4>2. HasBytes' <=> bytes # 0
        BY <4>1 DEF AnswerBuffered, HasBytes
      <4>3. /\ int' = (bytes = 0) /\ unwired' = (bytes = 0)
            /\ answerDue' = ~int'
        BY <4>1 DEF AnswerBuffered
      <4>4. QED BY <4>2, <4>3, <1>5
    <3>2. ~int /\ channel' = channel
      BY <2>2 DEF AnswerBuffered, dmacVars
    <3>3. channel["scsi"].high
      BY <1>1, <3>2
    <3>4. QED BY <3>1, <3>2, <3>3, <1>5
  <2>3. CASE \E bytes \in 1 .. MaxStream : AnswerStreamed(bytes)
    <3>1. HasBytes'
      BY <1>1, <2>3 DEF AnswerStreamed, HasBytes
    <3>2. ~int /\ ~int' /\ channel' = channel /\ unwired' = unwired
      BY <2>3 DEF AnswerStreamed, dmacVars
    <3>3. QED BY <1>1, <3>1, <3>2
  <2>4. CASE \/ ReadBuffer /\ buffered = 1
             \/ ReadStreamByCpu /\ streaming = 1
    <3>1. HasBytes
      BY <1>1, <2>4 DEF HasBytes
    <3>2. RaiseInterrupt
      BY <2>4 DEF ReadBuffer, ReadStreamByCpu
    <3>3. int' /\ ~channel'["scsi"].high /\ unwired' = unwired
      BY <1>1, <3>2, RaiseKeeps
    <3>4. ~answerDue'
      BY <2>4, <3>3 DEF ReadBuffer, ReadStreamByCpu
    <3>5. ~HasBytes'
      BY <1>1, <2>4 DEF ReadBuffer, ReadStreamByCpu, HasBytes, OneAnswer
    <3>6. QED BY <1>1, <3>1, <3>3, <3>4, <3>5
  <2>5. CASE \/ ReadBuffer /\ buffered # 1
             \/ ReadStreamByCpu /\ streaming # 1
    <3>1. HasBytes /\ HasBytes'
      BY <1>1, <2>5 DEF ReadBuffer, ReadStreamByCpu, HasBytes
    <3>2. /\ channel' = channel /\ int' = int /\ unwired' = unwired
          /\ answerDue' => answerDue
      BY <2>5 DEF ReadBuffer, ReadStreamByCpu, dmacVars
    <3>3. QED BY <1>1, <3>1, <3>2
  <2>6. CASE ReadScsiStatus
    <3>1. ~int' /\ ~unwired' /\ answerDue' = answerDue /\ HasBytes' = HasBytes
      BY <2>6 DEF ReadScsiStatus, HasBytes
    <3>2. channel'["scsi"].high
      BY <1>1, <2>6, DriveKeeps DEF ReadScsiStatus
    <3>3. QED BY <1>1, <3>1, <3>2
  <2>7. CASE ChangeImage
    <3>1. ~HasBytes' /\ ~answerDue'
      BY <2>7 DEF ChangeImage, HasBytes
    <3>2. int' = int /\ unwired' = unwired /\ channel' = channel
      BY <2>7 DEF ChangeImage, dmacVars
    <3>3. QED BY <1>1, <3>1, <3>2
  <2>8. QED
    BY <2>1, <2>2, <2>3, <2>4, <2>5, <2>6, <2>7
       DEF ReadBuffer, ReadStreamByCpu
<1>7. OneAnswer'
  <2>1. CASE AnswerAtOnce
    BY <1>1, <2>1 DEF AnswerAtOnce, OneAnswer
  <2>2. CASE \E bytes \in 0 .. 1 : AnswerBuffered(bytes)
    BY <1>1, <2>2 DEF AnswerBuffered, OneAnswer
  <2>3. CASE \E bytes \in 1 .. MaxStream : AnswerStreamed(bytes)
    BY <1>1, <2>3 DEF AnswerStreamed, OneAnswer
  <2>4. CASE ReadBuffer
    BY <1>1, <2>4 DEF ReadBuffer, OneAnswer
  <2>5. CASE ReadStreamByCpu
    BY <1>1, <2>5 DEF ReadStreamByCpu, OneAnswer
  <2>6. CASE ReadScsiStatus \/ ChangeImage
    BY <1>1, <2>6 DEF ReadScsiStatus, ChangeImage, OneAnswer
  <2>7. QED BY <2>1, <2>2, <2>3, <2>4, <2>5, <2>6
<1>8. QED
  BY <1>1, <1>2, <1>3, <1>5, <1>6, <1>7, <1>4 DEF IInv, TypeOK, DmacInv, DmacTypes
\* The controller moves no more than the device has, and the interrupt of the
\* SCSI chip comes with its last byte.
LEMMA ServiceKeepsIInv ==
    ASSUME IInv, DmacService
    PROVE  IInv'
<1> USE DmacAssumption, StorageAssumption
<1>1. /\ DmacInv /\ "scsi" \in Channel /\ "floppy" \in Channel
      /\ sectorLeft \in 0 .. SectorBytes /\ streaming \in 0 .. MaxStream
      /\ SectorBytes \in Nat /\ MaxStream \in Nat /\ buffered \in 0 .. 1
  BY DEF IInv, TypeOK, DmacInv, DmacTypes, Channel
<1>2. /\ DmacInv'
      /\ Moved("floppy") \in 0 .. sectorLeft
      /\ Moved("scsi") \in 0 .. streaming
      /\ channel'["scsi"].high = (channel["scsi"].high /\ ~DeviceEnds("scsi"))
  BY <1>1, ServiceKeeps DEF DeviceLeft
<1>3. sectorLeft' \in 0 .. SectorBytes /\ streaming' \in 0 .. MaxStream
  BY <1>1, <1>2 DEF DmacService
<1>4. /\ int' = (int \/ DeviceEnds("scsi"))
      /\ answerDue' = (answerDue /\ ~int')
      /\ buffered' = buffered /\ cut' = cut /\ unwired' = unwired
      /\ unheard' \subseteq unheard \cup Channel
  BY DEF DmacService, Hear
<1>5. int \in BOOLEAN /\ answerDue \in BOOLEAN /\ DeviceEnds("scsi") \in BOOLEAN
  BY DEF IInv, TypeOK, DeviceEnds
<1>6. TypeOK'
  <2>1. int' \in BOOLEAN /\ answerDue' \in BOOLEAN
    BY <1>4, <1>5
  <2>2. cut' \in BOOLEAN /\ unwired' \in BOOLEAN /\ unheard' \subseteq Channel
    BY <1>4 DEF IInv, TypeOK
  <2>3. buffered' \in 0 .. 1
    BY <1>1, <1>4
  <2>4. QED BY <1>2, <1>3, <2>1, <2>2, <2>3 DEF TypeOK, DmacInv, DmacTypes
<1>7. /\ DeviceEnds("scsi") => HasBytes /\ streaming' = 0 /\ streaming > 0
      /\ ~DeviceEnds("scsi") => (HasBytes' <=> HasBytes)
      /\ HasBytes' => HasBytes
  <2>1. streaming' = streaming - Moved("scsi")
    BY DEF DmacService
  <2>2. DeviceEnds("scsi") <=> Moved("scsi") > 0 /\ Moved("scsi") = streaming
    BY <1>1 DEF DeviceEnds, DeviceLeft
  <2>3. QED BY <1>1, <1>2, <1>4, <2>1, <2>2 DEF HasBytes
<1>8. OneAnswer'
  BY <1>1, <1>2, <1>4 DEF IInv, OneAnswer, DmacService
<1>9. DeviceEnds("scsi") => ~HasBytes' /\ ~int /\ channel["scsi"].high
  <2>1. DeviceEnds("scsi") => ~HasBytes'
    BY <1>1, <1>4, <1>7 DEF IInv, OneAnswer, HasBytes
  <2>2. DeviceEnds("scsi") => ~int
    BY <1>7 DEF IInv, BytesBeforeInt
  <2>3. ~int => channel["scsi"].high
    BY DEF IInv, IntWiredToPcl, UnwiredIsInt
  <2>4. QED BY <2>1, <2>2, <2>3
<1>10. IntWiredToPcl' /\ UnwiredIsInt' /\ BytesBeforeInt' /\ ScsiAnswered'
  <2> USE DEF IntWiredToPcl, UnwiredIsInt, BytesBeforeInt, ScsiAnswered
  <2>1. CASE DeviceEnds("scsi")
    <3>1. ~unwired
      BY <2>1, <1>9 DEF IInv
    <3>2. int' /\ ~channel'["scsi"].high /\ ~answerDue'
      BY <2>1, <1>2, <1>4
    <3>3. QED BY <2>1, <3>1, <3>2, <1>4, <1>9
  <2>2. CASE ~DeviceEnds("scsi")
    <3>1. int' = int /\ channel'["scsi"].high = channel["scsi"].high
      <4>1. channel["scsi"].high \in BOOLEAN
        BY <1>1 DEF DmacInv, DmacTypes, Registers
      <4>2. QED BY <2>2, <1>2, <1>4, <1>5, <4>1
    <3>2. HasBytes' <=> HasBytes
      BY <2>2, <1>7
    <3>3. answerDue' => answerDue
      BY <1>4, <1>5
    <3>4. QED BY <3>1, <3>2, <3>3, <1>4 DEF IInv
  <2>3. QED BY <2>1, <2>2
<1>11. QED BY <1>2, <1>6, <1>8, <1>10 DEF IInv, DmacInv

\* The EPS writes registers of the controller and moves no line.
LEMMA RegistersKeep ==
    ASSUME IInv, Program \/ ClearStatus \/ HandleInterrupt
    PROVE  IInv'
<1> USE DmacAssumption, StorageAssumption
<1>1. DmacInv /\ "scsi" \in Channel
  BY DEF IInv, TypeOK, DmacInv, DmacTypes, Channel
<1>2. DmacInv' /\ \A c \in Channel : channel'[c].high = channel[c].high
  <2>1. CASE Program
    BY <1>1, <2>1, ControlKeeps DEF Program
  <2>2. CASE ClearStatus
    BY <1>1, <2>2, StatusKeeps DEF ClearStatus
  <2>3. CASE HandleInterrupt
    <3>1. slot \in Channel
      BY <1>1, <2>3 DEF HandleInterrupt, DmacInv, DmacTypes
    <3>2. QED BY <1>1, <2>3, <3>1, StatusKeeps DEF HandleInterrupt
  <2>4. QED BY <2>1, <2>2, <2>3
<1>3. UNCHANGED <<sectorLeft, scsiVars>>
  BY DEF Program, ClearStatus, HandleInterrupt
<1>4. unheard' \subseteq Channel
  <2>1. unheard \subseteq Channel
    BY DEF IInv, TypeOK
  <2>2. \E asking \in SUBSET Channel : Hear(asking)
    BY DEF Program, ClearStatus, HandleInterrupt
  <2>3. QED BY <2>1, <2>2 DEF Hear
<1>5. QED
  BY <1>1, <1>2, <1>3, <1>4
     DEF IInv, TypeOK, DmacInv, DmacTypes, scsiVars, OneAnswer, IntWiredToPcl,
         UnwiredIsInt, BytesBeforeInt, ScsiAnswered, HasBytes

LEMMA NextIInv == IInv /\ [Next]_vars => IInv'
<1> SUFFICES ASSUME IInv, [Next]_vars PROVE IInv'
  OBVIOUS
<1>1. CASE \/ FloppyTransferCommand \/ FloppyAnswersAtOnce
           \/ FloppyTakesRequestBack \/ FloppyByteByCpu
  BY <1>1, FloppyKeeps
<1>2. CASE \/ AnswerAtOnce
           \/ \E bytes \in 0 .. 1 : AnswerBuffered(bytes)
           \/ \E bytes \in 1 .. MaxStream : AnswerStreamed(bytes)
           \/ ReadBuffer \/ ReadStreamByCpu \/ ReadScsiStatus \/ ChangeImage
  BY <1>2, ScsiKeeps
<1>3. CASE DmacService
  BY <1>3, ServiceKeepsIInv
<1>4. CASE Program \/ ClearStatus \/ HandleInterrupt
  BY <1>4, RegistersKeep
<1>5. CASE UNCHANGED vars
  BY <1>5 DEF vars, dmacVars, scsiVars, IInv, TypeOK, OneAnswer, SlotHasReason,
              IntWiredToPcl, UnwiredIsInt, BytesBeforeInt, ScsiAnswered,
              HasBytes
<1>6. QED BY <1>1, <1>2, <1>3, <1>4, <1>5 DEF Next

LEMMA Invariance == Spec => []IInv
<1>1. QED BY InitIInv, NextIInv, PTL DEF Spec

\* Every register, count and line keeps its type.
THEOREM StorageTypeCorrect == Spec => []TypeOK
<1>1. IInv => TypeOK
  BY DEF IInv
<1>2. QED BY <1>1, Invariance, PTL

\* The EPS finds the cause of each DMA interrupt in the status of its channel.
THEOREM InterruptHasReason == Spec => []SlotHasReason
<1>1. IInv => SlotHasReason
  BY DEF IInv
<1>2. QED BY <1>1, Invariance, PTL

\* The interrupt bit of the SCSI chip and the line of its channel agree.
THEOREM InterruptOnTheLine == Spec => []IntWiredToPcl
<1>1. IInv => IntWiredToPcl
  BY DEF IInv
<1>2. QED BY <1>1, Invariance, PTL

\* No SCSI command is left with neither bytes nor interrupt.
THEOREM ScsiCommandsAnswered == Spec => []ScsiAnswered
<1>1. IInv => ScsiAnswered
  BY DEF IInv
<1>2. QED BY <1>1, Invariance, PTL

-------------------------------------------------------------------------------
(* Recursion. *)

\* A set of numbers that has 0 and with each number the next has all of them.
LEMMA Induction ==
    ASSUME NEW S \in SUBSET Nat, 0 \in S, \A n \in S : n + 1 \in S
    PROVE  S = Nat
<1> DEFINE T == Nat \ S
           R == {ss \in Nat \X Nat : ss[1] < ss[2]}
<1>1. IsWellFoundedOn(R, Nat)
  <2>1. IsWellFoundedOn(OpToRel(<, Nat), Nat)
    BY NatLessThanWellFounded
  <2>2. OpToRel(<, Nat) = R
    BY DEF OpToRel
  <2>3. QED
    BY <2>1, <2>2
<1>2. ASSUME T # {} PROVE FALSE
  <2>1. T \subseteq Nat
    OBVIOUS
  <2> HIDE DEF T, R
  <2>2. PICK x \in T : \A y \in T : ~(<<y, x>> \in R)
    BY <1>1, <1>2, <2>1, WFMin, Zenon
  <2>3. x \in Nat /\ x \notin S
    BY DEF T
  <2>4. x # 0
    BY <2>3
  <2>5. x - 1 \in Nat /\ (x - 1) + 1 = x
    BY <2>3, <2>4
  <2>6. x - 1 \notin S
    BY <2>3, <2>5
  <2>7. x - 1 \in T /\ x - 1 < x
    BY <2>5, <2>6 DEF T
  <2>8. <<x - 1, x>> \in R
    BY <2>3, <2>5, <2>7 DEF R
  <2>9. QED
    BY <2>2, <2>7, <2>8, Zenon
<1>3. QED
  BY <1>2

\* f begins with the first value and takes a step from each value to the next.
Recurses(f, first, step, n) ==
    f = [j \in 0 .. n |-> IF j = 0 THEN first ELSE step[<<f[j - 1], j>>]]

\* Such a function exists.
LEMMA RecursionExists ==
    ASSUME NEW D, NEW n \in Nat, NEW first \in D, NEW step \in [D \X (1 .. n) -> D]
    PROVE  \E f \in [0 .. n -> D] : Recurses(f, first, step, n)
<1> DEFINE S == {m \in Nat : m <= n => \E f \in [0 .. m -> D] : Recurses(f, first, step, m)}
<1>1. 0 \in S
  <2> DEFINE f == [j \in 0 .. 0 |-> first]
  <2>1. f \in [0 .. 0 -> D]
    OBVIOUS
  <2>2. Recurses(f, first, step, 0)
    BY DEF Recurses
  <2> HIDE DEF f
  <2>3. QED
    BY <2>1, <2>2
<1>2. ASSUME NEW m \in S
      PROVE  m + 1 \in S
  <2> SUFFICES ASSUME m + 1 <= n
               PROVE  \E g \in [0 .. m + 1 -> D] : Recurses(g, first, step, m + 1)
    OBVIOUS
  <2>1. m \in Nat /\ m <= n
    OBVIOUS
  <2>2. PICK f \in [0 .. m -> D] : Recurses(f, first, step, m)
    BY <2>1
  <2> DEFINE g == [j \in 0 .. m + 1 |-> IF j <= m THEN f[j] ELSE step[<<f[m], m + 1>>]]
  <2>3. step[<<f[m], m + 1>>] \in D
    <3>1. f[m] \in D /\ m + 1 \in 1 .. n
      BY <2>1
    <3>2. <<f[m], m + 1>> \in D \X (1 .. n)
      BY <3>1
    <3>3. QED
      BY <3>2, Zenon
  <2>4. g \in [0 .. m + 1 -> D]
    BY <2>1, <2>3
  <2>5. ASSUME NEW j \in 0 .. m + 1
        PROVE  g[j] = IF j = 0 THEN first ELSE step[<<g[j - 1], j>>]
    <3>1. CASE j <= m
      <4>1. j \in 0 .. m /\ g[j] = f[j] /\ (j # 0 => j - 1 \in 0 .. m + 1 /\ j - 1 <= m)
        BY <2>1, <3>1
      <4>2. f[j] = IF j = 0 THEN first ELSE step[<<f[j - 1], j>>]
        BY <4>1, <2>2, Zenon DEF Recurses
      <4>3. j # 0 => g[j - 1] = f[j - 1]
        BY <4>1
      <4> HIDE DEF g
      <4>4. QED
        BY <4>1, <4>2, <4>3, Zenon
    <3>2. CASE ~(j <= m)
      <4>1. j = m + 1 /\ j # 0 /\ j - 1 = m /\ m \in 0 .. m + 1 /\ m <= m
        BY <2>1, <3>2
      <4>2. g[j] = step[<<f[m], m + 1>>] /\ g[m] = f[m]
        BY <4>1, <3>2
      <4> HIDE DEF g
      <4>3. QED
        BY <4>1, <4>2, Zenon
    <3>3. QED
      BY <3>1, <3>2
  <2>6. Recurses(g, first, step, m + 1)
    <3>1. g = [j \in 0 .. m + 1 |-> g[j]]
      OBVIOUS
    <3> HIDE DEF g
    <3>2. QED
      BY <2>5, <3>1, Zenon DEF Recurses
  <2> HIDE DEF g
  <2>7. QED
    BY <2>4, <2>6
<1>3. n \in S
  <2>1. S \subseteq Nat
    OBVIOUS
  <2> HIDE DEF S
  <2>2. QED
    BY <1>1, <1>2, <2>1, Induction, Zenon
<1>4. QED
  BY <1>3

\* Induction up to a bound.
LEMMA InductionUpTo ==
    ASSUME NEW n \in Nat, NEW S, 0 \in S, \A j \in 1 .. n : j - 1 \in S => j \in S
    PROVE  \A j \in 0 .. n : j \in S
<1> DEFINE T == {j \in Nat : j <= n => j \in S}
<1>1. 0 \in T
  OBVIOUS
<1>2. ASSUME NEW j \in T
      PROVE  j + 1 \in T
  <2>1. j \in Nat /\ (j <= n => j \in S)
    OBVIOUS
  <2> SUFFICES ASSUME j + 1 <= n
               PROVE  j + 1 \in S
    OBVIOUS
  <2>2. j + 1 \in 1 .. n /\ (j + 1) - 1 = j /\ j <= n
    BY <2>1
  <2>3. QED
    BY <2>1, <2>2
<1>3. T = Nat
  <2>1. T \subseteq Nat
    OBVIOUS
  <2> HIDE DEF T
  <2>2. QED
    BY <1>1, <1>2, <2>1, Induction, Zenon
<1>4. QED
  BY <1>3

-------------------------------------------------------------------------------
(* MFM words. *)

Bits == [1 .. 16 -> {0, 1}]

\* decode_word() takes one bit of data after another.
LEMMA DecodedWord ==
    ASSUME NEW bits \in Bits
    PROVE  \E v \in [0 .. 8 -> Nat] :
               /\ DecodeWord(bits) = v[8]
               /\ v[0] = 0
               /\ \A n \in 1 .. 8 : v[n] = 2 * v[n - 1] + bits[2 * n]
<1> DEFINE step == [vn \in Nat \X (1 .. 8) |-> 2 * vn[1] + bits[2 * vn[2]]]
           P(f) == f = [n \in 0 .. 8 |-> IF n = 0 THEN 0 ELSE 2 * f[n - 1] + bits[2 * n]]
           v == CHOOSE f : P(f)
<1>1. \A n \in 1 .. 8 : bits[2 * n] \in Nat
  BY DEF Bits
<1>2. step \in [Nat \X (1 .. 8) -> Nat]
  BY <1>1
<1>3. \A m \in Nat, n \in 1 .. 8 : step[<<m, n>>] = 2 * m + bits[2 * n]
  OBVIOUS
<1> HIDE DEF step
<1>4. PICK f \in [0 .. 8 -> Nat] : Recurses(f, 0, step, 8)
  BY <1>2, RecursionExists, 8 \in Nat, 0 \in Nat
<1>5. P(f)
  <2>1. \A n \in 0 .. 8 : n # 0 => n \in 1 .. 8 /\ f[n - 1] \in Nat
    OBVIOUS
  <2>2. \A n \in 0 .. 8 : (IF n = 0 THEN 0 ELSE step[<<f[n - 1], n>>])
                              = (IF n = 0 THEN 0 ELSE 2 * f[n - 1] + bits[2 * n])
    BY <2>1, <1>3, Zenon
  <2>3. QED
    BY <1>4, <2>2, Zenon DEF Recurses
<1>6. P(v)
  <2> HIDE DEF P
  <2>1. QED
    BY <1>5, Zenon
<1>7. DecodeWord(bits) = v[8]
  BY Zenon DEF DecodeWord
<1> HIDE DEF v
<1>8. v[0] = 0 /\ \A n \in 1 .. 8 : v[n] = 2 * v[n - 1] + bits[2 * n]
  <2>1. 0 \in 0 .. 8 /\ \A n \in 1 .. 8 : n \in 0 .. 8 /\ n # 0
    OBVIOUS
  <2>2. QED
    BY <1>6, <2>1, Zenon
<1>9. v \in [0 .. 8 -> Nat]
  <2>1. \A j \in 0 .. 8 : j \in {n \in 0 .. 8 : v[n] \in Nat}
    <3>1. 0 \in {n \in 0 .. 8 : v[n] \in Nat}
      BY <1>8
    <3>2. \A j \in 1 .. 8 : j - 1 \in {n \in 0 .. 8 : v[n] \in Nat}
                                => j \in {n \in 0 .. 8 : v[n] \in Nat}
      BY <1>1, <1>8
    <3>3. QED
      BY <3>1, <3>2, InductionUpTo, 8 \in Nat
  <2>2. v = [n \in 0 .. 8 |-> v[n]]
    BY <1>6
  <2>3. QED
    BY <2>1, <2>2
<1>10. QED
  BY <1>7, <1>8, <1>9

LEMMA WeightOfBit ==
    ASSUME NEW value \in 0 .. 255
    PROVE  /\ Bit(value, 1) = (value \div 128) % 2 /\ Bit(value, 2) = (value \div 64) % 2
           /\ Bit(value, 3) = (value \div 32) % 2 /\ Bit(value, 4) = (value \div 16) % 2
           /\ Bit(value, 5) = (value \div 8) % 2 /\ Bit(value, 6) = (value \div 4) % 2
           /\ Bit(value, 7) = (value \div 2) % 2 /\ Bit(value, 8) = (value \div 1) % 2
  BY DEF Bit, Weight

LEMMA BitGiven ==
    ASSUME NEW value \in 0 .. 255, NEW n \in 1 .. 8
    PROVE  Bit(value, n) \in {0, 1}
<1>1. Weight[n] \in Nat \ {0}
  BY DEF Weight
<1>2. \A w \in Nat \ {0} : (value \div w) % 2 \in {0, 1}
  OBVIOUS
<1>3. QED
  BY <1>1, <1>2 DEF Bit

LEMMA WordGiven ==
    ASSUME NEW prev \in {0, 1}, NEW value \in 0 .. 255
    PROVE  /\ MfmByte(prev, value) \in Bits
           /\ \A n \in 1 .. 8 : MfmByte(prev, value)[2 * n] = Bit(value, n)
<1> DEFINE word1(i) ==
        LET n == (i + 1) \div 2
            before == IF n = 1 THEN prev ELSE Bit(value, n - 1)
        IN IF i % 2 = 0 THEN Bit(value, n)
           ELSE IF before = 0 /\ Bit(value, n) = 0 THEN 1 ELSE 0
<1>1. MfmByte(prev, value) = [i \in 1 .. 16 |-> word1(i)]
  BY Zenon DEF MfmByte
<1>2. \A i \in 1 .. 16 : word1(i) \in {0, 1}
  <2> SUFFICES ASSUME NEW i \in 1 .. 16
               PROVE  word1(i) \in {0, 1}
    OBVIOUS
  <2>1. (i + 1) \div 2 \in 1 .. 8
    OBVIOUS
  <2>2. QED
    BY <2>1, BitGiven
<1>3. \A n \in 1 .. 8 : 2 * n \in 1 .. 16 /\ word1(2 * n) = Bit(value, n)
  <2> SUFFICES ASSUME NEW n \in 1 .. 8
               PROVE  2 * n \in 1 .. 16 /\ word1(2 * n) = Bit(value, n)
    OBVIOUS
  <2>1. (2 * n) % 2 = 0 /\ (2 * n + 1) \div 2 = n /\ 2 * n \in 1 .. 16
    OBVIOUS
  <2>2. QED
    BY <2>1, Zenon
<1> HIDE DEF word1
<1>4. QED
  BY <1>1, <1>2, <1>3 DEF Bits

LEMMA ReversedTwice ==
    ASSUME NEW bits \in Bits
    PROVE  Reversed(Reversed(bits)) = bits
<1> DEFINE place(i) == IF i <= 8 THEN 9 - i ELSE 25 - i
<1>1. \A i \in 1 .. 16 : place(i) \in 1 .. 16 /\ place(place(i)) = i
  OBVIOUS
<1>2. \A s : Reversed(s) = [i \in 1 .. 16 |-> s[place(i)]]
  BY Zenon DEF Reversed
<1> HIDE DEF place
<1>3. Reversed(Reversed(bits)) = [i \in 1 .. 16 |-> bits[i]]
  BY <1>1, <1>2
<1>4. QED
  BY <1>3 DEF Bits

\* The bits of a byte, from the highest on, make the byte again.
LEMMA ByteReadBack ==
    ASSUME NEW prev \in {0, 1}, NEW value \in 0 .. 255
    PROVE  DecodeWord(MfmByte(prev, value)) = value
<1> DEFINE word1 == MfmByte(prev, value)
<1>1. PICK v \in [0 .. 8 -> Nat] :
          /\ DecodeWord(word1) = v[8]
          /\ v[0] = 0
          /\ \A n \in 1 .. 8 : v[n] = 2 * v[n - 1] + word1[2 * n]
  BY WordGiven, DecodedWord, Zenon
<1>2. \A n \in 1 .. 8 : word1[2 * n] = Bit(value, n)
  BY WordGiven, Zenon
<1> HIDE DEF word1
<1>3. \A n \in 1 .. 8 : v[n] = 2 * v[n - 1] + Bit(value, n)
  BY <1>1, <1>2
<1>4. v[1] = value \div 128
  <2>1. v[1] = 2 * v[0] + Bit(value, 1)
    BY <1>3
  <2>2. QED
    BY <2>1, <1>1, WeightOfBit
<1>5. v[2] = value \div 64
  <2>1. v[2] = 2 * v[1] + Bit(value, 2)
    BY <1>3
  <2>2. QED
    BY <2>1, <1>4, WeightOfBit
<1>6. v[3] = value \div 32
  <2>1. v[3] = 2 * v[2] + Bit(value, 3)
    BY <1>3
  <2>2. QED
    BY <2>1, <1>5, WeightOfBit
<1>7. v[4] = value \div 16
  <2>1. v[4] = 2 * v[3] + Bit(value, 4)
    BY <1>3
  <2>2. QED
    BY <2>1, <1>6, WeightOfBit
<1>8. v[5] = value \div 8
  <2>1. v[5] = 2 * v[4] + Bit(value, 5)
    BY <1>3
  <2>2. QED
    BY <2>1, <1>7, WeightOfBit
<1>9. v[6] = value \div 4
  <2>1. v[6] = 2 * v[5] + Bit(value, 6)
    BY <1>3
  <2>2. QED
    BY <2>1, <1>8, WeightOfBit
<1>10. v[7] = value \div 2
  <2>1. v[7] = 2 * v[6] + Bit(value, 7)
    BY <1>3
  <2>2. QED
    BY <2>1, <1>9, WeightOfBit
<1>11. v[8] = value
  <2>1. v[8] = 2 * v[7] + Bit(value, 8)
    BY <1>3
  <2>2. QED
    BY <2>1, <1>10, WeightOfBit
<1>12. QED
  BY <1>1, <1>11, Zenon DEF word1

\* A sync mark lacks a clock bit between two data bits that are both 0.
LEMMA NoSyncMark ==
    ASSUME NEW prev \in {0, 1}, NEW value \in 0 .. 255
    PROVE  /\ MfmByte(prev, value) # <<0,1,0,0, 0,1,0,0, 1,0,0,0, 1,0,0,1>>
           /\ MfmByte(prev, value) # <<1,0,0,0, 1,0,0,1, 0,1,0,0, 0,1,0,0>>
<1> DEFINE word1 == MfmByte(prev, value)
<1>1. /\ word1[4] = Bit(value, 2) /\ word1[2] = Bit(value, 1)
      /\ word1[10] = Bit(value, 5) /\ word1[12] = Bit(value, 6)
  <2>1. \A n \in 1 .. 8 : word1[2 * n] = Bit(value, n)
    BY WordGiven, Zenon
  <2> HIDE DEF word1
  <2>2. /\ word1[2 * 2] = Bit(value, 2) /\ word1[2 * 1] = Bit(value, 1)
        /\ word1[2 * 5] = Bit(value, 5) /\ word1[2 * 6] = Bit(value, 6)
    BY <2>1
  <2>3. QED
    BY <2>2
<1>2. /\ Bit(value, 1) = 0 /\ Bit(value, 2) = 0 => word1[3] = 1
      /\ Bit(value, 5) = 0 /\ Bit(value, 6) = 0 => word1[11] = 1
  <2>1. /\ 3 \in 1 .. 16 /\ (3 + 1) \div 2 = 2 /\ 3 % 2 = 1 /\ 2 - 1 = 1
        /\ 11 \in 1 .. 16 /\ (11 + 1) \div 2 = 6 /\ 11 % 2 = 1 /\ 6 - 1 = 5
    OBVIOUS
  <2>2. QED
    BY <2>1 DEF MfmByte
<1> HIDE DEF word1
<1>3. word1 # <<0,1,0,0, 0,1,0,0, 1,0,0,0, 1,0,0,1>>
  <2> SUFFICES ASSUME word1 = <<0,1,0,0, 0,1,0,0, 1,0,0,0, 1,0,0,1>>
               PROVE  FALSE
    OBVIOUS
  <2>1. word1[10] = 0 /\ word1[11] = 0 /\ word1[12] = 0
    OBVIOUS
  <2>2. QED
    BY <1>1, <1>2, <2>1
<1>4. word1 # <<1,0,0,0, 1,0,0,1, 0,1,0,0, 0,1,0,0>>
  <2> SUFFICES ASSUME word1 = <<1,0,0,0, 1,0,0,1, 0,1,0,0, 0,1,0,0>>
               PROVE  FALSE
    OBVIOUS
  <2>1. word1[2] = 0 /\ word1[3] = 0 /\ word1[4] = 0
    OBVIOUS
  <2>2. QED
    BY <1>1, <1>2, <2>1
<1>5. QED
  BY <1>3, <1>4 DEF word1

-------------------------------------------------------------------------------
(* Division. *)

LEMMA Division ==
    ASSUME NEW x \in Nat, NEW n \in Nat \ {0}
    PROVE  /\ x \div n \in Nat /\ x % n \in 0 .. n - 1
           /\ x = n * (x \div n) + (x % n)
<1> DEFINE q == x \div n
<1>1. q \in Int /\ x % n \in 0 .. n - 1 /\ x = n * q + (x % n)
  OBVIOUS
<1> HIDE DEF q
<1>2. q >= 0
  <2>1. SUFFICES ASSUME q <= -1
                 PROVE  FALSE
    BY <1>1
  <2>2. n * q <= n * (-1) /\ n * (-1) = -n /\ n * q \in Int
    BY <1>1, <2>1
  <2>3. QED
    BY <1>1, <2>2
<1>3. QED
  BY <1>1, <1>2 DEF q

LEMMA OneQuotient ==
    ASSUME NEW q \in Nat, NEW n \in Nat \ {0}, NEW r \in 0 .. n - 1
    PROVE  (n * q + r) \div n = q /\ (n * q + r) % n = r
<1> DEFINE x == n * q + r
           p == x \div n
           s == x % n
<1>1. x \in Nat
  OBVIOUS
<1>2. p \in Nat /\ s \in 0 .. n - 1 /\ x = n * p + s
  BY <1>1, Division
<1>3. x = n * q + r
  OBVIOUS
<1> HIDE DEF x, p, s
<1>4. ~(p < q)
  <2>1. SUFFICES ASSUME p + 1 <= q
                 PROVE  FALSE
    BY <1>2
  <2>2. n * (p + 1) <= n * q /\ n * (p + 1) = n * p + n /\ n * p \in Nat /\ n * q \in Nat
    BY <1>2, <2>1
  <2>3. QED
    BY <1>2, <1>3, <2>2
<1>5. ~(q < p)
  <2>1. SUFFICES ASSUME q + 1 <= p
                 PROVE  FALSE
    BY <1>2
  <2>2. n * (q + 1) <= n * p /\ n * (q + 1) = n * q + n /\ n * p \in Nat /\ n * q \in Nat
    BY <1>2, <2>1
  <2>3. QED
    BY <1>2, <1>3, <2>2
<1>6. p = q
  BY <1>2, <1>4, <1>5
<1>7. s = r
  <2>1. n * p = n * q /\ n * q \in Nat
    BY <1>6
  <2>2. QED
    BY <1>2, <1>3, <2>1
<1>8. QED
  BY <1>6, <1>7 DEF p, s, x

\* A quotient is below k when the dividend is below k divisors.
LEMMA QuotientBelow ==
    ASSUME NEW x \in Nat, NEW k \in Nat, NEW n \in Nat \ {0}, x < n * k
    PROVE  x \div n < k
<1> DEFINE q == x \div n
<1>1. q \in Nat /\ x % n \in 0 .. n - 1 /\ x = n * q + (x % n)
  BY Division
<1> HIDE DEF q
<1>2. SUFFICES ASSUME k <= q
               PROVE  FALSE
  BY <1>1 DEF q
<1>3. n * k <= n * q /\ n * k \in Nat /\ n * q \in Nat
  BY <1>1, <1>2
<1>4. QED
  BY <1>1, <1>3

-------------------------------------------------------------------------------
(* The disk made round a file. *)

LEMMA DiskNumbers ==
    /\ Tracks \in Nat \ {0} /\ Sides \in Nat \ {0} /\ Sectors \in Nat \ {0}
    /\ Chunk \in Nat \ {0} /\ PerFat \in Nat \ {0}
    /\ TrackSkew \in Nat /\ SideSkew \in Nat /\ MaxDamage \in Nat
    /\ FirstFat \in Nat /\ Reserved \in Nat /\ TotalBlocks \in Nat
    /\ FirstFat <= Reserved /\ Reserved < TotalBlocks
  BY DiskCodecAssumption

DiskBlock == 0 .. TotalBlocks - 1

\* Each block has an entry of its own.
LEMMA EntryOfBlock ==
    ASSUME NEW b \in DiskBlock
    PROVE  /\ FatEntry(b) \in FatPlaces
           /\ (FatEntry(b)[1] - FirstFat) * PerFat + FatEntry(b)[2] = b
<1> DEFINE q == b \div PerFat
           r == b % PerFat
           k == Reserved - FirstFat
<1>1. b \in Nat /\ b < TotalBlocks /\ k \in Nat /\ PerFat \in Nat \ {0}
  BY DiskNumbers DEF DiskBlock
<1>2. b < PerFat * k
  <2>1. k * PerFat >= TotalBlocks /\ k * PerFat = PerFat * k /\ PerFat * k \in Nat
    BY <1>1, DiskCodecAssumption
  <2>2. QED
    BY <1>1, <2>1, DiskNumbers
<1>3. q \in Nat /\ r \in 0 .. PerFat - 1 /\ b = PerFat * q + r
  BY <1>1, Division
<1>4. q < k
  BY <1>1, <1>2, QuotientBelow
<1>5. FatEntry(b) = <<FirstFat + q, r>>
  BY DEF FatEntry
<1> HIDE DEF q, r
<1>6. FirstFat + q \in FirstFat .. Reserved - 1 /\ (FirstFat + q) - FirstFat = q
  BY <1>3, <1>4, DiskNumbers
<1>7. q * PerFat = PerFat * q
  BY <1>1, <1>3
<1>8. QED
  BY <1>3, <1>5, <1>6, <1>7 DEF FatPlaces

LEMMA OwnEntry ==
    ASSUME NEW b \in DiskBlock, NEW c \in DiskBlock, FatEntry(b) = FatEntry(c)
    PROVE  b = c
  BY EntryOfBlock, Zenon

LEMMA FatOfBlank ==
    ASSUME NEW b \in DiskBlock
    PROVE  CreateBlank.fat[FatEntry(b)] = IF b < Reserved THEN 1 ELSE 0
<1> DEFINE p == FatEntry(b)
<1>1. p \in FatPlaces
  BY EntryOfBlock
<1>2. CreateBlank.fat[p] = IF \E c \in 0 .. Reserved - 1 : p = FatEntry(c) THEN 1 ELSE 0
  BY <1>1 DEF CreateBlank
<1>3. (\E c \in 0 .. Reserved - 1 : p = FatEntry(c)) <=> b < Reserved
  <2>1. ASSUME NEW c \in 0 .. Reserved - 1, p = FatEntry(c)
        PROVE  b < Reserved
    <3>1. c \in DiskBlock
      BY DiskNumbers DEF DiskBlock
    <3>2. b = c
      BY <2>1, <3>1, OwnEntry, Zenon
    <3>3. QED
      BY <3>2, DiskNumbers
  <2>2. ASSUME b < Reserved
        PROVE  \E c \in 0 .. Reserved - 1 : p = FatEntry(c)
    <3>1. b \in 0 .. Reserved - 1
      BY <2>2, DiskNumbers DEF DiskBlock
    <3>2. QED
      BY <3>1, Zenon
  <2>3. QED
    BY <2>1, <2>2
<1> HIDE DEF p
<1>4. QED
  BY <1>2, <1>3, Zenon DEF p

\* What the FAT of a disk with a file of n blocks says of each block.
LEMMA FatOfFile ==
    ASSUME NEW n \in 1 .. TotalBlocks - Reserved, NEW b \in DiskBlock
    PROVE  CreateFromEfe(n).fat[FatEntry(b)] =
               IF b \in Reserved .. Reserved + n - 1
               THEN IF b + 1 < Reserved + n THEN b + 1 ELSE 1
               ELSE IF b < Reserved THEN 1 ELSE 0
<1> DEFINE p == FatEntry(b)
           block(x) == (x[1] - FirstFat) * PerFat + x[2]
           next(c) == IF c + 1 < Reserved + n THEN c + 1 ELSE 1
<1>1. p \in FatPlaces /\ block(p) = b
  BY EntryOfBlock
<1>2. CreateFromEfe(n).fat[p] =
          IF block(p) \in Reserved .. Reserved + n - 1
          THEN next(block(p)) ELSE CreateBlank.fat[p]
  BY <1>1 DEF CreateFromEfe, CreateBlank
<1> HIDE DEF p, block
<1>3. QED
  BY <1>1, <1>2, FatOfBlank, Zenon DEF p

\* The blocks whose entry is 0 are those from some block on.
LEMMA FreeBlocks ==
    ASSUME NEW fat, NEW m \in 0 .. TotalBlocks,
           \A b \in DiskBlock : fat[FatEntry(b)] = 0 <=> b >= m
    PROVE  Cardinality({b \in 0 .. TotalBlocks - 1 : fat[FatEntry(b)] = 0}) = TotalBlocks - m
<1>1. {b \in 0 .. TotalBlocks - 1 : fat[FatEntry(b)] = 0} = m .. TotalBlocks - 1
  <2> DEFINE free == {b \in 0 .. TotalBlocks - 1 : fat[FatEntry(b)] = 0}
  <2>1. free = {b \in 0 .. TotalBlocks - 1 : b >= m}
    BY DEF DiskBlock
  <2>2. {b \in 0 .. TotalBlocks - 1 : b >= m} = m .. TotalBlocks - 1
    BY DiskNumbers
  <2>3. QED
    BY <2>1, <2>2
<1>2. Cardinality(m .. TotalBlocks - 1) = TotalBlocks - m
  <2>1. m \in Int /\ TotalBlocks - 1 \in Int
    BY DiskNumbers
  <2>2. Cardinality(m .. TotalBlocks - 1) =
            IF m > TotalBlocks - 1 THEN 0 ELSE (TotalBlocks - 1) - m + 1
    BY <2>1, FS_Interval
  <2>3. QED
    BY <2>2, DiskNumbers
<1>3. QED
  BY <1>1, <1>2

LEMMA BlankFollows ==
    ASSUME efe = CreateBlank
    PROVE  FileFollowsItsChain
<1>1. efe.free = TotalBlocks - Reserved /\ efe.file = 0
  BY DEF CreateBlank
<1>2. \A b \in DiskBlock : efe.fat[FatEntry(b)] = 0 <=> b >= Reserved
  <2> SUFFICES ASSUME NEW b \in DiskBlock
               PROVE  efe.fat[FatEntry(b)] = 0 <=> b >= Reserved
    OBVIOUS
  <2>1. efe.fat[FatEntry(b)] = IF b < Reserved THEN 1 ELSE 0
    BY FatOfBlank, Zenon
  <2>2. QED
    BY <2>1, DiskNumbers DEF DiskBlock
<1>3. Reserved \in 0 .. TotalBlocks
  BY DiskNumbers
<1>4. efe.free = Cardinality({b \in 0 .. TotalBlocks - 1 : efe.fat[FatEntry(b)] = 0})
  <2>1. Cardinality({b \in 0 .. TotalBlocks - 1 : efe.fat[FatEntry(b)] = 0})
            = TotalBlocks - Reserved
    BY <1>2, <1>3, FreeBlocks, Zenon
  <2>2. QED
    BY <1>1, <2>1, Zenon
<1>5. ~(efe.file > 0)
  BY <1>1
<1>6. QED
  BY <1>4, <1>5, Zenon DEF FileFollowsItsChain

\* The chain runs through the blocks of the file in their order.
LEMMA FileFollows ==
    ASSUME NEW n \in 1 .. TotalBlocks - Reserved, efe = CreateFromEfe(n)
    PROVE  FileFollowsItsChain
<1> DEFINE next(b) == efe.fat[FatEntry(b)]
           step == [bk \in DiskBlock \X (1 .. TotalBlocks) |-> next(bk[1])]
           P(f) == f = [k \in 0 .. TotalBlocks |->
                           IF k = 0 THEN efe.start ELSE next(f[k - 1])]
           chain == CHOOSE f : P(f)
<1>1. /\ efe.free = (TotalBlocks - Reserved) - n /\ efe.file = n /\ efe.start = Reserved
      /\ efe.data = [b \in 0 .. TotalBlocks - 1 |->
                       IF b \in Reserved .. Reserved + n - 1 THEN b - Reserved + 1 ELSE 0]
  BY DEF CreateFromEfe
<1>2. n \in Nat /\ n > 0 /\ Reserved + n <= TotalBlocks
  BY DiskNumbers
<1>3. \A b \in DiskBlock : next(b) = IF b \in Reserved .. Reserved + n - 1
                                     THEN IF b + 1 < Reserved + n THEN b + 1 ELSE 1
                                     ELSE IF b < Reserved THEN 1 ELSE 0
  BY FatOfFile, Zenon
<1> HIDE DEF next
<1>4. efe.free = Cardinality({b \in 0 .. TotalBlocks - 1 : efe.fat[FatEntry(b)] = 0})
  <2>1. \A b \in DiskBlock : efe.fat[FatEntry(b)] = 0 <=> b >= Reserved + n
    <3> SUFFICES ASSUME NEW b \in DiskBlock
                 PROVE  next(b) = 0 <=> b >= Reserved + n
      BY DEF next
    <3>1. QED
      BY <1>2, <1>3, DiskNumbers DEF DiskBlock
  <2>2. Reserved + n \in 0 .. TotalBlocks
    BY <1>2, DiskNumbers
  <2>3. Cardinality({b \in 0 .. TotalBlocks - 1 : efe.fat[FatEntry(b)] = 0})
            = TotalBlocks - (Reserved + n)
    BY <2>1, <2>2, FreeBlocks, Zenon
  <2>4. QED
    BY <2>3, <1>1, <1>2, DiskNumbers
<1>5. \A b \in DiskBlock : next(b) \in DiskBlock
  <2>1. FirstFat # Reserved
    BY DiskCodecAssumption
  <2>2. Reserved > 0
    BY <2>1, DiskNumbers
  <2>3. QED
    BY <1>2, <1>3, <2>2, DiskNumbers DEF DiskBlock
<1>6. P(chain)
  <2>1. step \in [DiskBlock \X (1 .. TotalBlocks) -> DiskBlock]
    BY <1>5
  <2>2. \A b \in DiskBlock, k \in 1 .. TotalBlocks : step[<<b, k>>] = next(b)
    OBVIOUS
  <2>3. TotalBlocks \in Nat /\ efe.start \in DiskBlock
    BY <1>1, DiskNumbers DEF DiskBlock
  <2> HIDE DEF step
  <2>4. PICK f \in [0 .. TotalBlocks -> DiskBlock] :
            Recurses(f, efe.start, step, TotalBlocks)
    BY <2>1, <2>3, RecursionExists, Zenon
  <2>5. P(f)
    <3>1. \A k \in 0 .. TotalBlocks : k # 0 => k \in 1 .. TotalBlocks /\ f[k - 1] \in DiskBlock
      BY <2>3
    <3>2. \A k \in 0 .. TotalBlocks :
              (IF k = 0 THEN efe.start ELSE step[<<f[k - 1], k>>])
                  = (IF k = 0 THEN efe.start ELSE next(f[k - 1]))
      BY <3>1, <2>2, Zenon
    <3>3. QED
      BY <2>4, <3>2, Zenon DEF Recurses
  <2> HIDE DEF P
  <2>6. QED
    BY <2>5, Zenon
<1>7. FileFollowsItsChain <=>
          /\ efe.free = Cardinality({b \in 0 .. TotalBlocks - 1 : efe.fat[FatEntry(b)] = 0})
          /\ efe.file > 0 =>
                /\ \A k \in 1 .. efe.file : efe.data[chain[k - 1]] = k
                /\ efe.fat[FatEntry(chain[efe.file - 1])] = 1
  BY Zenon DEF FileFollowsItsChain, next
<1> HIDE DEF chain
<1>8. \A k \in 0 .. n - 1 : k \in {j \in 0 .. n - 1 : chain[j] = Reserved + j}
  <2> DEFINE S == {j \in 0 .. n - 1 : chain[j] = Reserved + j}
  <2>1. chain[0] = Reserved
    BY <1>1, <1>6, DiskNumbers
  <2>2. 0 \in S
    BY <2>1, <1>2, DiskNumbers
  <2>3. ASSUME NEW k \in 1 .. n - 1, k - 1 \in S
        PROVE  k \in S
    <3>1. k \in 0 .. TotalBlocks /\ k # 0 /\ k \in 0 .. n - 1
      BY <1>2, DiskNumbers
    <3>2. chain[k] = next(chain[k - 1])
      BY <1>6, <3>1, Zenon
    <3>3. chain[k - 1] = Reserved + (k - 1)
      BY <2>3
    <3>4. /\ Reserved + (k - 1) \in DiskBlock /\ Reserved + (k - 1) \in Reserved .. Reserved + n - 1
          /\ (Reserved + (k - 1)) + 1 < Reserved + n /\ (Reserved + (k - 1)) + 1 = Reserved + k
      BY <1>2, DiskNumbers DEF DiskBlock
    <3>5. next(Reserved + (k - 1)) = Reserved + k
      BY <1>3, <3>4
    <3>6. QED
      BY <3>1, <3>2, <3>3, <3>5
  <2>4. n - 1 \in Nat
    BY <1>2
  <2> HIDE DEF S
  <2>5. \A k \in 0 .. n - 1 : k \in S
    BY <2>2, <2>3, <2>4, InductionUpTo
  <2>6. QED
    BY <2>5 DEF S
<1>9. \A k \in 1 .. n : efe.data[chain[k - 1]] = k
  <2> SUFFICES ASSUME NEW k \in 1 .. n
               PROVE  efe.data[chain[k - 1]] = k
    OBVIOUS
  <2>1. k - 1 \in 0 .. n - 1
    BY <1>2
  <2>2. chain[k - 1] = Reserved + (k - 1)
    BY <1>8, <2>1
  <2>3. /\ Reserved + (k - 1) \in 0 .. TotalBlocks - 1
        /\ Reserved + (k - 1) \in Reserved .. Reserved + n - 1
        /\ (Reserved + (k - 1)) - Reserved + 1 = k
    BY <1>2, DiskNumbers
  <2>4. QED
    BY <1>1, <2>2, <2>3
<1>10. next(chain[n - 1]) = 1
  <2>1. chain[n - 1] = Reserved + (n - 1) /\ Reserved + (n - 1) \in DiskBlock
    BY <1>2, <1>8, DiskNumbers DEF DiskBlock
  <2>2. QED
    BY <1>2, <1>3, <2>1, DiskNumbers
<1>11. QED
  BY <1>1, <1>4, <1>7, <1>9, <1>10, Zenon DEF next

-------------------------------------------------------------------------------
(* The blocks of a side. *)

LEMMA BlockOfSide ==
    ASSUME NEW t \in TrackNo, NEW s \in SideNo, NEW sector \in SectorNo
    PROVE  BlockOf(t, s, sector) \in Block
<1> DEFINE m == t * Sides + s
<1>1. /\ t \in Nat /\ s \in Nat /\ sector \in Nat /\ t <= Tracks - 1
      /\ s <= Sides - 1 /\ sector <= Sectors - 1
  BY DiskNumbers DEF TrackNo, SideNo, SectorNo
<1>2. m \in Nat /\ m + 1 <= Tracks * Sides /\ Tracks * Sides \in Nat
  <2>1. (t + 1) * Sides <= Tracks * Sides
    BY <1>1, DiskNumbers
  <2>2. (t + 1) * Sides = t * Sides + Sides /\ t * Sides \in Nat /\ Tracks * Sides \in Nat
    BY <1>1, DiskNumbers
  <2>3. QED
    BY <1>1, <2>1, <2>2, DiskNumbers
<1> DEFINE k == Tracks * Sides
<1> HIDE DEF m, k
<1>3. k \in Nat /\ m \in Nat /\ m + 1 <= k
  BY <1>2 DEF k
<1>4. (m + 1) * Sectors <= k * Sectors
  BY <1>3, DiskNumbers
<1>5. (m + 1) * Sectors = m * Sectors + Sectors /\ m * Sectors \in Nat /\ k * Sectors \in Nat
  BY <1>3, DiskNumbers
<1>6. m * Sectors + sector \in 0 .. k * Sectors - 1
  BY <1>1, <1>4, <1>5, DiskNumbers
<1>7. QED
  BY <1>6, Zenon DEF BlockOf, Block, m, k

LEMMA OwnBlock ==
    ASSUME NEW t \in TrackNo, NEW s \in SideNo, NEW i \in SectorNo, NEW j \in SectorNo,
           BlockOf(t, s, i) = BlockOf(t, s, j)
    PROVE  i = j
<1> DEFINE m == (t * Sides + s) * Sectors
<1>1. m \in Int /\ i \in Int /\ j \in Int
  BY DiskNumbers DEF TrackNo, SideNo, SectorNo
<1>2. m + i = m + j
  BY Zenon DEF BlockOf
<1> HIDE DEF m
<1>3. QED
  BY <1>1, <1>2

-------------------------------------------------------------------------------
(* One field. *)

Status == {"missing", "crc", "readable"}

\* What the decoder may have found.
Found == [content : [Block -> Block \cup {Nobody}], status : [Block -> Status],
          pending : SectorNo \cup {Nobody}, seen : SUBSET SectorNo, failed : BOOLEAN]

\* What may be read where the ID of a sector was written, and where the data of
\* a block was.
IdRead(f, t, s, sector) ==
    \/ f = IdField(t, s, sector)
    \/ \E kind \in AnyKind : f = Hit(IdField(t, s, sector), kind)
DataRead(f, b) ==
    \/ f = DataField(b)
    \/ \E kind \in {"lost", "crc"} : f = Hit(DataField(b), kind)

Lost(f) == f.mark = "none"

\* A field that is refused: what was found so far stays, and a block of the side
\* may be marked.
Refused(d, e, t, s, strict) ==
    /\ e \in Found
    /\ e.pending = Nobody /\ e.seen = d.seen /\ e.content = d.content
    /\ e.failed = (d.failed \/ strict)
    /\ \A b \in Block :
          \/ e.status[b] = d.status[b]
          \/ /\ e.status[b] = "crc" /\ d.status[b] # "readable"
             /\ \E i \in SectorNo : b = BlockOf(t, s, i)

LEMMA NobodyIsNoSector == Nobody \notin SectorNo /\ Nobody \notin Block
  BY DiskNumbers DEF Nobody, SectorNo, Block

LEMMA MarkedFound ==
    ASSUME NEW d \in Found, NEW t \in TrackNo, NEW s \in SideNo, NEW i \in SectorNo,
           NEW strict \in BOOLEAN
    PROVE  Refused(d, [Marked(d, BlockOf(t, s, i)) EXCEPT !.failed = @ \/ strict], t, s, strict)
<1> DEFINE block == BlockOf(t, s, i)
           marked == [d.status EXCEPT ![block] = IF @ = "readable" THEN @ ELSE "crc"]
           e == [content |-> d.content, status |-> marked, pending |-> Nobody,
                 seen |-> d.seen, failed |-> d.failed \/ strict]
<1>1. block \in Block
  BY BlockOfSide
<1>2. /\ d.status \in [Block -> Status] /\ d.content \in [Block -> Block \cup {Nobody}]
      /\ d.seen \in SUBSET SectorNo /\ d.failed \in BOOLEAN
  BY DEF Found
<1>3. /\ marked \in [Block -> Status]
      /\ \A b \in Block : \/ marked[b] = d.status[b]
                          \/ marked[b] = "crc" /\ d.status[b] # "readable" /\ b = block
  <2> HIDE DEF block
  <2>1. QED
    BY <1>1, <1>2 DEF Status
<1>4. [Marked(d, block) EXCEPT !.failed = @ \/ strict] = e
  <2>1. [d EXCEPT !.pending = Nobody]
            = [content |-> d.content, status |-> d.status, pending |-> Nobody,
               seen |-> d.seen, failed |-> d.failed]
    BY DEF Found
  <2>2. Marked(d, block) = [[d EXCEPT !.pending = Nobody] EXCEPT !.status = marked]
    BY Zenon DEF Marked
  <2> HIDE DEF marked
  <2>3. Marked(d, block)
            = [content |-> d.content, status |-> marked, pending |-> Nobody,
               seen |-> d.seen, failed |-> d.failed]
    BY <2>1, <2>2
  <2>4. [[content |-> d.content, status |-> marked, pending |-> Nobody,
          seen |-> d.seen, failed |-> d.failed] EXCEPT !.failed = @ \/ strict] = e
    OBVIOUS
  <2> HIDE DEF e
  <2>5. QED
    BY <2>3, <2>4, Zenon
<1> HIDE DEF marked, block
<1>5. e \in Found
  BY <1>2, <1>3 DEF Found
<1>6. /\ e.pending = Nobody /\ e.seen = d.seen /\ e.content = d.content
      /\ e.failed = (d.failed \/ strict) /\ e.status = marked
  OBVIOUS
<1> HIDE DEF e
<1>7. \A b \in Block :
          \/ e.status[b] = d.status[b]
          \/ /\ e.status[b] = "crc" /\ d.status[b] # "readable"
             /\ \E j \in SectorNo : b = BlockOf(t, s, j)
  BY <1>3, <1>6, Zenon DEF block
<1>8. Refused(d, e, t, s, strict)
  BY <1>5, <1>6, <1>7, Zenon DEF Refused
<1>9. QED
  BY <1>4, <1>8, Zenon DEF block

\* An ID is lost, read or refused.
LEMMA IdDecoded ==
    ASSUME NEW d \in Found, NEW t \in TrackNo, NEW s \in SideNo, NEW i \in SectorNo,
           NEW strict \in BOOLEAN, NEW f, IdRead(f, t, s, i)
    PROVE  LET e == Decode(d, f, t, s, strict) IN
           \/ Lost(f) /\ e = d
           \/ f = IdField(t, s, i) /\ ~Lost(f) /\ e = [d EXCEPT !.pending = i]
           \/ f # IdField(t, s, i) /\ ~Lost(f) /\ Refused(d, e, t, s, strict)
<1> DEFINE id == IdField(t, s, i)
<1>1. /\ id.mark = "id" /\ id.track = t /\ id.side = s /\ id.sector = i /\ id.good = TRUE
      /\ id = [mark |-> "id", track |-> t, side |-> s, sector |-> i, holds |-> Nobody,
               good |-> TRUE]
  BY DEF IdField
<1> HIDE DEF id
<1>2. CASE f = id
  <2>1. Decode(d, f, t, s, strict) = DecodeId(d, f, t, s, strict)
    BY <1>1, <1>2 DEF Decode
  <2>2. DecodeId(d, f, t, s, strict) = [d EXCEPT !.pending = i]
    BY <1>1, <1>2 DEF DecodeId
  <2>3. ~Lost(f)
    BY <1>1, <1>2 DEF Lost
  <2>4. QED
    BY <1>2, <2>1, <2>2, <2>3 DEF id
<1>3. CASE f = Hit(id, "lost")
  <2>1. f.mark = "none"
    BY <1>1, <1>3 DEF Hit
  <2>2. Decode(d, f, t, s, strict) = d
    BY <2>1 DEF Decode
  <2>3. QED
    BY <2>1, <2>2 DEF Lost
<1>4. CASE f = Hit(id, "crc") \/ f = Hit(id, "crcOther")
  <2>1. /\ f.mark = "id" /\ f.track = t /\ f.side = s /\ f.good = FALSE
        /\ f.sector = i \/ f.sector = (i + 1) % Sectors
    BY <1>1, <1>4 DEF Hit
  <2>2. f.sector \in SectorNo
    <3>1. i \in Int /\ Sectors \in Nat \ {0}
      BY DiskNumbers DEF SectorNo
    <3>2. (i + 1) % Sectors \in 0 .. Sectors - 1
      BY <3>1
    <3>3. QED
      BY <2>1, <3>2 DEF SectorNo
  <2>3. Decode(d, f, t, s, strict) = DecodeId(d, f, t, s, strict)
    BY <2>1 DEF Decode
  <2>4. DecodeId(d, f, t, s, strict)
            = [Marked(d, BlockOf(t, s, f.sector)) EXCEPT !.failed = @ \/ strict]
    BY <2>1, <2>2, Zenon DEF DecodeId
  <2>5. Refused(d, Decode(d, f, t, s, strict), t, s, strict)
    BY <2>2, <2>3, <2>4, MarkedFound
  <2>6. f # id /\ ~Lost(f)
    BY <1>1, <2>1 DEF Lost
  <2>7. QED
    BY <2>5, <2>6 DEF id
<1>5. CASE f = Hit(id, "foreign")
  <2>1. f.mark = "id" /\ f.track = t + 1
    BY <1>1, <1>5 DEF Hit
  <2>2. f.track # t
    BY <2>1, DiskNumbers DEF TrackNo
  <2>3. Decode(d, f, t, s, strict) = DecodeId(d, f, t, s, strict)
    BY <2>1 DEF Decode
  <2> DEFINE e == [d EXCEPT !.pending = Nobody, !.failed = @ \/ strict]
  <2>4. DecodeId(d, f, t, s, strict) = e
    BY <2>2, Zenon DEF DecodeId
  <2>5. /\ e \in Found /\ e.pending = Nobody /\ e.seen = d.seen /\ e.content = d.content
        /\ e.failed = (d.failed \/ strict) /\ e.status = d.status
    BY DEF Found
  <2> HIDE DEF e
  <2>6. Refused(d, e, t, s, strict)
    BY <2>5, Zenon DEF Refused
  <2>7. f # id /\ ~Lost(f)
    BY <1>1, <2>1, <2>2 DEF Lost
  <2>8. QED
    BY <2>3, <2>4, <2>6, <2>7 DEF id
<1>6. f = id \/ \E kind \in AnyKind : f = Hit(id, kind)
  BY Zenon DEF IdRead, id
<1>7. QED
  BY <1>2, <1>3, <1>4, <1>5, <1>6 DEF AnyKind

\* Data of the sector that waits is new to it.
Takes(d, e, t, s, b) ==
    /\ d.pending \in SectorNo /\ d.pending \notin d.seen
    /\ e = [content |-> [d.content EXCEPT ![BlockOf(t, s, d.pending)] = b],
            status |-> [d.status EXCEPT ![BlockOf(t, s, d.pending)] = "readable"],
            pending |-> Nobody, seen |-> d.seen \cup {d.pending}, failed |-> d.failed]

\* Data is lost, nobody's, refused, there already or taken.
LEMMA DataDecoded ==
    ASSUME NEW d \in Found, NEW t \in TrackNo, NEW s \in SideNo, NEW b \in Block,
           NEW strict \in BOOLEAN, NEW f, DataRead(f, b)
    PROVE  LET e == Decode(d, f, t, s, strict) IN
           \/ Lost(f) /\ e = d
           \/ ~Lost(f) /\ d.pending = Nobody /\ e = d
           \/ ~Lost(f) /\ f # DataField(b) /\ Refused(d, e, t, s, strict)
           \/ ~Lost(f) /\ d.pending \in d.seen /\ e = [d EXCEPT !.pending = Nobody]
           \/ ~Lost(f) /\ f = DataField(b) /\ Takes(d, e, t, s, b)
<1> DEFINE data == DataField(b)
<1>1. data.mark = "data" /\ data.holds = b /\ data.good = TRUE
      /\ data = [mark |-> "data", track |-> Nobody, side |-> Nobody, sector |-> Nobody,
                 holds |-> b, good |-> TRUE]
  BY DEF DataField
<1>2. d.pending = Nobody \/ d.pending \in SectorNo
  BY DEF Found
<1> HIDE DEF data
<1>3. CASE f = Hit(data, "lost")
  <2>1. f.mark = "none"
    BY <1>1, <1>3 DEF Hit
  <2>2. Decode(d, f, t, s, strict) = d
    BY <2>1 DEF Decode
  <2>3. QED
    BY <2>1, <2>2 DEF Lost
<1>4. ASSUME f.mark = "data"
      PROVE  ~Lost(f) /\ Decode(d, f, t, s, strict) = DecodeData(d, f, t, s, strict)
  BY <1>4 DEF Decode, Lost
<1>5. ASSUME f.mark = "data", d.pending = Nobody
      PROVE  ~Lost(f) /\ Decode(d, f, t, s, strict) = d
  BY <1>4, <1>5, Zenon DEF DecodeData
<1>6. CASE f = Hit(data, "crc")
  <2>1. f.mark = "data" /\ f.good = FALSE
    BY <1>1, <1>6 DEF Hit
  <2>2. CASE d.pending = Nobody
    BY <1>5, <2>1, <2>2
  <2>3. CASE d.pending # Nobody
    <3>1. d.pending \in SectorNo
      BY <1>2, <2>3
    <3>2. Decode(d, f, t, s, strict)
              = [Marked(d, BlockOf(t, s, d.pending)) EXCEPT !.failed = @ \/ strict]
      BY <1>4, <2>1, <2>3, Zenon DEF DecodeData
    <3>3. Refused(d, Decode(d, f, t, s, strict), t, s, strict)
      BY <3>1, <3>2, MarkedFound
    <3>4. f # data /\ ~Lost(f)
      BY <1>1, <1>4, <2>1
    <3>5. QED
      BY <3>3, <3>4 DEF data
  <2>4. QED
    BY <2>2, <2>3
<1>7. CASE f = data
  <2>1. f.mark = "data" /\ f.good = TRUE /\ f.holds = b
    BY <1>1, <1>7
  <2>2. CASE d.pending = Nobody
    BY <1>5, <2>1, <2>2
  <2>3. CASE d.pending # Nobody /\ d.pending \in d.seen
    <3>1. DecodeData(d, f, t, s, strict) = [d EXCEPT !.pending = Nobody]
      BY <2>1, <2>3, Zenon DEF DecodeData
    <3>2. QED
      BY <1>4, <2>1, <2>3, <3>1
  <2>4. CASE d.pending # Nobody /\ d.pending \notin d.seen
    <3> DEFINE block == BlockOf(t, s, d.pending)
               e == [d EXCEPT !.pending = Nobody, !.seen = @ \cup {d.pending},
                              !.status[block] = "readable", !.content[block] = f.holds]
    <3>1. DecodeData(d, f, t, s, strict) = e
      BY <2>1, <2>4, Zenon DEF DecodeData
    <3> HIDE DEF block
    <3>2. e = [content |-> [d.content EXCEPT ![block] = b],
               status |-> [d.status EXCEPT ![block] = "readable"],
               pending |-> Nobody, seen |-> d.seen \cup {d.pending}, failed |-> d.failed]
      <4> DEFINE content == [d.content EXCEPT ![block] = b]
                 status == [d.status EXCEPT ![block] = "readable"]
                 seen == d.seen \cup {d.pending}
      <4>1. [d EXCEPT !.pending = Nobody]
                = [content |-> d.content, status |-> d.status, pending |-> Nobody,
                   seen |-> d.seen, failed |-> d.failed]
        BY DEF Found
      <4>2. e = [[[[d EXCEPT !.pending = Nobody] EXCEPT !.seen = seen]
                      EXCEPT !.status = status] EXCEPT !.content = content]
        BY <2>1, Zenon
      <4> HIDE DEF content, status, seen, e
      <4>3. e = [content |-> content, status |-> status, pending |-> Nobody, seen |-> seen,
                 failed |-> d.failed]
        BY <4>1, <4>2
      <4>4. QED
        BY <4>3, Zenon DEF content, status, seen
    <3>3. Takes(d, e, t, s, b)
      BY <1>2, <2>4, <3>2, Zenon DEF Takes, block
    <3> HIDE DEF e
    <3>4. QED
      BY <1>4, <1>7, <2>1, <3>1, <3>3, Zenon DEF data
  <2>5. QED
    BY <2>2, <2>3, <2>4
<1>8. QED
  <2>1. f = data \/ f = Hit(data, "lost") \/ f = Hit(data, "crc")
    BY DEF DataRead, data
  <2>2. QED
    BY <1>3, <1>6, <1>7, <2>1

-------------------------------------------------------------------------------
(* The sectors of a side in the order they are written. *)

First(t, s) == (t * TrackSkew + s * SideSkew) % Sectors
Order(t, s, p) == (First(t, s) + p) % Sectors
Here(t, s, p) == BlockOf(t, s, Order(t, s, p))

LEMMA FirstGiven ==
    ASSUME NEW t \in TrackNo, NEW s \in SideNo
    PROVE  First(t, s) \in SectorNo
<1> DEFINE x == t * TrackSkew + s * SideSkew
<1>1. t \in Nat /\ s \in Nat
  BY DiskNumbers DEF TrackNo, SideNo
<1>2. x \in Nat
  BY <1>1, DiskNumbers
<1> HIDE DEF x
<1>3. x % Sectors \in 0 .. Sectors - 1
  BY <1>2, DiskNumbers, Division, Zenon
<1>4. QED
  BY <1>3, Zenon DEF First, SectorNo, x

LEMMA Wrapped ==
    ASSUME NEW x \in Nat, x < Sectors + Sectors
    PROVE  x % Sectors = IF x < Sectors THEN x ELSE x - Sectors
<1>1. CASE x < Sectors
  <2>1. x \in 0 .. Sectors - 1 /\ 0 \in Nat /\ Sectors * 0 + x = x
    BY <1>1, DiskNumbers
  <2>2. (Sectors * 0 + x) % Sectors = x
    BY <2>1, DiskNumbers, OneQuotient, Zenon
  <2>3. QED
    BY <1>1, <2>1, <2>2
<1>2. CASE ~(x < Sectors)
  <2>1. x - Sectors \in 0 .. Sectors - 1 /\ 1 \in Nat /\ Sectors * 1 + (x - Sectors) = x
    BY <1>2, DiskNumbers
  <2>2. (Sectors * 1 + (x - Sectors)) % Sectors = x - Sectors
    BY <2>1, DiskNumbers, OneQuotient, Zenon
  <2>3. QED
    BY <1>2, <2>1, <2>2
<1>3. QED
  BY <1>1, <1>2

LEMMA OrderGiven ==
    ASSUME NEW t \in TrackNo, NEW s \in SideNo, NEW p \in SectorNo
    PROVE  /\ Order(t, s, p) = IF First(t, s) + p < Sectors THEN First(t, s) + p
                               ELSE (First(t, s) + p) - Sectors
           /\ Order(t, s, p) \in SectorNo
<1>1. ASSUME NEW f \in SectorNo
      PROVE  /\ (f + p) % Sectors = IF f + p < Sectors THEN f + p ELSE (f + p) - Sectors
             /\ (f + p) % Sectors \in SectorNo
  <2>1. f + p \in Nat /\ f + p < Sectors + Sectors
    BY DiskNumbers DEF SectorNo
  <2>2. ASSUME NEW x \in Nat, x < Sectors + Sectors
        PROVE  /\ x % Sectors = IF x < Sectors THEN x ELSE x - Sectors
               /\ x % Sectors \in SectorNo
    <3>1. x % Sectors = IF x < Sectors THEN x ELSE x - Sectors
      BY <2>2, Wrapped, Zenon
    <3>2. (IF x < Sectors THEN x ELSE x - Sectors) \in SectorNo
      BY <2>2, DiskNumbers DEF SectorNo
    <3>3. QED
      BY <3>1, <3>2, Zenon
  <2>3. QED
    BY <2>1, <2>2, Zenon
<1>2. First(t, s) \in SectorNo
  BY FirstGiven, Zenon
<1>3. QED
  BY <1>1, <1>2, Zenon DEF Order

LEMMA OrderOwn ==
    ASSUME NEW t \in TrackNo, NEW s \in SideNo, NEW p \in SectorNo, NEW q \in SectorNo,
           Order(t, s, p) = Order(t, s, q)
    PROVE  p = q
<1> DEFINE f == First(t, s)
<1>1. f \in SectorNo
  BY FirstGiven
<1>2. /\ Order(t, s, p) = IF f + p < Sectors THEN f + p ELSE (f + p) - Sectors
      /\ Order(t, s, q) = IF f + q < Sectors THEN f + q ELSE (f + q) - Sectors
  BY OrderGiven, Zenon
<1> HIDE DEF f
<1>3. (IF f + p < Sectors THEN f + p ELSE (f + p) - Sectors)
          = IF f + q < Sectors THEN f + q ELSE (f + q) - Sectors
  BY <1>2, Zenon
<1>4. QED
  BY <1>1, <1>3, DiskNumbers DEF SectorNo

LEMMA OrderAll ==
    ASSUME NEW t \in TrackNo, NEW s \in SideNo, NEW i \in SectorNo
    PROVE  \E p \in SectorNo : Order(t, s, p) = i
<1> DEFINE f == First(t, s)
           p == IF i >= f THEN i - f ELSE (i - f) + Sectors
<1>1. f \in SectorNo
  BY FirstGiven
<1>2. p \in SectorNo
  <2> HIDE DEF f
  <2>1. QED
    BY <1>1, DiskNumbers DEF SectorNo
<1>3. Order(t, s, p) = IF f + p < Sectors THEN f + p ELSE (f + p) - Sectors
  BY <1>2, OrderGiven, Zenon
<1>4. (IF f + p < Sectors THEN f + p ELSE (f + p) - Sectors) = i
  <2> HIDE DEF f
  <2>1. QED
    BY <1>1, DiskNumbers DEF SectorNo
<1> HIDE DEF f, p
<1>5. QED
  BY <1>2, <1>3, <1>4, Zenon

\* The next position has the next sector.
LEMMA OrderNext ==
    ASSUME NEW t \in TrackNo, NEW s \in SideNo, NEW p \in SectorNo, p + 1 \in SectorNo
    PROVE  Order(t, s, p + 1) = (Order(t, s, p) + 1) % Sectors
<1> DEFINE f == First(t, s)
           i == Order(t, s, p)
<1>1. f \in SectorNo
  BY FirstGiven
<1>2. /\ i = IF f + p < Sectors THEN f + p ELSE (f + p) - Sectors
      /\ Order(t, s, p + 1) = IF f + (p + 1) < Sectors THEN f + (p + 1)
                              ELSE (f + (p + 1)) - Sectors
      /\ i \in SectorNo
  BY OrderGiven, Zenon
<1> HIDE DEF f, i
<1> DEFINE x == i + 1
<1>3. x \in Nat /\ x < Sectors + Sectors
  BY <1>2, DiskNumbers DEF SectorNo
<1>4. (IF x < Sectors THEN x ELSE x - Sectors)
          = IF f + (p + 1) < Sectors THEN f + (p + 1) ELSE (f + (p + 1)) - Sectors
  BY <1>1, <1>2, DiskNumbers DEF SectorNo
<1> HIDE DEF x
<1>5. x % Sectors = IF x < Sectors THEN x ELSE x - Sectors
  BY <1>3, Wrapped, Zenon
<1>6. QED
  BY <1>2, <1>4, <1>5, Zenon DEF i, x

LEMMA HereOwn ==
    ASSUME NEW t \in TrackNo, NEW s \in SideNo, NEW p \in SectorNo
    PROVE  /\ Here(t, s, p) \in Block
           /\ \A q \in SectorNo : Here(t, s, q) = Here(t, s, p) => q = p
<1>1. Order(t, s, p) \in SectorNo
  BY OrderGiven
<1>2. Here(t, s, p) \in Block
  BY <1>1, BlockOfSide DEF Here
<1>3. ASSUME NEW q \in SectorNo, Here(t, s, q) = Here(t, s, p)
      PROVE  q = p
  <2>1. Order(t, s, q) \in SectorNo
    BY OrderGiven
  <2>2. BlockOf(t, s, Order(t, s, q)) = BlockOf(t, s, Order(t, s, p))
    BY <1>3 DEF Here
  <2>3. Order(t, s, q) = Order(t, s, p)
    BY <1>1, <2>1, <2>2, OwnBlock, Zenon
  <2>4. QED
    BY <2>3, OrderOwn, Zenon
<1>4. QED
  BY <1>2, <1>3

-------------------------------------------------------------------------------
(* One side. *)

\* The fields A of a side, each as it was written or hit.
IdAt(A, p) == A[2 * p + 1]
DataAt(A, p) == A[2 * p + 2]
Stream(A, t, s) == \A p \in SectorNo : /\ IdRead(IdAt(A, p), t, s, Order(t, s, p))
                                       /\ DataRead(DataAt(A, p), Here(t, s, p))
IdWhole(A, t, s, p) == IdAt(A, p) = IdField(t, s, Order(t, s, p))
DataWhole(A, t, s, p) == DataAt(A, p) = DataField(Here(t, s, p))
Whole(A, t, s) == \A p \in SectorNo : IdWhole(A, t, s, p) /\ DataWhole(A, t, s, p)

\* The data of a position and the next ID are lost.
RunsOver(A, p) == p + 1 \in SectorNo /\ Lost(DataAt(A, p)) /\ Lost(IdAt(A, p + 1))

\* After k sectors of the side, a sector that waits lost its data, and whatever
\* came after it was lost as well.
Waiting(d, A, t, s, k) ==
    d.pending # Nobody =>
        \E p \in SectorNo :
           /\ d.pending = Order(t, s, p) /\ p < k
           /\ ~Lost(IdAt(A, p)) /\ Lost(DataAt(A, p))
           /\ p + 1 < k => Lost(IdAt(A, p + 1))

\* The same after the ID of the next sector.
WaitingForData(d, A, t, s, k) ==
    /\ d.pending # Nobody =>
           \E p \in SectorNo :
              /\ d.pending = Order(t, s, p) /\ ~Lost(IdAt(A, p))
              /\ p = k \/ (p < k /\ RunsOver(A, p))
    /\ IdWhole(A, t, s, k) => d.pending = Order(t, s, k)

\* What k sectors of the side have made of what was found before them, c.
SoFar(c, d, A, t, s, k) ==
    /\ d \in Found
    /\ \A p \in SectorNo : Order(t, s, p) \in d.seen =>
          /\ p < k /\ ~Lost(IdAt(A, p))
          /\ d.status[Here(t, s, p)] = "readable"
          /\ d.content[Here(t, s, p)] = Here(t, s, p) \/ RunsOver(A, p)
    /\ \A p \in SectorNo : d.status[Here(t, s, p)] = "readable" =>
          Order(t, s, p) \in d.seen \/ c.status[Here(t, s, p)] = "readable"
    /\ \A p \in SectorNo : p < k /\ IdWhole(A, t, s, p) /\ DataWhole(A, t, s, p) =>
          Order(t, s, p) \in d.seen /\ d.content[Here(t, s, p)] = Here(t, s, p)
    /\ \A b \in Block : (\A p \in SectorNo : b # Here(t, s, p)) =>
          d.content[b] = c.content[b] /\ d.status[b] = c.status[b]
    /\ c.failed => d.failed
    /\ Whole(A, t, s) => d.failed = c.failed

\* A field that finds nothing new.
Quiet(d, e, A, t, s) ==
    /\ e \in Found /\ e.seen = d.seen /\ e.content = d.content
    /\ d.failed => e.failed
    /\ Whole(A, t, s) => e.failed = d.failed
    /\ \A b \in Block :
          \/ e.status[b] = d.status[b]
          \/ /\ e.status[b] = "crc" /\ d.status[b] # "readable"
             /\ \E i \in SectorNo : b = BlockOf(t, s, i)

LEMMA QuietField ==
    ASSUME NEW t \in TrackNo, NEW s \in SideNo, NEW A, NEW c, NEW d, NEW e, NEW k \in SectorNo,
           NEW m \in {k, k + 1}, SoFar(c, d, A, t, s, k), Quiet(d, e, A, t, s),
           m = k \/ ~IdWhole(A, t, s, k) \/ ~DataWhole(A, t, s, k)
    PROVE  SoFar(c, e, A, t, s, m)
<1>1. e \in Found /\ d \in Found
  BY Zenon DEF Quiet, SoFar
<1>2. \A p \in SectorNo : Here(t, s, p) \in Block
  BY HereOwn, Zenon
<1>3. \A p \in SectorNo : (p < k => p < m) /\ (p < m => p < k \/ (p = k /\ m # k))
  BY DiskNumbers DEF SectorNo
<1>4. \A p \in SectorNo : d.status[Here(t, s, p)] = "readable"
                             <=> e.status[Here(t, s, p)] = "readable"
  <2>1. "crc" # "readable"
    OBVIOUS
  <2>2. QED
    BY <1>2, <2>1, Zenon DEF Quiet
<1>5. \A p \in SectorNo : Order(t, s, p) \in e.seen =>
          /\ p < m /\ ~Lost(IdAt(A, p))
          /\ e.status[Here(t, s, p)] = "readable"
          /\ e.content[Here(t, s, p)] = Here(t, s, p) \/ RunsOver(A, p)
  <2> SUFFICES ASSUME NEW p \in SectorNo, Order(t, s, p) \in e.seen
               PROVE  /\ p < m /\ ~Lost(IdAt(A, p))
                      /\ e.status[Here(t, s, p)] = "readable"
                      /\ e.content[Here(t, s, p)] = Here(t, s, p) \/ RunsOver(A, p)
    OBVIOUS
  <2>1. e.seen = d.seen /\ e.content = d.content
    BY Zenon DEF Quiet
  <2>2. /\ p < k /\ ~Lost(IdAt(A, p))
        /\ d.status[Here(t, s, p)] = "readable"
        /\ d.content[Here(t, s, p)] = Here(t, s, p) \/ RunsOver(A, p)
    BY <2>1, Zenon DEF SoFar
  <2>3. QED
    BY <1>3, <1>4, <2>1, <2>2, Zenon
<1>6. \A p \in SectorNo : e.status[Here(t, s, p)] = "readable" =>
          Order(t, s, p) \in e.seen \/ c.status[Here(t, s, p)] = "readable"
  BY <1>4, Zenon DEF SoFar, Quiet
<1>7. \A p \in SectorNo : p < m /\ IdWhole(A, t, s, p) /\ DataWhole(A, t, s, p) =>
          Order(t, s, p) \in e.seen /\ e.content[Here(t, s, p)] = Here(t, s, p)
  <2>1. ASSUME NEW p \in SectorNo, p < m, IdWhole(A, t, s, p), DataWhole(A, t, s, p)
        PROVE  p < k
    BY <1>3, <2>1, Zenon
  <2>2. \A p \in SectorNo : p < k /\ IdWhole(A, t, s, p) /\ DataWhole(A, t, s, p) =>
            Order(t, s, p) \in d.seen /\ d.content[Here(t, s, p)] = Here(t, s, p)
    BY Zenon DEF SoFar
  <2>3. e.seen = d.seen /\ e.content = d.content
    BY Zenon DEF Quiet
  <2>4. QED
    BY <2>1, <2>2, <2>3, Zenon
<1>8. ASSUME NEW b \in Block, \A p \in SectorNo : b # Here(t, s, p)
      PROVE  e.content[b] = c.content[b] /\ e.status[b] = c.status[b]
  <2>1. ~\E i \in SectorNo : b = BlockOf(t, s, i)
    <3> SUFFICES ASSUME NEW i \in SectorNo, b = BlockOf(t, s, i)
                 PROVE  FALSE
      OBVIOUS
    <3>1. PICK p \in SectorNo : Order(t, s, p) = i
      BY OrderAll, Zenon
    <3>2. b = Here(t, s, p)
      BY <3>1, Zenon DEF Here
    <3>3. QED
      BY <1>8, <3>2, Zenon
  <2>2. e.content = d.content /\ e.status[b] = d.status[b]
    BY <2>1, Zenon DEF Quiet
  <2>3. d.content[b] = c.content[b] /\ d.status[b] = c.status[b]
    BY <1>8, Zenon DEF SoFar
  <2>4. QED
    BY <2>2, <2>3, Zenon
<1>9. (c.failed => e.failed) /\ (Whole(A, t, s) => e.failed = c.failed)
  BY Zenon DEF SoFar, Quiet
<1>10. QED
  BY <1>1, <1>5, <1>6, <1>7, <1>8, <1>9, Zenon DEF SoFar

LEMMA RefusedQuiet ==
    ASSUME NEW t \in TrackNo, NEW s \in SideNo, NEW A, NEW d, NEW e, NEW strict \in BOOLEAN,
           Refused(d, e, t, s, strict), ~Whole(A, t, s), d \in Found
    PROVE  Quiet(d, e, A, t, s)
<1>1. e.failed = (d.failed \/ strict)
  BY Zenon DEF Refused
<1>2. d.failed => e.failed
  BY <1>1
<1>3. QED
  BY <1>2, Zenon DEF Refused, Quiet

\* A change of what waits for data is quiet.
LEMMA PendingQuiet ==
    ASSUME NEW t, NEW s, NEW A, NEW d \in Found, NEW i \in SectorNo \cup {Nobody}
    PROVE  Quiet(d, [d EXCEPT !.pending = i], A, t, s) /\ [d EXCEPT !.pending = i].pending = i
<1> DEFINE e == [d EXCEPT !.pending = i]
<1>1. /\ e \in Found /\ e.seen = d.seen /\ e.content = d.content /\ e.failed = d.failed
      /\ e.status = d.status /\ e.pending = i
  BY DEF Found
<1> HIDE DEF e
<1>2. Quiet(d, e, A, t, s)
  BY <1>1, Zenon DEF Quiet
<1>3. QED
  BY <1>1, <1>2, Zenon DEF e

LEMMA SameQuiet ==
    ASSUME NEW t, NEW s, NEW A, NEW d \in Found
    PROVE  Quiet(d, d, A, t, s)
  BY Zenon DEF Quiet

\* The ID of the next sector.
LEMMA IdStep ==
    ASSUME NEW t \in TrackNo, NEW s \in SideNo, NEW strict \in BOOLEAN, NEW A,
           Stream(A, t, s), NEW c, NEW d, NEW k \in SectorNo,
           SoFar(c, d, A, t, s, k), Waiting(d, A, t, s, k)
    PROVE  LET e == Decode(d, IdAt(A, k), t, s, strict) IN
           SoFar(c, e, A, t, s, k) /\ WaitingForData(e, A, t, s, k)
<1> DEFINE f == IdAt(A, k)
           e == Decode(d, f, t, s, strict)
           i == Order(t, s, k)
<1>1. d \in Found /\ i \in SectorNo /\ IdRead(f, t, s, i)
  BY OrderGiven, Zenon DEF SoFar, Stream
<1> HIDE DEF i, f
<1>2. \/ Lost(f) /\ e = d
      \/ f = IdField(t, s, i) /\ ~Lost(f) /\ e = [d EXCEPT !.pending = i]
      \/ f # IdField(t, s, i) /\ ~Lost(f) /\ Refused(d, e, t, s, strict)
  BY <1>1, IdDecoded
<1>3. IdWhole(A, t, s, k) <=> f = IdField(t, s, i)
  BY Zenon DEF IdWhole, f, i
<1>4. IdWhole(A, t, s, k) => ~Lost(f)
  <2>1. IdField(t, s, i).mark # "none"
    BY DEF IdField
  <2>2. QED
    BY <1>3, <2>1, Zenon DEF Lost
<1>5. Nobody \notin SectorNo
  BY NobodyIsNoSector
<1> HIDE DEF e
<1>6. CASE Lost(f) /\ e = d
  <2>1. SoFar(c, e, A, t, s, k)
    BY <1>6, Zenon
  <2>2. ASSUME d.pending # Nobody
        PROVE  \E p \in SectorNo :
                  /\ d.pending = Order(t, s, p) /\ ~Lost(IdAt(A, p))
                  /\ p = k \/ (p < k /\ RunsOver(A, p))
    <3>1. PICK p \in SectorNo :
             /\ d.pending = Order(t, s, p) /\ p < k
             /\ ~Lost(IdAt(A, p)) /\ Lost(DataAt(A, p))
             /\ p + 1 < k => Lost(IdAt(A, p + 1))
      BY <2>2, Zenon DEF Waiting
    <3>2. p + 1 \in SectorNo /\ (p + 1 < k \/ p + 1 = k)
      BY <3>1, DiskNumbers DEF SectorNo
    <3>3. Lost(IdAt(A, p + 1))
      BY <1>6, <3>1, <3>2, Zenon DEF f
    <3>4. QED
      BY <3>1, <3>2, <3>3, Zenon DEF RunsOver
  <2>3. ~IdWhole(A, t, s, k)
    BY <1>4, <1>6, Zenon
  <2>4. WaitingForData(e, A, t, s, k)
    BY <1>6, <2>2, <2>3, Zenon DEF WaitingForData
  <2>5. QED
    BY <2>1, <2>4, Zenon DEF e, f
<1>7. CASE f = IdField(t, s, i) /\ ~Lost(f) /\ e = [d EXCEPT !.pending = i]
  <2>1. Quiet(d, e, A, t, s) /\ e.pending = i
    BY <1>1, <1>7, PendingQuiet, Zenon
  <2>2. SoFar(c, e, A, t, s, k)
    BY <2>1, QuietField, Zenon
  <2>3. WaitingForData(e, A, t, s, k)
    <3>1. e.pending = Order(t, s, k) /\ ~Lost(IdAt(A, k))
      BY <1>7, <2>1, Zenon DEF i, f
    <3>2. QED
      BY <3>1, Zenon DEF WaitingForData
  <2>4. QED
    BY <2>2, <2>3, Zenon DEF e, f
<1>8. CASE f # IdField(t, s, i) /\ ~Lost(f) /\ Refused(d, e, t, s, strict)
  <2>1. ~IdWhole(A, t, s, k) /\ ~Whole(A, t, s)
    BY <1>3, <1>8, Zenon DEF Whole
  <2>2. Quiet(d, e, A, t, s)
    BY <1>1, <1>8, <2>1, RefusedQuiet, Zenon
  <2>3. SoFar(c, e, A, t, s, k)
    BY <2>2, QuietField, Zenon
  <2>4. WaitingForData(e, A, t, s, k)
    BY <1>8, <2>1, Zenon DEF WaitingForData, Refused
  <2>5. QED
    BY <2>3, <2>4, Zenon DEF e, f
<1>9. QED
  BY <1>2, <1>6, <1>7, <1>8, Zenon

\* What data that is taken leaves.
LEMMA TakesFound ==
    ASSUME NEW t \in TrackNo, NEW s \in SideNo, NEW d \in Found, NEW e, NEW b \in Block,
           Takes(d, e, t, s, b), NEW h, h = BlockOf(t, s, d.pending)
    PROVE  /\ e \in Found /\ e.pending = Nobody /\ e.seen = d.seen \cup {d.pending}
           /\ e.failed = d.failed /\ e.content[h] = b /\ e.status[h] = "readable"
           /\ \A x \in Block : x # h => e.content[x] = d.content[x] /\ e.status[x] = d.status[x]
<1> DEFINE content == [d.content EXCEPT ![h] = b]
           status == [d.status EXCEPT ![h] = "readable"]
           seen == d.seen \cup {d.pending}
<1>1. d.pending \in SectorNo
  BY Zenon DEF Takes
<1>2. h \in Block
  BY <1>1, BlockOfSide, Zenon
<1>3. /\ d.content \in [Block -> Block \cup {Nobody}] /\ d.status \in [Block -> Status]
      /\ d.seen \subseteq SectorNo /\ d.failed \in BOOLEAN
  BY DEF Found
<1>4. e = [content |-> content, status |-> status, pending |-> Nobody, seen |-> seen,
           failed |-> d.failed]
  BY Zenon DEF Takes
<1>5. /\ content \in [Block -> Block \cup {Nobody}] /\ content[h] = b
      /\ \A x \in Block : x # h => content[x] = d.content[x]
  BY <1>2, <1>3
<1>6. /\ status \in [Block -> Status] /\ status[h] = "readable"
      /\ \A x \in Block : x # h => status[x] = d.status[x]
  BY <1>2, <1>3 DEF Status
<1>7. seen \in SUBSET SectorNo
  BY <1>1, <1>3
<1> HIDE DEF content, status
<1>8. e \in Found
  BY <1>3, <1>4, <1>5, <1>6, <1>7 DEF Found
<1>9. /\ e.content = content /\ e.status = status /\ e.pending = Nobody
      /\ e.seen = d.seen \cup {d.pending} /\ e.failed = d.failed
  BY <1>4
<1>10. QED
  BY <1>5, <1>6, <1>8, <1>9, Zenon

\* Data that is taken is that of the sector that waits, or of a later one after
\* two lost fields.
LEMMA TakesStep ==
    ASSUME NEW t \in TrackNo, NEW s \in SideNo, NEW A, NEW c, NEW d, NEW e,
           NEW k \in SectorNo, SoFar(c, d, A, t, s, k), WaitingForData(d, A, t, s, k),
           Takes(d, e, t, s, Here(t, s, k))
    PROVE  SoFar(c, e, A, t, s, k + 1)
<1>1. d.pending \in SectorNo /\ d.pending \notin d.seen /\ d \in Found
  BY Zenon DEF Takes, SoFar
<1>2. PICK q \in SectorNo :
         /\ d.pending = Order(t, s, q) /\ ~Lost(IdAt(A, q))
         /\ q = k \/ (q < k /\ RunsOver(A, q))
  BY <1>1, NobodyIsNoSector, Zenon DEF WaitingForData
<1> DEFINE h == Here(t, s, q)
<1>3. h \in Block /\ Here(t, s, k) \in Block
  BY HereOwn, Zenon
<1>4. \A p \in SectorNo : /\ Here(t, s, p) \in Block
                          /\ Here(t, s, p) = h => p = q
                          /\ Order(t, s, p) = Order(t, s, q) => p = q
  BY HereOwn, OrderOwn, Zenon
<1>5. /\ e \in Found /\ e.pending = Nobody /\ e.seen = d.seen \cup {Order(t, s, q)}
      /\ e.failed = d.failed /\ e.content[h] = Here(t, s, k) /\ e.status[h] = "readable"
      /\ \A b \in Block : b # h => e.content[b] = d.content[b] /\ e.status[b] = d.status[b]
  <2>1. BlockOf(t, s, d.pending) = h
    BY <1>2, Zenon DEF Here
  <2>2. d.seen \cup {d.pending} = d.seen \cup {Order(t, s, q)}
    BY <1>2
  <2> HIDE DEF h
  <2>3. /\ e \in Found /\ e.pending = Nobody /\ e.seen = d.seen \cup {d.pending}
        /\ e.failed = d.failed /\ e.content[h] = Here(t, s, k) /\ e.status[h] = "readable"
        /\ \A b \in Block : b # h => e.content[b] = d.content[b] /\ e.status[b] = d.status[b]
    BY <1>1, <1>3, <2>1, TakesFound
  <2>4. QED
    BY <2>2, <2>3, Zenon
<1> HIDE DEF h
<1>6. k \in Nat /\ k < k + 1 /\ \A p \in SectorNo : p < k + 1 <=> p < k \/ p = k
  BY DiskNumbers DEF SectorNo
<1>7. ASSUME NEW p \in SectorNo, Order(t, s, p) \in e.seen
       PROVE  /\ p < k + 1 /\ ~Lost(IdAt(A, p))
              /\ e.status[Here(t, s, p)] = "readable"
              /\ e.content[Here(t, s, p)] = Here(t, s, p) \/ RunsOver(A, p)
  <2>1. CASE p = q
    BY <1>2, <1>5, <1>6, <2>1, Zenon DEF h
  <2>2. CASE p # q
    <3>1. Order(t, s, p) \in d.seen
      BY <1>4, <1>5, <1>7, <2>2
    <3>2. Here(t, s, p) # h /\ Here(t, s, p) \in Block
      BY <1>4, <2>2, Zenon
    <3>3. /\ p < k /\ ~Lost(IdAt(A, p))
          /\ d.status[Here(t, s, p)] = "readable"
          /\ d.content[Here(t, s, p)] = Here(t, s, p) \/ RunsOver(A, p)
      BY <3>1, Zenon DEF SoFar
    <3>4. QED
      BY <1>5, <1>6, <3>2, <3>3, Zenon
  <2>3. QED
    BY <2>1, <2>2
<1>8. ASSUME NEW p \in SectorNo, e.status[Here(t, s, p)] = "readable"
       PROVE  Order(t, s, p) \in e.seen \/ c.status[Here(t, s, p)] = "readable"
  <2>1. CASE p = q
    BY <1>5, <2>1
  <2>2. CASE p # q
    <3>1. Here(t, s, p) # h /\ Here(t, s, p) \in Block
      BY <1>4, <2>2, Zenon
    <3>2. d.status[Here(t, s, p)] = "readable"
      BY <1>5, <1>8, <3>1, Zenon
    <3>3. Order(t, s, p) \in d.seen \/ c.status[Here(t, s, p)] = "readable"
      BY <3>2, Zenon DEF SoFar
    <3>4. QED
      BY <1>5, <3>3
  <2>3. QED
    BY <2>1, <2>2
<1>9. ASSUME NEW p \in SectorNo, p < k + 1, IdWhole(A, t, s, p), DataWhole(A, t, s, p)
       PROVE  Order(t, s, p) \in e.seen /\ e.content[Here(t, s, p)] = Here(t, s, p)
  <2>1. CASE p = k
    <3>1. Order(t, s, q) = Order(t, s, p)
      BY <1>2, <1>9, <2>1, Zenon DEF WaitingForData
    <3>2. p = q
      BY <1>4, <3>1, Zenon
    <3>3. QED
      BY <1>5, <2>1, <3>2 DEF h
  <2>2. CASE p # k
    <3>1. Order(t, s, p) \in d.seen /\ d.content[Here(t, s, p)] = Here(t, s, p)
      BY <1>6, <1>9, <2>2, Zenon DEF SoFar
    <3>2. p # q
      BY <1>1, <1>2, <3>1, Zenon
    <3>3. Here(t, s, p) # h /\ Here(t, s, p) \in Block
      BY <1>4, <3>2, Zenon
    <3>4. e.content[Here(t, s, p)] = Here(t, s, p)
      BY <1>5, <3>1, <3>3, Zenon
    <3>5. QED
      BY <1>5, <3>1, <3>4
  <2>3. QED
    BY <2>1, <2>2
<1>10. ASSUME NEW b \in Block, \A p \in SectorNo : b # Here(t, s, p)
       PROVE  e.content[b] = c.content[b] /\ e.status[b] = c.status[b]
  <2>1. b # h
    BY <1>10, Zenon DEF h
  <2>2. QED
    BY <1>5, <1>10, <2>1, Zenon DEF SoFar
<1>11. (c.failed => e.failed) /\ (Whole(A, t, s) => e.failed = c.failed)
  BY <1>5, Zenon DEF SoFar
<1>12. QED
  BY <1>5, <1>7, <1>8, <1>9, <1>10, <1>11, Zenon DEF SoFar

\* The data of the next sector.
LEMMA DataStep ==
    ASSUME NEW t \in TrackNo, NEW s \in SideNo, NEW strict \in BOOLEAN, NEW A,
           Stream(A, t, s), NEW c, NEW d, NEW k \in SectorNo,
           SoFar(c, d, A, t, s, k), WaitingForData(d, A, t, s, k)
    PROVE  LET e == Decode(d, DataAt(A, k), t, s, strict) IN
           SoFar(c, e, A, t, s, k + 1) /\ Waiting(e, A, t, s, k + 1)
<1> DEFINE f == DataAt(A, k)
           e == Decode(d, f, t, s, strict)
           b == Here(t, s, k)
<1>1. d \in Found /\ b \in Block /\ DataRead(f, b)
  BY HereOwn, Zenon DEF SoFar, Stream
<1>2. \/ Lost(f) /\ e = d
      \/ ~Lost(f) /\ d.pending = Nobody /\ e = d
      \/ ~Lost(f) /\ f # DataField(b) /\ Refused(d, e, t, s, strict)
      \/ ~Lost(f) /\ d.pending \in d.seen /\ e = [d EXCEPT !.pending = Nobody]
      \/ ~Lost(f) /\ f = DataField(b) /\ Takes(d, e, t, s, b)
  BY <1>1, DataDecoded, Zenon
<1>3. DataWhole(A, t, s, k) <=> f = DataField(b)
  BY Zenon DEF DataWhole
<1>4. DataWhole(A, t, s, k) => ~Lost(f)
  <2>1. DataField(b).mark # "none"
    BY DEF DataField
  <2>2. QED
    BY <1>3, <2>1, Zenon DEF Lost
<1>5. Nobody \notin SectorNo /\ k + 1 \in {k, k + 1}
  BY NobodyIsNoSector
<1>6. ASSUME e.pending = Nobody
      PROVE  Waiting(e, A, t, s, k + 1)
  BY <1>6, Zenon DEF Waiting
<1> HIDE DEF e
<1>7. ASSUME Quiet(d, e, A, t, s), ~IdWhole(A, t, s, k) \/ ~DataWhole(A, t, s, k)
      PROVE  SoFar(c, e, A, t, s, k + 1)
  BY <1>5, <1>7, QuietField, Zenon
<1>8. CASE Lost(f) /\ e = d
  <2>1. SoFar(c, e, A, t, s, k + 1)
    BY <1>1, <1>4, <1>7, <1>8, SameQuiet, Zenon
  <2>2. ASSUME d.pending # Nobody
        PROVE  \E p \in SectorNo :
                  /\ d.pending = Order(t, s, p) /\ p < k + 1
                  /\ ~Lost(IdAt(A, p)) /\ Lost(DataAt(A, p))
                  /\ p + 1 < k + 1 => Lost(IdAt(A, p + 1))
    <3>1. PICK p \in SectorNo :
             /\ d.pending = Order(t, s, p) /\ ~Lost(IdAt(A, p))
             /\ p = k \/ (p < k /\ RunsOver(A, p))
      BY <2>2, Zenon DEF WaitingForData
    <3>2. p < k + 1 /\ (p = k => ~(p + 1 < k + 1))
      BY <3>1, DiskNumbers DEF SectorNo
    <3>3. QED
      BY <1>8, <3>1, <3>2, Zenon DEF RunsOver
  <2>3. Waiting(e, A, t, s, k + 1)
    BY <1>8, <2>2, Zenon DEF Waiting
  <2>4. QED
    BY <2>1, <2>3, Zenon DEF e
<1>9. CASE ~Lost(f) /\ d.pending = Nobody /\ e = d
  <2>1. ~IdWhole(A, t, s, k)
    <3>1. Order(t, s, k) \in SectorNo
      BY OrderGiven, Zenon
    <3>2. QED
      BY <1>5, <1>9, <3>1, Zenon DEF WaitingForData
  <2>2. SoFar(c, e, A, t, s, k + 1)
    BY <1>1, <1>7, <1>9, <2>1, SameQuiet, Zenon
  <2>3. QED
    BY <1>6, <1>9, <2>2, Zenon DEF e
<1>10. CASE ~Lost(f) /\ f # DataField(b) /\ Refused(d, e, t, s, strict)
  <2>1. ~DataWhole(A, t, s, k) /\ ~Whole(A, t, s)
    BY <1>3, <1>10, Zenon DEF Whole
  <2>2. Quiet(d, e, A, t, s)
    BY <1>1, <1>10, <2>1, RefusedQuiet, Zenon
  <2>3. e.pending = Nobody
    BY <1>10, Zenon DEF Refused
  <2>4. QED
    BY <1>6, <1>7, <2>1, <2>2, <2>3, Zenon DEF e
<1>11. CASE ~Lost(f) /\ d.pending \in d.seen /\ e = [d EXCEPT !.pending = Nobody]
  <2>1. Quiet(d, e, A, t, s) /\ e.pending = Nobody
    BY <1>1, <1>11, PendingQuiet, Zenon
  <2>2. ~IdWhole(A, t, s, k)
    <3>1. SUFFICES ASSUME d.pending = Order(t, s, k)
                   PROVE  FALSE
      BY Zenon DEF WaitingForData
    <3>2. k < k
      BY <1>11, <3>1, Zenon DEF SoFar
    <3>3. QED
      BY <3>2, DiskNumbers DEF SectorNo
  <2>3. QED
    BY <1>6, <1>7, <2>1, <2>2, Zenon DEF e
<1>12. CASE ~Lost(f) /\ f = DataField(b) /\ Takes(d, e, t, s, b)
  <2>1. SoFar(c, e, A, t, s, k + 1)
    BY <1>12, TakesStep, Zenon
  <2>2. e.pending = Nobody
    BY <1>12 DEF Takes
  <2>3. QED
    BY <1>6, <2>1, <2>2, Zenon DEF e
<1>13. QED
  BY <1>2, <1>8, <1>9, <1>10, <1>11, <1>12, Zenon

\* A field of a side is an ID or data.
LEMMA FieldOfSector ==
    ASSUME NEW j \in 1 .. 2 * Sectors
    PROVE  \E k \in SectorNo : j = 2 * k + 1 \/ j = 2 * k + 2
<1> DEFINE k == (j - 1) \div 2
<1>1. j - 1 \in Nat /\ j - 1 < 2 * Sectors
  BY DiskNumbers
<1>2. k \in Nat /\ (j - 1 = 2 * k \/ j - 1 = 2 * k + 1)
  BY <1>1
<1> HIDE DEF k
<1>3. k \in SectorNo /\ (j = 2 * k + 1 \/ j = 2 * k + 2)
  BY <1>1, <1>2, DiskNumbers DEF SectorNo
<1>4. QED
  BY <1>3

LEMMA DecodedFound ==
    ASSUME NEW t \in TrackNo, NEW s \in SideNo, NEW strict \in BOOLEAN, NEW A,
           Stream(A, t, s), NEW d \in Found, NEW j \in 1 .. 2 * Sectors
    PROVE  Decode(d, A[j], t, s, strict) \in Found
<1>1. PICK k \in SectorNo : j = 2 * k + 1 \/ j = 2 * k + 2
  BY FieldOfSector
<1>2. CASE j = 2 * k + 1
  <2> DEFINE f == A[j]
             i == Order(t, s, k)
  <2>1. IdRead(f, t, s, i) /\ i \in SectorNo
    BY <1>2, OrderGiven, Zenon DEF Stream, IdAt
  <2> HIDE DEF f, i
  <2>2. \/ Decode(d, f, t, s, strict) = d
        \/ Decode(d, f, t, s, strict) = [d EXCEPT !.pending = i]
        \/ Refused(d, Decode(d, f, t, s, strict), t, s, strict)
    BY <2>1, IdDecoded
  <2>3. [d EXCEPT !.pending = i] \in Found
    BY <2>1 DEF Found
  <2>4. QED
    BY <2>2, <2>3, Zenon DEF Refused, f
<1>3. CASE j = 2 * k + 2
  <2> DEFINE f == A[j]
             b == Here(t, s, k)
  <2>1. DataRead(f, b) /\ b \in Block
    BY <1>3, HereOwn, Zenon DEF Stream, DataAt
  <2> HIDE DEF f, b
  <2>2. \/ Decode(d, f, t, s, strict) = d
        \/ Decode(d, f, t, s, strict) = [d EXCEPT !.pending = Nobody]
        \/ Refused(d, Decode(d, f, t, s, strict), t, s, strict)
        \/ Takes(d, Decode(d, f, t, s, strict), t, s, b)
    BY <2>1, DataDecoded
  <2>3. [d EXCEPT !.pending = Nobody] \in Found
    BY DEF Found
  <2>4. ASSUME Takes(d, Decode(d, f, t, s, strict), t, s, b)
        PROVE  Decode(d, f, t, s, strict) \in Found
    BY <2>1, <2>4, TakesFound, Zenon
  <2>5. QED
    BY <2>2, <2>3, <2>4, Zenon DEF Refused, f
<1>4. QED
  BY <1>1, <1>2, <1>3

\* What a side starts from.
Fresh(c) == [c EXCEPT !.seen = {}, !.pending = Nobody]

\* AfterFields() takes the fields one after another.
LEMMA FieldByField ==
    ASSUME NEW t \in TrackNo, NEW s \in SideNo, NEW strict \in BOOLEAN, NEW fields,
           Stream(SideStream(fields, s), t, s), NEW c \in Found
    PROVE  LET after == AfterFields(c, fields, t, s, strict) IN
           /\ after[0] = Fresh(c)
           /\ \A j \in 1 .. 2 * Sectors :
                 after[j] = Decode(after[j - 1], SideStream(fields, s)[j], t, s, strict)
<1> DEFINE A == SideStream(fields, s)
           first == Fresh(c)
           step == [dj \in Found \X (1 .. 2 * Sectors) |->
                       Decode(dj[1], A[dj[2]], t, s, strict)]
           P(f) == f = [j \in 0 .. 2 * Sectors |->
                           IF j = 0 THEN first ELSE Decode(f[j - 1], A[j], t, s, strict)]
<1>1. first \in Found
  BY DEF Found, Fresh
<1>2. AfterFields(c, fields, t, s, strict) = CHOOSE f : P(f)
  BY Zenon DEF AfterFields, Fresh
<1> HIDE DEF A, first
<1>3. \A d \in Found, j \in 1 .. 2 * Sectors : Decode(d, A[j], t, s, strict) \in Found
  BY DecodedFound, Zenon DEF A
<1>4. step \in [Found \X (1 .. 2 * Sectors) -> Found]
  <2>1. \A dj \in Found \X (1 .. 2 * Sectors) :
            dj[1] \in Found /\ dj[2] \in 1 .. 2 * Sectors
    OBVIOUS
  <2>2. \A dj \in Found \X (1 .. 2 * Sectors) : Decode(dj[1], A[dj[2]], t, s, strict) \in Found
    BY <1>3, <2>1, Zenon
  <2>3. QED
    BY <2>2, Zenon
<1>5. \A d \in Found, j \in 1 .. 2 * Sectors :
          step[<<d, j>>] = Decode(d, A[j], t, s, strict)
  OBVIOUS
<1> HIDE DEF step
<1>6. 2 * Sectors \in Nat
  BY DiskNumbers
<1>7. PICK f \in [0 .. 2 * Sectors -> Found] : Recurses(f, first, step, 2 * Sectors)
  BY <1>1, <1>4, <1>6, RecursionExists, Zenon
<1>8. P(f)
  <2>1. \A j \in 0 .. 2 * Sectors : j # 0 => j \in 1 .. 2 * Sectors /\ f[j - 1] \in Found
    BY <1>6
  <2>2. \A j \in 0 .. 2 * Sectors :
            (IF j = 0 THEN first ELSE step[<<f[j - 1], j>>])
                = (IF j = 0 THEN first ELSE Decode(f[j - 1], A[j], t, s, strict))
    BY <1>5, <2>1, Zenon
  <2>3. QED
    BY <1>7, <2>2, Zenon DEF Recurses
<1> DEFINE after == CHOOSE g : P(g)
<1>9. P(after)
  <2> HIDE DEF P
  <2>1. QED
    BY <1>8, Zenon
<1> HIDE DEF after
<1>10. /\ after[0] = first
       /\ \A j \in 1 .. 2 * Sectors : after[j] = Decode(after[j - 1], A[j], t, s, strict)
  <2>1. 0 \in 0 .. 2 * Sectors /\ \A j \in 1 .. 2 * Sectors : j \in 0 .. 2 * Sectors /\ j # 0
    BY <1>6
  <2>2. QED
    BY <1>9, <2>1, Zenon
<1>11. QED
  BY <1>2, <1>10, Zenon DEF A, first, after

\* What a side leaves of what was found before it, c.
SideDone(c, e, A, t, s, strict) ==
    /\ e \in Found
    /\ \A p \in SectorNo : IdWhole(A, t, s, p) /\ DataWhole(A, t, s, p) =>
          e.status[Here(t, s, p)] = "readable" /\ e.content[Here(t, s, p)] = Here(t, s, p)
    /\ \A p \in SectorNo :
          c.status[Here(t, s, p)] = "missing" /\ e.status[Here(t, s, p)] = "readable" =>
             e.content[Here(t, s, p)] = Here(t, s, p) \/ RunsOver(A, p)
    /\ \A b \in Block : (\A p \in SectorNo : b # Here(t, s, p)) =>
          e.content[b] = c.content[b] /\ e.status[b] = c.status[b]
    /\ c.failed => e.failed
    /\ strict /\ ~e.failed => \A p \in SectorNo : e.content[Here(t, s, p)] = Here(t, s, p)
    /\ Whole(A, t, s) => e.failed = c.failed

LEMMA SideDecoded ==
    ASSUME NEW t \in TrackNo, NEW s \in SideNo, NEW strict \in BOOLEAN, NEW fields,
           Stream(SideStream(fields, s), t, s), NEW c \in Found
    PROVE  SideDone(c, DecodeSide(c, fields, t, s, strict), SideStream(fields, s), t, s, strict)
<1> DEFINE A == SideStream(fields, s)
           after == AfterFields(c, fields, t, s, strict)
           first == Fresh(c)
<1>1. /\ after[0] = first
      /\ \A j \in 1 .. 2 * Sectors : after[j] = Decode(after[j - 1], A[j], t, s, strict)
  BY FieldByField
<1>2. /\ first \in Found /\ first.seen = {} /\ first.pending = Nobody
      /\ first.content = c.content /\ first.status = c.status /\ first.failed = c.failed
  BY DEF Found, Fresh
<1>3. DecodeSide(c, fields, t, s, strict)
          = [after[2 * Sectors] EXCEPT
                !.failed = @ \/ (strict /\ after[2 * Sectors].seen # SectorNo)]
  BY Zenon DEF DecodeSide
<1>4. Stream(A, t, s)
  OBVIOUS
<1> HIDE DEF A, after, first
<1> DEFINE S == {k \in 0 .. Sectors : SoFar(c, after[2 * k], A, t, s, k)
                                      /\ Waiting(after[2 * k], A, t, s, k)}
<1>5. 0 \in S
  <2>1. SoFar(c, first, A, t, s, 0)
    <3>1. \A p \in SectorNo : ~(p < 0) /\ Order(t, s, p) \notin first.seen
      BY <1>2, DiskNumbers DEF SectorNo
    <3>2. QED
      BY <1>2, <3>1, Zenon DEF SoFar
  <2>2. Waiting(first, A, t, s, 0)
    BY <1>2, Zenon DEF Waiting
  <2>3. 2 * 0 = 0 /\ 0 \in 0 .. Sectors
    BY DiskNumbers
  <2>4. QED
    BY <1>1, <2>1, <2>2, <2>3, Zenon
<1>6. ASSUME NEW m \in 1 .. Sectors, m - 1 \in S
      PROVE  m \in S
  <2> DEFINE k == m - 1
             d == after[2 * k]
             e == after[2 * k + 1]
  <2>1. /\ k \in SectorNo /\ k + 1 = m /\ 2 * m = 2 * k + 2 /\ (2 * k + 1) - 1 = 2 * k
        /\ (2 * k + 2) - 1 = 2 * k + 1
        /\ 2 * k + 1 \in 1 .. 2 * Sectors /\ 2 * k + 2 \in 1 .. 2 * Sectors
        /\ m \in 0 .. Sectors
    BY DiskNumbers DEF SectorNo
  <2>2. SoFar(c, d, A, t, s, k) /\ Waiting(d, A, t, s, k)
    BY <1>6, Zenon
  <2> HIDE DEF k
  <2>3. e = Decode(d, IdAt(A, k), t, s, strict)
    BY <1>1, <2>1, Zenon DEF IdAt
  <2>4. after[2 * m] = Decode(e, DataAt(A, k), t, s, strict)
    BY <1>1, <2>1, Zenon DEF DataAt
  <2> HIDE DEF d, e
  <2>5. SoFar(c, e, A, t, s, k) /\ WaitingForData(e, A, t, s, k)
    BY <1>4, <2>1, <2>2, <2>3, IdStep, Zenon
  <2>6. SoFar(c, after[2 * m], A, t, s, k + 1) /\ Waiting(after[2 * m], A, t, s, k + 1)
    BY <1>4, <2>1, <2>4, <2>5, DataStep, Zenon
  <2>7. QED
    BY <2>1, <2>6, Zenon
<1>7. Sectors \in S
  <2>1. Sectors \in Nat /\ Sectors \in 0 .. Sectors
    BY DiskNumbers
  <2> HIDE DEF S
  <2>2. QED
    BY <1>5, <1>6, <2>1, InductionUpTo, Zenon
<1> DEFINE d == after[2 * Sectors]
           e == [d EXCEPT !.failed = @ \/ (strict /\ d.seen # SectorNo)]
<1>8. SoFar(c, d, A, t, s, Sectors)
  BY <1>7, Zenon
<1> HIDE DEF d, S
<1>9. d \in Found
  BY <1>8, Zenon DEF SoFar
<1>10. /\ e \in Found /\ e.content = d.content /\ e.status = d.status
       /\ e.failed = (d.failed \/ (strict /\ d.seen # SectorNo))
  BY <1>9 DEF Found
<1> HIDE DEF e
<1>11. \A p \in SectorNo : p < Sectors
  BY DiskNumbers DEF SectorNo
<1>12. ASSUME NEW p \in SectorNo, IdWhole(A, t, s, p), DataWhole(A, t, s, p)
       PROVE  /\ Order(t, s, p) \in d.seen
              /\ e.status[Here(t, s, p)] = "readable" /\ e.content[Here(t, s, p)] = Here(t, s, p)
  <2>1. p < Sectors
    BY <1>11
  <2>2. Order(t, s, p) \in d.seen /\ d.content[Here(t, s, p)] = Here(t, s, p)
    BY <1>8, <1>12, <2>1, Zenon DEF SoFar
  <2>3. d.status[Here(t, s, p)] = "readable"
    BY <1>8, <2>2, Zenon DEF SoFar
  <2>4. QED
    BY <1>10, <2>2, <2>3, Zenon
<1>13. ASSUME NEW p \in SectorNo, c.status[Here(t, s, p)] = "missing",
              e.status[Here(t, s, p)] = "readable"
       PROVE  e.content[Here(t, s, p)] = Here(t, s, p) \/ RunsOver(A, p)
  <2>1. "missing" # "readable"
    OBVIOUS
  <2>2. QED
    BY <1>8, <1>10, <1>13, <2>1, Zenon DEF SoFar
<1>14. ASSUME NEW b \in Block, \A p \in SectorNo : b # Here(t, s, p)
       PROVE  e.content[b] = c.content[b] /\ e.status[b] = c.status[b]
  BY <1>8, <1>10, <1>14, Zenon DEF SoFar
<1>15. c.failed => e.failed
  <2>1. c.failed => d.failed
    BY <1>8, Zenon DEF SoFar
  <2>2. QED
    BY <1>10, <2>1
<1>16. ASSUME strict, ~e.failed, NEW p \in SectorNo
       PROVE  e.content[Here(t, s, p)] = Here(t, s, p)
  <2>1. d.seen = SectorNo
    BY <1>10, <1>16
  <2>2. \A q \in SectorNo : Order(t, s, q) \in d.seen
    BY <2>1, OrderGiven, Zenon
  <2>3. \A q \in SectorNo : ~Lost(IdAt(A, q))
    BY <1>8, <2>2, Zenon DEF SoFar
  <2>4. ~RunsOver(A, p)
    BY <2>3, Zenon DEF RunsOver
  <2>5. QED
    BY <1>8, <1>10, <2>2, <2>4, Zenon DEF SoFar
<1>17. ASSUME Whole(A, t, s)
       PROVE  e.failed = c.failed
  <2>1. \A p \in SectorNo : Order(t, s, p) \in d.seen
    BY <1>12, <1>17, Zenon DEF Whole
  <2>2. d.seen = SectorNo
    <3>1. d.seen \subseteq SectorNo
      BY <1>9 DEF Found
    <3>2. \A i \in SectorNo : i \in d.seen
      BY <2>1, OrderAll, Zenon
    <3>3. QED
      BY <3>1, <3>2, Zenon
  <2>3. d.failed = c.failed /\ d.failed \in BOOLEAN
    BY <1>8, <1>9, <1>17 DEF SoFar, Found
  <2>4. QED
    BY <1>10, <2>2, <2>3, Zenon
<1>18. e = DecodeSide(c, fields, t, s, strict)
  BY <1>3, Zenon DEF e, d
<1>19. SideDone(c, e, A, t, s, strict)
  BY <1>10, <1>12, <1>13, <1>14, <1>15, <1>16, <1>17, Zenon DEF SideDone
<1>20. QED
  BY <1>18, <1>19, Zenon DEF A

-------------------------------------------------------------------------------
(* Where the blocks are. *)

LEMMA SideGiven ==
    ASSUME NEW t \in TrackNo, NEW s \in SideNo
    PROVE  /\ t * Sides + s \in 0 .. Tracks * Sides - 1 /\ t * Sides + s \in Nat
           /\ (t * Sides + s) \div Sides = t /\ (t * Sides + s) % Sides = s
<1>1. t \in Nat /\ s \in 0 .. Sides - 1 /\ t <= Tracks - 1
  BY DiskNumbers DEF TrackNo, SideNo
<1>2. (Sides * t + s) \div Sides = t /\ (Sides * t + s) % Sides = s
  BY <1>1, DiskNumbers, OneQuotient, Zenon
<1>3. Sides * t = t * Sides /\ t * Sides \in Nat
  BY <1>1, DiskNumbers
<1>4. (t + 1) * Sides <= Tracks * Sides /\ (t + 1) * Sides = t * Sides + Sides
      /\ Tracks * Sides \in Nat
  BY <1>1, DiskNumbers
<1>5. t * Sides + s \in 0 .. Tracks * Sides - 1
  <2> DEFINE x == t * Sides
             y == Tracks * Sides
  <2>1. x \in Nat /\ y \in Nat /\ x + Sides <= y
    BY <1>3, <1>4
  <2> HIDE DEF x, y
  <2>2. x + s \in 0 .. y - 1
    BY <1>1, <2>1, DiskNumbers
  <2>3. QED
    BY <2>2, Zenon DEF x, y
<1>6. t * Sides + s \in Nat
  BY <1>1, <1>3
<1>7. QED
  BY <1>2, <1>3, <1>5, <1>6

LEMMA BlockGiven ==
    ASSUME NEW t \in TrackNo, NEW s \in SideNo, NEW i \in SectorNo
    PROVE  /\ BlockOf(t, s, i) \div Sectors = t * Sides + s
           /\ BlockOf(t, s, i) % Sectors = i
           /\ BlockOf(t, s, i) \div (Sides * Sectors) = t
<1> DEFINE m == t * Sides + s
<1>1. m \in Nat
  BY SideGiven
<1>2. BlockOf(t, s, i) = m * Sectors + i
  BY DEF BlockOf
<1> HIDE DEF m
<1>3. i \in 0 .. Sectors - 1 /\ t \in Nat /\ s \in 0 .. Sides - 1
  BY DiskNumbers DEF SectorNo, TrackNo, SideNo
<1>4. (Sectors * m + i) \div Sectors = m /\ (Sectors * m + i) % Sectors = i
  BY <1>1, <1>3, DiskNumbers, OneQuotient, Zenon
<1>5. Sectors * m = m * Sectors
  BY <1>1, DiskNumbers
<1> DEFINE n == Sides * Sectors
           r == s * Sectors + i
<1>6. n \in Nat \ {0} /\ r \in 0 .. n - 1
  <2>1. (s + 1) * Sectors <= Sides * Sectors /\ (s + 1) * Sectors = s * Sectors + Sectors
        /\ s * Sectors \in Nat /\ Sides * Sectors \in Nat
    BY <1>3, DiskNumbers
  <2> DEFINE x == s * Sectors
             y == Sides * Sectors
  <2>2. x \in Nat /\ y \in Nat /\ x + Sectors <= y
    BY <2>1
  <2> HIDE DEF x, y
  <2>3. y \in Nat \ {0} /\ x + i \in 0 .. y - 1
    BY <1>3, <2>2, DiskNumbers
  <2>4. QED
    BY <2>3, Zenon DEF x, y
<1>7. m * Sectors + i = n * t + r
  <2>1. (t * Sides + s) * Sectors = (t * Sides) * Sectors + s * Sectors
    BY <1>3, DiskNumbers
  <2>2. (t * Sides) * Sectors = (Sides * Sectors) * t /\ (t * Sides) * Sectors \in Int
        /\ s * Sectors \in Int
    BY <1>3, DiskNumbers
  <2>3. QED
    BY <1>3, <2>1, <2>2 DEF m
<1> HIDE DEF n, r
<1>8. (n * t + r) \div n = t
  BY <1>3, <1>6, OneQuotient, Zenon
<1>9. BlockOf(t, s, i) \div n = t
  BY <1>2, <1>7, <1>8, Zenon
<1>10. BlockOf(t, s, i) \div Sectors = m /\ BlockOf(t, s, i) % Sectors = i
  BY <1>2, <1>4, <1>5, Zenon
<1>11. QED
  BY <1>9, <1>10, Zenon DEF m, n

LEMMA OtherSide ==
    ASSUME NEW t \in TrackNo, NEW s \in SideNo, NEW p \in SectorNo,
           NEW t2 \in TrackNo, NEW s2 \in SideNo, NEW p2 \in SectorNo,
           Here(t, s, p) = Here(t2, s2, p2)
    PROVE  t * Sides + s = t2 * Sides + s2 /\ t = t2 /\ s = s2
<1>1. Order(t, s, p) \in SectorNo /\ Order(t2, s2, p2) \in SectorNo
  BY OrderGiven, Zenon
<1>2. t * Sides + s = t2 * Sides + s2
  <2>1. /\ BlockOf(t, s, Order(t, s, p)) \div Sectors = t * Sides + s
        /\ BlockOf(t2, s2, Order(t2, s2, p2)) \div Sectors = t2 * Sides + s2
    BY <1>1, BlockGiven
  <2>2. QED
    BY <2>1, Zenon DEF Here
<1>3. QED
  BY <1>2, SideGiven, Zenon

\* A block has its place on the disk.
LEMMA BlockSomewhere ==
    ASSUME NEW b \in Block
    PROVE  \E t \in TrackNo, s \in SideNo, p \in SectorNo : b = Here(t, s, p)
<1> DEFINE m == b \div Sectors
           i == b % Sectors
           t == m \div Sides
           s == m % Sides
<1>1. b \in Nat /\ b < (Tracks * Sides) * Sectors /\ Tracks * Sides \in Nat
  BY DiskNumbers DEF Block
<1>2. m \in Nat /\ i \in 0 .. Sectors - 1 /\ b = Sectors * m + i
  BY <1>1, DiskNumbers, Division, Zenon
<1>3. m < Tracks * Sides
  <2>1. (Tracks * Sides) * Sectors = Sectors * (Tracks * Sides)
    BY DiskNumbers
  <2>2. b < Sectors * (Tracks * Sides)
    BY <1>1, <2>1, Zenon
  <2>3. QED
    BY <1>1, <2>2, DiskNumbers, QuotientBelow, Zenon
<1> HIDE DEF m, i
<1>4. t \in Nat /\ s \in 0 .. Sides - 1 /\ m = Sides * t + s
  BY <1>2, DiskNumbers, Division, Zenon
<1>5. t < Tracks
  <2>1. Tracks * Sides = Sides * Tracks
    BY DiskNumbers
  <2>2. m < Sides * Tracks
    BY <1>3, <2>1, Zenon
  <2>3. QED
    BY <1>2, <2>2, DiskNumbers, QuotientBelow, Zenon
<1> HIDE DEF t, s
<1>6. t \in TrackNo /\ s \in SideNo /\ i \in SectorNo
  BY <1>2, <1>4, <1>5, DiskNumbers DEF TrackNo, SideNo, SectorNo
<1>7. PICK p \in SectorNo : Order(t, s, p) = i
  BY <1>6, OrderAll, Zenon
<1>8. b = Here(t, s, p)
  <2>1. Sides * t = t * Sides /\ Sectors * m = m * Sectors
    BY <1>2, <1>4, DiskNumbers
  <2>2. b = (t * Sides + s) * Sectors + i
    BY <1>2, <1>4, <2>1, Zenon
  <2>3. QED
    BY <1>7, <2>2, Zenon DEF Here, BlockOf
<1>9. QED
  BY <1>6, <1>8, Zenon

-------------------------------------------------------------------------------
(* The layout of the file. *)

Place(s, j) == ((j - 1) \div Chunk) * Chunk * Sides + s * Chunk + ((j - 1) % Chunk) + 1

LEMMA PlaceGiven ==
    ASSUME NEW s \in SideNo, NEW j \in 1 .. 2 * Sectors
    PROVE  LET k == Place(s, j) - 1 IN
           /\ Place(s, j) \in 1 .. 2 * Sectors * Sides
           /\ (k \div Chunk) % Sides = s
           /\ (k \div (Chunk * Sides)) * Chunk + (k % Chunk) = j - 1
<1> DEFINE q == (j - 1) \div Chunk
           r == (j - 1) % Chunk
           k == Place(s, j) - 1
           big == Chunk * Sides
<1>1. j - 1 \in Nat /\ j - 1 < 2 * Sectors /\ s \in 0 .. Sides - 1 /\ s \in Nat
      /\ 2 * Sectors \in Nat
  BY DiskNumbers DEF SideNo
<1>2. q \in Nat /\ r \in 0 .. Chunk - 1 /\ j - 1 = Chunk * q + r
  BY <1>1, DiskNumbers, Division, Zenon
<1> DEFINE M == (2 * Sectors) \div Chunk
<1>3. M \in Nat /\ 2 * Sectors = Chunk * M
  <2>1. M \in Nat /\ 2 * Sectors = Chunk * M + ((2 * Sectors) % Chunk)
    BY <1>1, DiskNumbers, Division, Zenon
  <2>2. (2 * Sectors) % Chunk = 0
    BY DiskCodecAssumption
  <2> HIDE DEF M
  <2>3. Chunk * M \in Nat
    BY <2>1, DiskNumbers
  <2>4. QED
    BY <2>1, <2>2, <2>3
<1>4. q < M
  <2>1. j - 1 < Chunk * M
    BY <1>1, <1>3, Zenon
  <2> HIDE DEF M
  <2>2. QED
    BY <1>1, <1>3, <2>1, DiskNumbers, QuotientBelow, Zenon
<1>5. Place(s, j) = q * Chunk * Sides + s * Chunk + r + 1
  BY Zenon DEF Place
<1> HIDE DEF q, r, M
<1>6. /\ q * Chunk * Sides \in Nat /\ s * Chunk \in Nat /\ big \in Nat \ {0}
      /\ q * Chunk * Sides = big * q /\ s * Chunk = Chunk * s /\ Chunk * q = q * Chunk
      /\ big * q = Chunk * (Sides * q)
  BY <1>1, <1>2, DiskNumbers
<1>7. s * Chunk + r \in 0 .. big - 1
  <2>1. (s + 1) * Chunk <= Sides * Chunk /\ (s + 1) * Chunk = s * Chunk + Chunk
        /\ Sides * Chunk = Chunk * Sides
    BY <1>1, DiskNumbers
  <2> DEFINE x == s * Chunk
  <2>2. x \in Nat /\ x + Chunk <= big /\ big \in Nat
    BY <1>6, <2>1
  <2> HIDE DEF x, big
  <2>3. x + r \in 0 .. big - 1
    BY <1>2, <2>2, DiskNumbers
  <2>4. QED
    BY <2>3, Zenon DEF x
<1> HIDE DEF big
<1>8. k = big * q + (s * Chunk + r) /\ big * q \in Nat
  BY <1>2, <1>5, <1>6
<1>9. k = Chunk * (Sides * q + s) + r /\ Sides * q + s \in Nat
  <2>1. Chunk * (Sides * q + s) = Chunk * (Sides * q) + Chunk * s
    BY <1>1, <1>2, DiskNumbers
  <2>2. Sides * q + s \in Nat
    BY <1>1, <1>2, DiskNumbers
  <2>3. QED
    BY <1>2, <1>6, <1>8, <2>1, <2>2
<1>10. Place(s, j) \in 1 .. 2 * Sectors * Sides
  <2>1. big * (q + 1) <= big * M /\ big * (q + 1) = big * q + big
    BY <1>2, <1>3, <1>4, <1>6
  <2>2. big * M = 2 * Sectors * Sides
    <3>1. (Chunk * Sides) * M = (Chunk * M) * Sides
      BY <1>3, DiskNumbers
    <3>2. QED
      BY <1>3, <3>1, Zenon DEF big
  <2>3. k \in Nat /\ k < big * M
    <3> DEFINE x == big * q
               y == big * M
               z == s * Chunk + r
    <3>1. x \in Nat /\ z \in 0 .. big - 1 /\ x + big <= y /\ k = x + z /\ y \in Nat
      BY <1>3, <1>6, <1>7, <1>8, <2>1
    <3> HIDE DEF x, y, z, k
    <3>2. k \in Nat /\ k < y
      BY <1>6, <3>1
    <3>3. QED
      BY <3>2, Zenon DEF y
  <2>4. Place(s, j) = k + 1
    BY <1>2, <1>5, <1>6
  <2> DEFINE y == 2 * Sectors * Sides
  <2>5. k \in Nat /\ k < y /\ y \in Nat
    BY <2>2, <2>3, DiskNumbers
  <2> HIDE DEF k, y
  <2>6. k + 1 \in 1 .. y
    BY <2>5
  <2>7. QED
    BY <2>4, <2>6, Zenon DEF y
<1> HIDE DEF k
<1>11. k \div big = q
  BY <1>2, <1>6, <1>7, <1>8, OneQuotient, Zenon
<1>12. k \div Chunk = Sides * q + s /\ k % Chunk = r
  BY <1>2, <1>9, DiskNumbers, OneQuotient, Zenon
<1>13. (Sides * q + s) % Sides = s
  BY <1>1, <1>2, DiskNumbers, OneQuotient, Zenon
<1>14. (k \div big) * Chunk + (k % Chunk) = j - 1
  BY <1>2, <1>6, <1>11, <1>12, Zenon
<1>15. QED
  BY <1>10, <1>12, <1>13, <1>14, Zenon DEF k, big

\* A side as it was written is found in its halves of the blocks of the file.
LEMMA SideWritten ==
    ASSUME NEW t \in TrackNo, NEW s \in SideNo, NEW j \in 1 .. 2 * Sectors
    PROVE  EncodeHfe[t][Place(s, j)] = EncodeTrackSide(t, s)[j]
<1> DEFINE i == Place(s, j)
           k == i - 1
           side == (k \div Chunk) % Sides
           at == (k \div (Chunk * Sides)) * Chunk + (k % Chunk)
<1>1. i \in 1 .. 2 * Sectors * Sides /\ side = s /\ at = j - 1
  BY PlaceGiven, Zenon
<1>2. EncodeHfe[t][i] = EncodeTrackSide(t, side)[at + 1]
  BY <1>1, Zenon DEF EncodeHfe
<1> HIDE DEF i, side, at
<1>3. at + 1 = j
  BY <1>1
<1>4. QED
  BY <1>1, <1>2, <1>3, Zenon DEF i

LEMMA SectorWritten ==
    ASSUME NEW t \in TrackNo, NEW s \in SideNo, NEW p \in SectorNo
    PROVE  /\ EncodeTrackSide(t, s)[2 * p + 1] = IdField(t, s, Order(t, s, p))
           /\ EncodeTrackSide(t, s)[2 * p + 2] = DataField(Here(t, s, p))
           /\ 2 * p + 1 \in 1 .. 2 * Sectors /\ 2 * p + 2 \in 1 .. 2 * Sectors
<1>1. /\ 2 * p + 1 \in 1 .. 2 * Sectors /\ 2 * p + 2 \in 1 .. 2 * Sectors
      /\ ((2 * p + 1) - 1) \div 2 = p /\ (2 * p + 1) % 2 = 1
      /\ ((2 * p + 2) - 1) \div 2 = p /\ (2 * p + 2) % 2 # 1
  BY DiskNumbers DEF SectorNo
<1>2. /\ EncodeTrackSide(t, s)[2 * p + 1]
             = IdField(t, s, Order(t, s, ((2 * p + 1) - 1) \div 2))
      /\ EncodeTrackSide(t, s)[2 * p + 2]
             = DataField(Here(t, s, ((2 * p + 2) - 1) \div 2))
  BY <1>1, Zenon DEF EncodeTrackSide, Order, First, Here
<1>3. QED
  BY <1>1, <1>2, Zenon

-------------------------------------------------------------------------------
(* All the sides. *)

\* A file in which each field is as it was written or hit.
Streams(image) ==
    \A t \in TrackNo, s \in SideNo : Stream(SideStream(image[t], s), t, s)
WholeFile(image) ==
    \A t \in TrackNo, s \in SideNo : Whole(SideStream(image[t], s), t, s)

\* What is known of the sector at a position of a side that was decoded.
SectorDone(d, A, t, s, p, strict) ==
    /\ IdWhole(A, t, s, p) /\ DataWhole(A, t, s, p) =>
          d.status[Here(t, s, p)] = "readable" /\ d.content[Here(t, s, p)] = Here(t, s, p)
    /\ d.status[Here(t, s, p)] = "readable" =>
          d.content[Here(t, s, p)] = Here(t, s, p) \/ RunsOver(A, p)
    /\ strict /\ ~d.failed => d.content[Here(t, s, p)] = Here(t, s, p)

\* After n sides.
SidesDone(d, image, strict, n) ==
    /\ d \in Found
    /\ \A t \in TrackNo, s \in SideNo, p \in SectorNo :
          /\ t * Sides + s < n => SectorDone(d, SideStream(image[t], s), t, s, p, strict)
          /\ ~(t * Sides + s < n) => d.status[Here(t, s, p)] = "missing"
    /\ WholeFile(image) => ~d.failed

LEMMA SideStep ==
    ASSUME NEW image, NEW strict \in BOOLEAN, Streams(image), NEW t \in TrackNo,
           NEW s \in SideNo, NEW c, SidesDone(c, image, strict, t * Sides + s)
    PROVE  SidesDone(DecodeSide(c, image[t], t, s, strict), image, strict, t * Sides + s + 1)
<1> DEFINE e == DecodeSide(c, image[t], t, s, strict)
           A == SideStream(image[t], s)
           m == t * Sides + s
<1>1. c \in Found /\ m \in Nat
  BY SideGiven, Zenon DEF SidesDone
<1>2. SideDone(c, e, A, t, s, strict)
  BY <1>1, SideDecoded, Zenon DEF Streams
<1> HIDE DEF e, A
<1>3. e \in Found
  BY <1>2, Zenon DEF SideDone
<1>4. ASSUME NEW t2 \in TrackNo, NEW s2 \in SideNo, NEW p \in SectorNo, t2 * Sides + s2 # m
      PROVE  /\ e.content[Here(t2, s2, p)] = c.content[Here(t2, s2, p)]
             /\ e.status[Here(t2, s2, p)] = c.status[Here(t2, s2, p)]
  <2>1. \A q \in SectorNo : Here(t2, s2, p) # Here(t, s, q)
    <3> SUFFICES ASSUME NEW q \in SectorNo, Here(t2, s2, p) = Here(t, s, q)
                 PROVE  FALSE
      OBVIOUS
    <3>1. t2 * Sides + s2 = t * Sides + s
      BY OtherSide
    <3>2. QED
      BY <1>4, <3>1, Zenon
  <2>2. Here(t2, s2, p) \in Block
    BY HereOwn, Zenon
  <2>3. QED
    BY <1>2, <2>1, <2>2, Zenon DEF SideDone
<1> DEFINE n == m + 1
<1>5. ASSUME NEW t2 \in TrackNo, NEW s2 \in SideNo
      PROVE  /\ t2 * Sides + s2 = m => t2 = t /\ s2 = s
             /\ t2 * Sides + s2 = m => t2 * Sides + s2 < n /\ ~(t2 * Sides + s2 < m)
             /\ t2 * Sides + s2 # m => (t2 * Sides + s2 < n <=> t2 * Sides + s2 < m)
  <2> DEFINE x == t2 * Sides + s2
  <2>1. x \in Nat
    BY SideGiven, Zenon
  <2>2. x = m => t2 = t /\ s2 = s
    <3>1. /\ (t2 * Sides + s2) \div Sides = t2 /\ (t2 * Sides + s2) % Sides = s2
          /\ (t * Sides + s) \div Sides = t /\ (t * Sides + s) % Sides = s
      BY SideGiven, Zenon
    <3>2. QED
      BY <3>1, Zenon
  <2> HIDE DEF x, m
  <2>3. /\ x = m => x < n /\ ~(x < m)
        /\ x # m => (x < n <=> x < m)
    BY <1>1, <2>1
  <2>4. QED
    BY <2>2, <2>3, Zenon DEF x
<1> HIDE DEF m, n
<1>6. ASSUME NEW p \in SectorNo
      PROVE  SectorDone(e, A, t, s, p, strict)
  <2>1. ~(m < m) => c.status[Here(t, s, p)] = "missing"
    BY Zenon DEF SidesDone, m
  <2>2. c.status[Here(t, s, p)] = "missing"
    BY <1>1, <2>1
  <2>3. QED
    BY <1>2, <2>2, Zenon DEF SideDone, SectorDone
<1>7. c.failed => e.failed
  BY <1>2, Zenon DEF SideDone
<1>8. ASSUME NEW t2 \in TrackNo, NEW s2 \in SideNo, NEW p \in SectorNo
      PROVE  /\ t2 * Sides + s2 < n => SectorDone(e, SideStream(image[t2], s2), t2, s2, p, strict)
             /\ ~(t2 * Sides + s2 < n) => e.status[Here(t2, s2, p)] = "missing"
  <2>1. CASE t2 * Sides + s2 = m
    BY <1>5, <1>6, <2>1, Zenon DEF A
  <2>2. CASE t2 * Sides + s2 # m
    <3>1. /\ t2 * Sides + s2 < m => SectorDone(c, SideStream(image[t2], s2), t2, s2, p, strict)
          /\ ~(t2 * Sides + s2 < m) => c.status[Here(t2, s2, p)] = "missing"
      BY Zenon DEF SidesDone, m
    <3>2. ASSUME SectorDone(c, SideStream(image[t2], s2), t2, s2, p, strict)
          PROVE  SectorDone(e, SideStream(image[t2], s2), t2, s2, p, strict)
      BY <1>4, <1>7, <2>2, <3>2, Zenon DEF SectorDone
    <3>3. QED
      BY <1>4, <1>5, <2>2, <3>1, <3>2, Zenon
  <2>3. QED
    BY <2>1, <2>2
<1>9. WholeFile(image) => ~e.failed
  <2>1. ASSUME WholeFile(image) PROVE ~e.failed
    <3>1. Whole(A, t, s) /\ ~c.failed
      BY <2>1, Zenon DEF WholeFile, SidesDone, A
    <3>2. QED
      BY <1>2, <3>1, Zenon DEF SideDone
  <2>2. QED
    BY <2>1
<1>10. SidesDone(e, image, strict, n)
  BY <1>3, <1>8, <1>9, Zenon DEF SidesDone
<1>11. n = t * Sides + s + 1
  BY DEF n, m
<1>12. QED
  BY <1>10, <1>11, Zenon DEF e

LEMMA NothingFoundYet ==
    ASSUME NEW image, NEW strict
    PROVE  SidesDone(NothingFound, image, strict, 0)
<1>1. /\ NothingFound \in Found /\ NothingFound.failed = FALSE
      /\ NothingFound.status = [b \in Block |-> "missing"]
  BY DEF NothingFound, Found, Status
<1>2. \A t \in TrackNo, s \in SideNo : ~(t * Sides + s < 0)
  <2>1. \A t \in TrackNo, s \in SideNo : t * Sides + s \in Nat
    BY SideGiven, Zenon
  <2> DEFINE x(t, s) == t * Sides + s
  <2>2. \A t \in TrackNo, s \in SideNo : x(t, s) \in Nat
    BY <2>1, Zenon
  <2> HIDE DEF x
  <2>3. \A t \in TrackNo, s \in SideNo : ~(x(t, s) < 0)
    BY <2>2
  <2>4. QED
    BY <2>3, Zenon DEF x
<1>3. \A t \in TrackNo, s \in SideNo, p \in SectorNo : Here(t, s, p) \in Block
  BY HereOwn, Zenon
<1>4. \A b \in Block : NothingFound.status[b] = "missing"
  BY <1>1
<1>5. QED
  BY <1>1, <1>2, <1>3, <1>4, Zenon DEF SidesDone

\* The side with number m.
LEMMA SideNumbered ==
    ASSUME NEW n \in 1 .. Tracks * Sides
    PROVE  /\ (n - 1) \div Sides \in TrackNo /\ (n - 1) % Sides \in SideNo
           /\ ((n - 1) \div Sides) * Sides + ((n - 1) % Sides) = n - 1
<1> DEFINE m == n - 1
           t == m \div Sides
           s == m % Sides
<1>1. Tracks * Sides \in Nat /\ Tracks * Sides = Sides * Tracks
  BY DiskNumbers
<1>2. m \in Nat /\ m < Sides * Tracks
  BY <1>1
<1> HIDE DEF m
<1>3. t \in Nat /\ s \in 0 .. Sides - 1 /\ m = Sides * t + s
  BY <1>2, DiskNumbers, Division, Zenon
<1>4. t < Tracks
  BY <1>2, DiskNumbers, QuotientBelow, Zenon
<1> HIDE DEF t, s
<1>5. t \in TrackNo /\ s \in SideNo
  BY <1>3, <1>4, DiskNumbers DEF TrackNo, SideNo
<1>6. t * Sides + s = m
  BY <1>3, DiskNumbers
<1>7. QED
  BY <1>5, <1>6, Zenon DEF t, s, m

LEMMA SideBySide ==
    ASSUME NEW image, NEW strict \in BOOLEAN, Streams(image)
    PROVE  LET after == AfterSides(image, strict) IN
           /\ after[0] = NothingFound
           /\ \A n \in 1 .. Tracks * Sides :
                 after[n] = DecodeSide(after[n - 1], image[(n - 1) \div Sides],
                                       (n - 1) \div Sides, (n - 1) % Sides, strict)
<1> DEFINE next(d, n) == DecodeSide(d, image[(n - 1) \div Sides],
                                    (n - 1) \div Sides, (n - 1) % Sides, strict)
           N == Tracks * Sides
           step == [dn \in Found \X (1 .. N) |-> next(dn[1], dn[2])]
           P(f) == f = [n \in 0 .. N |-> IF n = 0 THEN NothingFound ELSE next(f[n - 1], n)]
<1>1. NothingFound \in Found
  BY NothingFoundYet, Zenon DEF SidesDone
<1>2. AfterSides(image, strict) = CHOOSE f : P(f)
  BY Zenon DEF AfterSides
<1>3. \A d \in Found, n \in 1 .. N : next(d, n) \in Found
  <2> SUFFICES ASSUME NEW d \in Found, NEW n \in 1 .. N
               PROVE  next(d, n) \in Found
    OBVIOUS
  <2>1. (n - 1) \div Sides \in TrackNo /\ (n - 1) % Sides \in SideNo
    BY SideNumbered, Zenon
  <2> DEFINE t == (n - 1) \div Sides
             s == (n - 1) % Sides
  <2> HIDE DEF t, s
  <2>2. t \in TrackNo /\ s \in SideNo
    BY <2>1, Zenon DEF t, s
  <2>3. SideDone(d, DecodeSide(d, image[t], t, s, strict), SideStream(image[t], s), t, s, strict)
    BY <2>2, SideDecoded, Zenon DEF Streams
  <2>4. QED
    BY <2>3, Zenon DEF SideDone, t, s
<1>4. N \in Nat
  BY DiskNumbers
<1> HIDE DEF next, N
<1>5. step \in [Found \X (1 .. N) -> Found]
  <2>1. \A dn \in Found \X (1 .. N) : dn[1] \in Found /\ dn[2] \in 1 .. N
    OBVIOUS
  <2>2. \A dn \in Found \X (1 .. N) : next(dn[1], dn[2]) \in Found
    BY <1>3, <2>1, Zenon
  <2>3. QED
    BY <2>2, Zenon
<1>6. \A d \in Found, n \in 1 .. N : step[<<d, n>>] = next(d, n)
  OBVIOUS
<1> HIDE DEF step
<1>7. PICK f \in [0 .. N -> Found] : Recurses(f, NothingFound, step, N)
  BY <1>1, <1>4, <1>5, RecursionExists, Zenon
<1>8. P(f)
  <2>1. \A n \in 0 .. N : n # 0 => n \in 1 .. N /\ f[n - 1] \in Found
    BY <1>4
  <2>2. \A n \in 0 .. N : (IF n = 0 THEN NothingFound ELSE step[<<f[n - 1], n>>])
                              = (IF n = 0 THEN NothingFound ELSE next(f[n - 1], n))
    BY <1>6, <2>1, Zenon
  <2>3. QED
    BY <1>7, <2>2, Zenon DEF Recurses
<1> DEFINE after == CHOOSE g : P(g)
<1>9. P(after)
  <2> HIDE DEF P
  <2>1. QED
    BY <1>8, Zenon
<1> HIDE DEF after
<1>10. after[0] = NothingFound /\ \A n \in 1 .. N : after[n] = next(after[n - 1], n)
  <2>1. 0 \in 0 .. N /\ \A n \in 1 .. N : n \in 0 .. N /\ n # 0
    BY <1>4
  <2>2. QED
    BY <1>9, <2>1, Zenon
<1>11. QED
  BY <1>2, <1>10, Zenon DEF next, after, N

LEMMA FileDecoded ==
    ASSUME NEW image, NEW strict \in BOOLEAN, Streams(image)
    PROVE  SidesDone(AfterSides(image, strict)[Tracks * Sides], image, strict, Tracks * Sides)
<1> DEFINE N == Tracks * Sides
           after == AfterSides(image, strict)
           S == {n \in 0 .. N : SidesDone(after[n], image, strict, n)}
<1>1. /\ after[0] = NothingFound
      /\ \A n \in 1 .. N : after[n] = DecodeSide(after[n - 1], image[(n - 1) \div Sides],
                                                 (n - 1) \div Sides, (n - 1) % Sides, strict)
  BY SideBySide
<1>2. N \in Nat
  BY DiskNumbers
<1> HIDE DEF after
<1>3. 0 \in S
  <2>1. 0 \in 0 .. N
    BY <1>2
  <2>2. QED
    BY <1>1, <2>1, NothingFoundYet, Zenon
<1>4. ASSUME NEW n \in 1 .. N, n - 1 \in S
      PROVE  n \in S
  <2> DEFINE t == (n - 1) \div Sides
             s == (n - 1) % Sides
  <2>1. t \in TrackNo /\ s \in SideNo /\ t * Sides + s = n - 1
    BY SideNumbered, Zenon
  <2>2. after[n] = DecodeSide(after[n - 1], image[t], t, s, strict)
    BY <1>1, Zenon
  <2> HIDE DEF t, s
  <2>3. SidesDone(after[n - 1], image, strict, t * Sides + s)
    BY <1>4, <2>1, Zenon
  <2>4. SidesDone(after[n], image, strict, t * Sides + s + 1)
    BY <2>1, <2>2, <2>3, SideStep, Zenon
  <2>5. t * Sides + s + 1 = n /\ n \in 0 .. N
    <3>1. (n - 1) + 1 = n /\ n \in 0 .. N
      BY <1>2
    <3>2. QED
      BY <2>1, <3>1, Zenon
  <2>6. QED
    BY <2>4, <2>5, Zenon
<1>5. N \in S
  <2>1. N \in 0 .. N
    BY <1>2
  <2> HIDE DEF S, N
  <2>2. QED
    BY <1>2, <1>3, <1>4, <2>1, InductionUpTo, Zenon
<1>6. QED
  BY <1>5, Zenon DEF after

\* What a disk is loaded as.
LEMMA DiskLoaded ==
    ASSUME NEW image, NEW strict \in BOOLEAN, Streams(image)
    PROVE  LET disk == DecodeHfe(image, strict) IN
           /\ disk.mode = IF strict THEN "strict" ELSE "tolerant"
           /\ disk.ok \in BOOLEAN
           /\ disk.content \in [Block -> Block \cup {Nobody}]
           /\ disk.status \in [Block -> Status]
           /\ WholeFile(image) => disk.ok
           /\ strict /\ disk.ok => \A b \in Block : disk.content[b] = b
           /\ \A t \in TrackNo, s \in SideNo, p \in SectorNo :
                 LET A == SideStream(image[t], s) IN
                 /\ IdWhole(A, t, s, p) /\ DataWhole(A, t, s, p) =>
                       /\ disk.status[Here(t, s, p)] = "readable"
                       /\ disk.content[Here(t, s, p)] = Here(t, s, p)
                 /\ disk.status[Here(t, s, p)] = "readable" =>
                       disk.content[Here(t, s, p)] = Here(t, s, p) \/ RunsOver(A, p)
<1> DEFINE d == AfterSides(image, strict)[Tracks * Sides]
           disk == DecodeHfe(image, strict)
<1>1. SidesDone(d, image, strict, Tracks * Sides)
  BY FileDecoded, Zenon
<1>2. disk = [content |-> d.content, status |-> d.status,
              mode |-> IF strict THEN "strict" ELSE "tolerant",
              ok |-> ~d.failed /\ \E b \in Block : d.status[b] = "readable"]
  BY Zenon DEF DecodeHfe
<1> HIDE DEF d, disk
<1>3. /\ disk.content = d.content /\ disk.status = d.status
      /\ disk.mode = IF strict THEN "strict" ELSE "tolerant"
      /\ disk.ok = (~d.failed /\ \E b \in Block : d.status[b] = "readable")
  <2> DEFINE mode == IF strict THEN "strict" ELSE "tolerant"
             ok == ~d.failed /\ \E b \in Block : d.status[b] = "readable"
  <2>1. disk = [content |-> d.content, status |-> d.status, mode |-> mode, ok |-> ok]
    BY <1>2, Zenon
  <2> HIDE DEF mode, ok
  <2>2. disk.content = d.content /\ disk.status = d.status /\ disk.mode = mode /\ disk.ok = ok
    BY <2>1
  <2>3. QED
    BY <2>2, Zenon DEF mode, ok
<1>4. d \in Found
  BY <1>1, Zenon DEF SidesDone
<1>5. d.content \in [Block -> Block \cup {Nobody}] /\ d.status \in [Block -> Status]
  BY <1>4 DEF Found
<1>6. \A t \in TrackNo, s \in SideNo, p \in SectorNo :
          SectorDone(d, SideStream(image[t], s), t, s, p, strict)
  <2>1. \A t \in TrackNo, s \in SideNo : t * Sides + s < Tracks * Sides
    <3> SUFFICES ASSUME NEW t \in TrackNo, NEW s \in SideNo
                 PROVE  t * Sides + s < Tracks * Sides
      OBVIOUS
    <3> DEFINE x == t * Sides + s
               y == Tracks * Sides
    <3>1. x \in 0 .. y - 1 /\ y \in Nat
      BY SideGiven, DiskNumbers
    <3> HIDE DEF x, y
    <3>2. x < y
      BY <3>1
    <3>3. QED
      BY <3>2, Zenon DEF x, y
  <2>2. QED
    BY <1>1, <2>1, Zenon DEF SidesDone
<1>7. ASSUME WholeFile(image)
      PROVE  disk.ok
  <2>1. ~d.failed
    BY <1>1, <1>7, Zenon DEF SidesDone
  <2>2. 0 \in TrackNo /\ 0 \in SideNo /\ 0 \in SectorNo
    BY DiskNumbers DEF TrackNo, SideNo, SectorNo
  <2>3. d.status[Here(0, 0, 0)] = "readable"
    BY <1>6, <1>7, <2>2, Zenon DEF SectorDone, WholeFile, Whole
  <2>4. Here(0, 0, 0) \in Block
    BY <2>2, HereOwn, Zenon
  <2>5. QED
    BY <1>3, <2>1, <2>3, <2>4, Zenon
<1>8. ASSUME strict, disk.ok, NEW b \in Block
      PROVE  disk.content[b] = b
  <2>1. PICK t \in TrackNo, s \in SideNo, p \in SectorNo : b = Here(t, s, p)
    BY BlockSomewhere, Zenon
  <2>2. ~d.failed
    BY <1>3, <1>8
  <2>3. QED
    BY <1>3, <1>6, <1>8, <2>1, <2>2, Zenon DEF SectorDone
<1>9. ASSUME NEW t \in TrackNo, NEW s \in SideNo, NEW p \in SectorNo
      PROVE  LET A == SideStream(image[t], s) IN
             /\ IdWhole(A, t, s, p) /\ DataWhole(A, t, s, p) =>
                   /\ disk.status[Here(t, s, p)] = "readable"
                   /\ disk.content[Here(t, s, p)] = Here(t, s, p)
             /\ disk.status[Here(t, s, p)] = "readable" =>
                   disk.content[Here(t, s, p)] = Here(t, s, p) \/ RunsOver(A, p)
  <2>1. SectorDone(d, SideStream(image[t], s), t, s, p, strict)
    BY <1>6, Zenon
  <2>2. QED
    BY <1>3, <2>1, Zenon DEF SectorDone
<1>10. disk.ok \in BOOLEAN
  BY <1>3
<1>11. QED
  BY <1>3, <1>5, <1>7, <1>8, <1>9, <1>10, Zenon DEF disk

-------------------------------------------------------------------------------
(* The specification. *)

FieldNo == 1 .. 2 * Sectors * Sides

\* A field is as it was written, or what was written has been hit there.
FieldKept(t, i) ==
    \/ medium[t][i] = EncodeHfe[t][i]
    \/ \E hit \in damaged :
          /\ hit.track = t /\ hit.index = i /\ hit.field = EncodeHfe[t][i]
          /\ hit.kind \in AnyKind
          /\ hit.field.mark = "data" => hit.kind \in {"lost", "crc"}
          /\ medium[t][i] = Hit(hit.field, hit.kind)

MediumKept ==
    /\ medium = [t \in TrackNo |-> [i \in FieldNo |-> medium[t][i]]]
    /\ \A t \in TrackNo, i \in FieldNo : FieldKept(t, i)

LoadedKept == loaded = NotLoaded \/ \E strict \in BOOLEAN : loaded = DecodeHfe(medium, strict)
EfeKept == efe = CreateBlank \/ \E n \in 1 .. TotalBlocks - Reserved : efe = CreateFromEfe(n)
WordKept == \E prev \in {0, 1}, value \in 0 .. MaxByte :
               word = [prev |-> prev, value |-> value,
                       stored |-> Reversed(MfmByte(prev, value))]

DiskInv ==
    /\ MediumKept /\ LoadedKept /\ EfeKept /\ WordKept
    /\ IsFiniteSet(damaged) /\ Cardinality(damaged) <= MaxDamage

\* What is read at a position of a side, and what a block's hits have to do with it.
LEMMA PositionRead ==
    ASSUME MediumKept, NEW t \in TrackNo, NEW s \in SideNo, NEW p \in SectorNo
    PROVE  LET A == SideStream(medium[t], s)
               id == IdField(t, s, Order(t, s, p))
               data == DataField(Here(t, s, p)) IN
           /\ \/ IdAt(A, p) = id
              \/ \E hit \in damaged : /\ hit.field = id /\ hit.kind \in AnyKind
                                      /\ IdAt(A, p) = Hit(id, hit.kind)
           /\ \/ DataAt(A, p) = data
              \/ \E hit \in damaged : /\ hit.field = data /\ hit.kind \in {"lost", "crc"}
                                      /\ DataAt(A, p) = Hit(data, hit.kind)
<1> DEFINE A == SideStream(medium[t], s)
           id == IdField(t, s, Order(t, s, p))
           data == DataField(Here(t, s, p))
           i == Place(s, 2 * p + 1)
           j == Place(s, 2 * p + 2)
<1>1. 2 * p + 1 \in 1 .. 2 * Sectors /\ 2 * p + 2 \in 1 .. 2 * Sectors
  BY SectorWritten, Zenon
<1>2. i \in FieldNo /\ j \in FieldNo
  BY <1>1, PlaceGiven, Zenon DEF FieldNo
<1>3. \A x \in 1 .. 2 * Sectors : A[x] = medium[t][Place(s, x)]
  BY Zenon DEF SideStream, Place
<1>4. IdAt(A, p) = medium[t][i] /\ DataAt(A, p) = medium[t][j]
  BY <1>1, <1>3, Zenon DEF IdAt, DataAt
<1>5. EncodeHfe[t][i] = id /\ EncodeHfe[t][j] = data
  <2>1. EncodeHfe[t][i] = EncodeTrackSide(t, s)[2 * p + 1]
    BY <1>1, SideWritten, Zenon
  <2>2. EncodeHfe[t][j] = EncodeTrackSide(t, s)[2 * p + 2]
    BY <1>1, SideWritten, Zenon
  <2>3. QED
    BY <2>1, <2>2, SectorWritten, Zenon
<1>6. data.mark = "data"
  BY DEF DataField
<1> HIDE DEF A, id, data, i, j
<1>7. FieldKept(t, i) /\ FieldKept(t, j)
  BY <1>2, Zenon DEF MediumKept
<1>8. \/ IdAt(A, p) = id
      \/ \E hit \in damaged : /\ hit.field = id /\ hit.kind \in AnyKind
                              /\ IdAt(A, p) = Hit(id, hit.kind)
  BY <1>4, <1>5, <1>7, Zenon DEF FieldKept
<1>9. \/ DataAt(A, p) = data
      \/ \E hit \in damaged : /\ hit.field = data /\ hit.kind \in {"lost", "crc"}
                              /\ DataAt(A, p) = Hit(data, hit.kind)
  BY <1>4, <1>5, <1>6, <1>7, Zenon DEF FieldKept
<1>10. QED
  BY <1>8, <1>9, Zenon DEF A, id, data

LEMMA MediumStreams ==
    ASSUME MediumKept
    PROVE  Streams(medium)
<1> SUFFICES ASSUME NEW t \in TrackNo, NEW s \in SideNo, NEW p \in SectorNo
             PROVE  /\ IdRead(IdAt(SideStream(medium[t], s), p), t, s, Order(t, s, p))
                    /\ DataRead(DataAt(SideStream(medium[t], s), p), Here(t, s, p))
  BY Zenon DEF Streams, Stream
<1> DEFINE A == SideStream(medium[t], s)
           id == IdField(t, s, Order(t, s, p))
           data == DataField(Here(t, s, p))
<1>1. /\ \/ IdAt(A, p) = id
         \/ \E hit \in damaged : /\ hit.field = id /\ hit.kind \in AnyKind
                                 /\ IdAt(A, p) = Hit(id, hit.kind)
      /\ \/ DataAt(A, p) = data
         \/ \E hit \in damaged : /\ hit.field = data /\ hit.kind \in {"lost", "crc"}
                                 /\ DataAt(A, p) = Hit(data, hit.kind)
  BY PositionRead
<1>2. QED
  BY <1>1, Zenon DEF IdRead, DataRead

LEMMA UndamagedWhole ==
    ASSUME MediumKept, damaged = {}
    PROVE  WholeFile(medium)
<1> SUFFICES ASSUME NEW t \in TrackNo, NEW s \in SideNo, NEW p \in SectorNo
             PROVE  /\ IdWhole(SideStream(medium[t], s), t, s, p)
                    /\ DataWhole(SideStream(medium[t], s), t, s, p)
  BY Zenon DEF WholeFile, Whole
<1> DEFINE A == SideStream(medium[t], s)
           id == IdField(t, s, Order(t, s, p))
           data == DataField(Here(t, s, p))
<1>1. /\ \/ IdAt(A, p) = id
         \/ \E hit \in damaged : /\ hit.field = id /\ hit.kind \in AnyKind
                                 /\ IdAt(A, p) = Hit(id, hit.kind)
      /\ \/ DataAt(A, p) = data
         \/ \E hit \in damaged : /\ hit.field = data /\ hit.kind \in {"lost", "crc"}
                                 /\ DataAt(A, p) = Hit(data, hit.kind)
  BY PositionRead
<1> HIDE DEF A, id, data
<1>2. IdAt(A, p) = id /\ DataAt(A, p) = data
  BY <1>1
<1>3. QED
  BY <1>2, Zenon DEF IdWhole, DataWhole, A, id, data

LEMMA IdOfHere ==
    ASSUME NEW t \in TrackNo, NEW s \in SideNo, NEW p \in SectorNo
    PROVE  /\ IdOf(Here(t, s, p)) = IdField(t, s, Order(t, s, p))
           /\ Here(t, s, p) % Sectors = Order(t, s, p)
           /\ Here(t, s, p) \div Sectors = t * Sides + s
<1> DEFINE b == Here(t, s, p)
<1>1. Order(t, s, p) \in SectorNo
  BY OrderGiven, Zenon
<1>2. /\ BlockOf(t, s, Order(t, s, p)) \div Sectors = t * Sides + s
      /\ BlockOf(t, s, Order(t, s, p)) % Sectors = Order(t, s, p)
      /\ BlockOf(t, s, Order(t, s, p)) \div (Sides * Sectors) = t
  BY <1>1, BlockGiven
<1>3. b \div Sectors = t * Sides + s /\ b % Sectors = Order(t, s, p)
      /\ b \div (Sides * Sectors) = t
  BY <1>2, Zenon DEF Here
<1>4. (t * Sides + s) % Sides = s
  BY SideGiven
<1> HIDE DEF b
<1>5. IdOf(b) = IdField(t, s, Order(t, s, p))
  BY <1>3, <1>4, Zenon DEF IdOf
<1>6. QED
  BY <1>3, <1>5, Zenon DEF b

LEMMA IntactWhole ==
    ASSUME MediumKept, NEW t \in TrackNo, NEW s \in SideNo, NEW p \in SectorNo,
           IsIntact(Here(t, s, p))
    PROVE  /\ IdWhole(SideStream(medium[t], s), t, s, p)
           /\ DataWhole(SideStream(medium[t], s), t, s, p)
<1> DEFINE A == SideStream(medium[t], s)
           id == IdField(t, s, Order(t, s, p))
           data == DataField(Here(t, s, p))
<1>1. /\ \/ IdAt(A, p) = id
         \/ \E hit \in damaged : /\ hit.field = id /\ hit.kind \in AnyKind
                                 /\ IdAt(A, p) = Hit(id, hit.kind)
      /\ \/ DataAt(A, p) = data
         \/ \E hit \in damaged : /\ hit.field = data /\ hit.kind \in {"lost", "crc"}
                                 /\ DataAt(A, p) = Hit(data, hit.kind)
  BY PositionRead
<1>2. IdOf(Here(t, s, p)) = id
  BY IdOfHere
<1>3. ~WasHit(id, AnyKind) /\ ~WasHit(data, AnyKind)
  BY <1>2, Zenon DEF IsIntact
<1>4. \A kind \in {"lost", "crc"} : kind \in AnyKind
  BY DEF AnyKind
<1> HIDE DEF A, id, data
<1>5. IdAt(A, p) = id /\ DataAt(A, p) = data
  BY <1>1, <1>3, <1>4, Zenon DEF WasHit
<1>6. QED
  BY <1>5, Zenon DEF IdWhole, DataWhole, A, id, data

\* Only a lost mark makes a field nothing.
LEMMA HitLost ==
    ASSUME NEW t, NEW s, NEW i, NEW b, NEW kind \in AnyKind
    PROVE  /\ Lost(Hit(IdField(t, s, i), kind)) => kind = "lost"
           /\ Lost(Hit(DataField(b), kind)) => kind = "lost"
           /\ ~Lost(IdField(t, s, i)) /\ ~Lost(DataField(b))
<1>1. CASE kind = "lost"
  BY <1>1 DEF Lost, IdField, DataField
<1>2. CASE kind = "crc"
  BY <1>2 DEF Lost, IdField, DataField, Hit
<1>3. CASE kind = "crcOther"
  BY <1>3 DEF Lost, IdField, DataField, Hit
<1>4. CASE kind = "foreign"
  BY <1>4 DEF Lost, IdField, DataField, Hit
<1>5. QED
  BY <1>1, <1>2, <1>3, <1>4 DEF AnyKind

LEMMA RunsOverRunsOn ==
    ASSUME MediumKept, NEW t \in TrackNo, NEW s \in SideNo, NEW p \in SectorNo,
           RunsOver(SideStream(medium[t], s), p)
    PROVE  RunsOn(Here(t, s, p))
<1> DEFINE A == SideStream(medium[t], s)
           q == p + 1
           id == IdField(t, s, Order(t, s, q))
           data == DataField(Here(t, s, p))
           b == Here(t, s, p)
           c == Here(t, s, q)
<1>1. q \in SectorNo /\ Lost(DataAt(A, p)) /\ Lost(IdAt(A, q))
  BY Zenon DEF RunsOver
<1>2. \/ DataAt(A, p) = data
      \/ \E hit \in damaged : /\ hit.field = data /\ hit.kind \in {"lost", "crc"}
                              /\ DataAt(A, p) = Hit(data, hit.kind)
  BY PositionRead
<1> HIDE DEF q
<1>3. \/ IdAt(A, q) = id
      \/ \E hit \in damaged : /\ hit.field = id /\ hit.kind \in AnyKind
                              /\ IdAt(A, q) = Hit(id, hit.kind)
  BY <1>1, PositionRead
<1>4. /\ \A kind \in AnyKind : /\ Lost(Hit(id, kind)) => kind = "lost"
                               /\ Lost(Hit(data, kind)) => kind = "lost"
      /\ ~Lost(id) /\ ~Lost(data)
  <2>1. "lost" \in AnyKind
    BY DEF AnyKind
  <2>2. QED
    BY <2>1, HitLost, Zenon
<1>5. b \in Block /\ c \in Block
  BY <1>1, HereOwn, Zenon
<1>6. /\ b % Sectors = Order(t, s, p) /\ b \div Sectors = t * Sides + s
      /\ c % Sectors = Order(t, s, q) /\ c \div Sectors = t * Sides + s
      /\ IdOf(c) = id
  BY <1>1, IdOfHere, Zenon
<1>7. Order(t, s, q) = (Order(t, s, p) + 1) % Sectors
  BY <1>1, OrderNext, Zenon DEF q
<1> HIDE DEF A, id, data, b, c
<1>8. WasHit(data, {"lost"})
  <2>1. \A kind \in {"lost", "crc"} : kind \in AnyKind
    BY DEF AnyKind
  <2>2. QED
    BY <1>1, <1>2, <1>4, <2>1, Zenon DEF WasHit
<1>9. WasHit(id, {"lost"})
  BY <1>1, <1>3, <1>4, Zenon DEF WasHit
<1>10. OnSameSide(b, c)
  BY <1>6, Zenon DEF OnSameSide
<1>11. c % Sectors = ((b % Sectors) + 1) % Sectors
  BY <1>6, <1>7, Zenon
<1>12. DataField(b) = data
  BY Zenon DEF data, b
<1>13. RunsOn(b)
  BY <1>5, <1>6, <1>8, <1>9, <1>10, <1>11, <1>12, Zenon DEF RunsOn
<1>14. QED
  BY <1>13, Zenon DEF b

LEMMA SectorsKept ==
    ASSUME MediumKept, LoadedKept
    PROVE  SectorsKeepTheirData
<1>1. CASE loaded = NotLoaded
  <2>1. loaded.mode = "none"
    BY <1>1 DEF NotLoaded
  <2>2. QED
    BY <2>1 DEF SectorsKeepTheirData
<1>2. ASSUME NEW strict \in BOOLEAN, loaded = DecodeHfe(medium, strict)
      PROVE  SectorsKeepTheirData
  <2>1. Streams(medium)
    BY MediumStreams
  <2>2. /\ loaded.mode = IF strict THEN "strict" ELSE "tolerant"
        /\ WholeFile(medium) => loaded.ok
        /\ strict /\ loaded.ok => \A b \in Block : loaded.content[b] = b
        /\ \A t \in TrackNo, s \in SideNo, p \in SectorNo :
              LET A == SideStream(medium[t], s) IN
              /\ IdWhole(A, t, s, p) /\ DataWhole(A, t, s, p) =>
                    /\ loaded.status[Here(t, s, p)] = "readable"
                    /\ loaded.content[Here(t, s, p)] = Here(t, s, p)
              /\ loaded.status[Here(t, s, p)] = "readable" =>
                    loaded.content[Here(t, s, p)] = Here(t, s, p) \/ RunsOver(A, p)
    BY <1>2, <2>1, DiskLoaded
  <2>3. damaged = {} => loaded.ok
    BY <2>2, UndamagedWhole, Zenon
  <2>4. loaded.mode = "strict" => strict
    BY <2>2
  <2>5. ASSUME NEW b \in Block
        PROVE  /\ IsIntact(b) => loaded.status[b] = "readable" /\ loaded.content[b] = b
               /\ loaded.status[b] = "readable" /\ ~RunsOn(b) => loaded.content[b] = b
    <3>1. PICK t \in TrackNo, s \in SideNo, p \in SectorNo : b = Here(t, s, p)
      BY BlockSomewhere, Zenon
    <3>2. IsIntact(b) => /\ IdWhole(SideStream(medium[t], s), t, s, p)
                         /\ DataWhole(SideStream(medium[t], s), t, s, p)
      BY <3>1, IntactWhole, Zenon
    <3>3. RunsOver(SideStream(medium[t], s), p) => RunsOn(b)
      BY <3>1, RunsOverRunsOn, Zenon
    <3>4. QED
      BY <2>2, <3>1, <3>2, <3>3, Zenon
  <2>6. QED
    BY <2>2, <2>3, <2>4, <2>5, Zenon DEF SectorsKeepTheirData
<1>3. QED
  BY <1>1, <1>2, Zenon DEF LoadedKept

LEMMA BytesKept ==
    ASSUME WordKept
    PROVE  BytesReadBack /\ word.stored \in Bits
<1>1. PICK prev \in {0, 1}, value \in 0 .. MaxByte :
          word = [prev |-> prev, value |-> value, stored |-> Reversed(MfmByte(prev, value))]
  BY Zenon DEF WordKept
<1>2. value \in 0 .. 255
  <2>1. MaxByte \in 0 .. 255
    BY DiskCodecAssumption, Zenon
  <2>2. QED
    BY <2>1
<1> DEFINE bits == MfmByte(prev, value)
<1>3. bits \in Bits /\ DecodeWord(bits) = value
  <2>1. bits \in Bits
    BY <1>2, WordGiven, Zenon
  <2>2. DecodeWord(bits) = value
    BY <1>2, ByteReadBack, Zenon
  <2>3. QED
    BY <2>1, <2>2
<1>4. /\ bits # <<0,1,0,0, 0,1,0,0, 1,0,0,0, 1,0,0,1>>
      /\ bits # <<1,0,0,0, 1,0,0,1, 0,1,0,0, 0,1,0,0>>
  BY <1>2, NoSyncMark
<1>5. word.value = value /\ word.stored = Reversed(bits)
  BY <1>1
<1> HIDE DEF bits
<1>6. Reversed(word.stored) = bits
  BY <1>3, <1>5, ReversedTwice, Zenon
<1>7. BytesReadBack
  BY <1>3, <1>4, <1>5, <1>6, Zenon DEF BytesReadBack
<1>8. Reversed(bits) \in Bits
  <2>1. \A i \in 1 .. 16 : (IF i <= 8 THEN 9 - i ELSE 25 - i) \in 1 .. 16
    OBVIOUS
  <2>2. QED
    BY <1>3, <2>1 DEF Bits, Reversed
<1>9. QED
  BY <1>5, <1>7, <1>8, Zenon

LEMMA FilesKept ==
    ASSUME EfeKept
    PROVE  FileFollowsItsChain
  BY BlankFollows, FileFollows, Zenon DEF EfeKept

LEMMA FatTyped ==
    ASSUME EfeKept
    PROVE  efe.fat \in [FatPlaces -> 0 .. TotalBlocks]
<1>1. 0 \in 0 .. TotalBlocks /\ 1 \in 0 .. TotalBlocks
  BY DiskNumbers
<1>2. CreateBlank.fat \in [FatPlaces -> 0 .. TotalBlocks]
  BY <1>1 DEF CreateBlank
<1>3. ASSUME NEW n \in 1 .. TotalBlocks - Reserved
      PROVE  CreateFromEfe(n).fat \in [FatPlaces -> 0 .. TotalBlocks]
  <2> DEFINE next(b) == IF b + 1 < Reserved + n THEN b + 1 ELSE 1
             block(p) == (p[1] - FirstFat) * PerFat + p[2]
  <2>1. CreateFromEfe(n).fat = [p \in FatPlaces |->
                                   IF block(p) \in Reserved .. Reserved + n - 1
                                   THEN next(block(p)) ELSE CreateBlank.fat[p]]
    BY DEF CreateFromEfe, CreateBlank
  <2> HIDE DEF block
  <2>2. \A b \in Reserved .. Reserved + n - 1 : next(b) \in 0 .. TotalBlocks
    BY <1>1, DiskNumbers
  <2> HIDE DEF next
  <2>3. \A p \in FatPlaces : CreateBlank.fat[p] \in 0 .. TotalBlocks
    BY <1>2
  <2>4. \A p \in FatPlaces : (IF block(p) \in Reserved .. Reserved + n - 1
                              THEN next(block(p)) ELSE CreateBlank.fat[p]) \in 0 .. TotalBlocks
    BY <2>2, <2>3, Zenon
  <2>5. QED
    BY <2>1, <2>4, Zenon
<1>4. QED
  BY <1>2, <1>3, Zenon DEF EfeKept

LEMMA DiskInvTyped ==
    ASSUME DiskInv
    PROVE  DiskCodecTypeOK
<1>1. /\ loaded.content \in [Block -> Block \cup {Nobody}]
      /\ loaded.status \in [Block -> {"missing", "crc", "readable"}]
      /\ loaded.mode \in {"none", "strict", "tolerant"} /\ loaded.ok \in BOOLEAN
  <2>1. CASE loaded = NotLoaded
    BY <2>1 DEF NotLoaded
  <2>2. ASSUME NEW strict \in BOOLEAN, loaded = DecodeHfe(medium, strict)
        PROVE  /\ loaded.content \in [Block -> Block \cup {Nobody}]
               /\ loaded.status \in [Block -> Status]
               /\ loaded.mode \in {"none", "strict", "tolerant"} /\ loaded.ok \in BOOLEAN
    <3>1. Streams(medium)
      BY MediumStreams, Zenon DEF DiskInv
    <3>2. /\ loaded.mode = IF strict THEN "strict" ELSE "tolerant"
          /\ loaded.ok \in BOOLEAN
          /\ loaded.content \in [Block -> Block \cup {Nobody}]
          /\ loaded.status \in [Block -> Status]
      BY <2>2, <3>1, DiskLoaded
    <3>3. loaded.mode \in {"none", "strict", "tolerant"}
      BY <3>2
    <3>4. QED
      BY <3>2, <3>3, Zenon
  <2>3. QED
    BY <2>1, <2>2, Zenon DEF DiskInv, LoadedKept, Status
<1>2. word.stored \in [1 .. 16 -> {0, 1}]
  BY BytesKept, Zenon DEF DiskInv, Bits
<1>3. QED
  BY <1>1, <1>2, FatTyped, Zenon DEF DiskInv, DiskCodecTypeOK

LEMMA DiskInvKeeps ==
    ASSUME DiskInv
    PROVE  DiskImagesKept
  BY DiskInvTyped, SectorsKept, BytesKept, FilesKept, Zenon DEF DiskInv, DiskImagesKept

LEMMA DiskInvInit == DiskCodecInit => DiskInv
<1> SUFFICES ASSUME DiskCodecInit
             PROVE  DiskInv
  OBVIOUS
<1>1. MediumKept
  <2>1. EncodeHfe = [t \in TrackNo |-> [i \in FieldNo |-> EncodeHfe[t][i]]]
    BY DEF EncodeHfe, FieldNo
  <2>2. medium = EncodeHfe
    BY Zenon DEF DiskCodecInit
  <2>3. QED
    BY <2>1, <2>2, Zenon DEF MediumKept, FieldKept
<1>2. WordKept
  <2>1. 0 \in 0 .. MaxByte
    <3>1. MaxByte \in 0 .. 255
      BY DiskCodecAssumption, Zenon
    <3>2. QED
      BY <3>1
  <2>2. 0 \in {0, 1}
    OBVIOUS
  <2>3. QED
    BY <2>1, <2>2, Zenon DEF WordKept, DiskCodecInit, FirstWord
<1>3. IsFiniteSet(damaged) /\ Cardinality(damaged) <= MaxDamage
  BY FS_EmptySet, DiskNumbers DEF DiskCodecInit
<1>4. QED
  BY <1>1, <1>2, <1>3, Zenon DEF DiskInv, LoadedKept, EfeKept, DiskCodecInit

LEMMA DamageStep ==
    ASSUME DiskInv, NEW t \in TrackNo, NEW i \in FieldNo, NEW kind \in AnyKind,
           Damage(t, i, kind)
    PROVE  DiskInv'
<1> DEFINE hit == [track |-> t, index |-> i, kind |-> kind, field |-> medium[t][i]]
           row == [medium[t] EXCEPT ![i] = Hit(@, kind)]
<1>1. /\ loaded = NotLoaded
      /\ Cardinality(damaged) < MaxDamage
      /\ \A h \in damaged : h.track # t \/ h.index # i
      /\ medium[t][i].mark = "data" => kind \in {"lost", "crc"}
      /\ damaged' = damaged \cup {hit}
      /\ medium' = [medium EXCEPT ![t] = row]
      /\ loaded' = loaded /\ efe' = efe /\ word' = word
  BY Zenon DEF Damage
<1>2. medium[t][i] = EncodeHfe[t][i]
  <2>1. FieldKept(t, i)
    BY Zenon DEF DiskInv, MediumKept
  <2> HIDE DEF hit, row
  <2>2. QED
    BY <1>1, <2>1, Zenon DEF FieldKept
<1>3. hit.track = t /\ hit.index = i /\ hit.kind = kind /\ hit.field = medium[t][i]
  OBVIOUS
<1> HIDE DEF hit
<1>4. medium = [x \in TrackNo |-> [y \in FieldNo |-> medium[x][y]]]
  BY Zenon DEF DiskInv, MediumKept
<1>5. /\ row = [y \in FieldNo |-> row[y]] /\ row[i] = Hit(medium[t][i], kind)
      /\ \A y \in FieldNo : y # i => row[y] = medium[t][y]
  <2>1. medium[t] = [y \in FieldNo |-> medium[t][y]]
    BY <1>4, Zenon
  <2>2. QED
    BY <2>1
<1> HIDE DEF row
<1>6. /\ DOMAIN medium' = TrackNo /\ medium' = [x \in TrackNo |-> medium'[x]]
      /\ medium'[t] = row /\ \A x \in TrackNo : x # t => medium'[x] = medium[x]
  <2>1. medium = [x \in TrackNo |-> medium[x]]
    BY <1>4
  <2>2. QED
    BY <1>1, <2>1
<1>7. \A x \in TrackNo : medium'[x] = [y \in FieldNo |-> medium'[x][y]]
  BY <1>4, <1>5, <1>6, Zenon
<1>8. ASSUME NEW x \in TrackNo, NEW y \in FieldNo
      PROVE  FieldKept(x, y)'
  <2>1. CASE x = t /\ y = i
    <3>1. hit \in damaged' /\ medium'[x][y] = Hit(hit.field, hit.kind)
      BY <1>1, <1>3, <1>5, <1>6, <2>1
    <3>2. /\ hit.track = x /\ hit.index = y /\ hit.field = EncodeHfe[x][y]
          /\ hit.kind \in AnyKind /\ (hit.field.mark = "data" => hit.kind \in {"lost", "crc"})
      BY <1>1, <1>2, <1>3, <2>1, Zenon
    <3>3. QED
      BY <3>1, <3>2, Zenon DEF FieldKept
  <2>2. CASE ~(x = t /\ y = i)
    <3>1. medium'[x][y] = medium[x][y]
      BY <1>5, <1>6, <2>2, Zenon
    <3>2. FieldKept(x, y)
      BY Zenon DEF DiskInv, MediumKept
    <3>3. \A h \in damaged : h \in damaged'
      BY <1>1
    <3>4. QED
      BY <3>1, <3>2, <3>3, Zenon DEF FieldKept
  <2>3. QED
    BY <2>1, <2>2
<1>9. MediumKept'
  <2>1. medium' = [x \in TrackNo |-> [y \in FieldNo |-> medium'[x][y]]]
    BY <1>6, <1>7
  <2>2. QED
    BY <1>8, <2>1, Zenon DEF MediumKept
<1>10. IsFiniteSet(damaged') /\ Cardinality(damaged') <= MaxDamage
  <2>1. IsFiniteSet(damaged)
    BY Zenon DEF DiskInv
  <2>2. /\ IsFiniteSet(damaged')
        /\ Cardinality(damaged') = Cardinality(damaged)
              \/ Cardinality(damaged') = Cardinality(damaged) + 1
    BY <1>1, <2>1, FS_AddElement
  <2>3. Cardinality(damaged) \in Nat
    BY <2>1, FS_CardinalityType
  <2>4. QED
    BY <1>1, <2>2, <2>3, DiskNumbers
<1>11. LoadedKept' /\ EfeKept' /\ WordKept'
  BY <1>1, Zenon DEF DiskInv, LoadedKept, EfeKept, WordKept
<1>12. QED
  BY <1>9, <1>10, <1>11, Zenon DEF DiskInv

LEMMA DiskInvStep ==
    ASSUME DiskInv, [DiskCodecNext]_diskCodecVars
    PROVE  DiskInv'
<1>1. ASSUME medium' = medium, damaged' = damaged, LoadedKept', EfeKept', WordKept'
      PROVE  DiskInv'
  <2>1. medium = [t \in TrackNo |-> [i \in FieldNo |-> medium[t][i]]]
    BY Zenon DEF DiskInv, MediumKept
  <2>2. medium' = [t \in TrackNo |-> [i \in FieldNo |-> medium'[t][i]]]
    BY <1>1, <2>1, Zenon
  <2>3. ASSUME NEW t \in TrackNo, NEW i \in FieldNo
        PROVE  FieldKept(t, i)'
    <3>1. FieldKept(t, i)
      BY Zenon DEF DiskInv, MediumKept
    <3>2. QED
      BY <1>1, <3>1, Zenon DEF FieldKept
  <2>4. MediumKept'
    BY <2>2, <2>3, Zenon DEF MediumKept
  <2>5. QED
    BY <1>1, <2>4, Zenon DEF DiskInv
<1>2. ASSUME UNCHANGED diskCodecVars
      PROVE  DiskInv'
  <2>1. medium' = medium /\ damaged' = damaged /\ loaded' = loaded /\ efe' = efe /\ word' = word
    BY <1>2 DEF diskCodecVars
  <2>2. LoadedKept' /\ EfeKept' /\ WordKept'
    BY <2>1, Zenon DEF DiskInv, LoadedKept, EfeKept, WordKept
  <2>3. QED
    BY <1>1, <2>1, <2>2, Zenon
<1>3. ASSUME NEW t \in TrackNo, NEW i \in 1 .. 2 * Sectors * Sides,
             NEW kind \in {"lost", "crc", "crcOther", "foreign"}, Damage(t, i, kind)
      PROVE  DiskInv'
  BY <1>3, DamageStep, Zenon DEF FieldNo, AnyKind
<1>4. ASSUME NEW strict \in BOOLEAN, Load(strict)
      PROVE  DiskInv'
  <2>1. /\ medium' = medium /\ damaged' = damaged /\ efe' = efe /\ word' = word
        /\ loaded' = DecodeHfe(medium, strict)
    BY <1>4 DEF Load
  <2>2. LoadedKept' /\ EfeKept' /\ WordKept'
    BY <2>1, Zenon DEF DiskInv, LoadedKept, EfeKept, WordKept
  <2>3. QED
    BY <1>1, <2>1, <2>2, Zenon
<1>5. ASSUME NEW n \in 1 .. TotalBlocks - Reserved, LoadEfe(n)
      PROVE  DiskInv'
  <2>1. /\ medium' = medium /\ damaged' = damaged /\ loaded' = loaded /\ word' = word
        /\ efe' = CreateFromEfe(n)
    BY <1>5 DEF LoadEfe
  <2>2. LoadedKept' /\ EfeKept' /\ WordKept'
    BY <2>1, Zenon DEF DiskInv, LoadedKept, EfeKept, WordKept
  <2>3. QED
    BY <1>1, <2>1, <2>2, Zenon
<1>6. ASSUME NEW value \in 0 .. MaxByte, WriteByte(value)
      PROVE  DiskInv'
  <2> DEFINE prev == word.value % 2
  <2>1. /\ medium' = medium /\ damaged' = damaged /\ loaded' = loaded /\ efe' = efe
        /\ word' = [prev |-> prev, value |-> value, stored |-> Reversed(MfmByte(prev, value))]
    BY <1>6, Zenon DEF WriteByte
  <2>2. prev \in {0, 1}
    <3>1. PICK p \in {0, 1}, v \in 0 .. MaxByte :
              word = [prev |-> p, value |-> v, stored |-> Reversed(MfmByte(p, v))]
      BY Zenon DEF DiskInv, WordKept
    <3>2. word.value = v
      BY <3>1
    <3>3. v \in Nat
      OBVIOUS
    <3>4. QED
      BY <3>2, <3>3
  <2> HIDE DEF prev
  <2>3. LoadedKept' /\ EfeKept' /\ WordKept'
    BY <2>1, <2>2, Zenon DEF DiskInv, LoadedKept, EfeKept, WordKept
  <2>4. QED
    BY <1>1, <2>1, <2>3, Zenon
<1>7. QED
  BY <1>2, <1>3, <1>4, <1>5, <1>6, Zenon DEF DiskCodecNext

(***************************************************************************)
(* Of decode_hfe(), create_from_efe() and decode_word(): what was saved is *)
(* loaded block for block, damage to one sector takes no other with it,    *)
(* the strict reader accepts nothing but the whole disk, a file is read    *)
(* along its chain to its end, and every byte is read back as it was       *)
(* written.                                                                *)
(***************************************************************************)
THEOREM DisksKeepTheirData == DiskCodecSpec => []DiskImagesKept
<1>1. DiskCodecInit => DiskInv
  BY DiskInvInit
<1>2. DiskInv /\ [DiskCodecNext]_diskCodecVars => DiskInv'
  BY DiskInvStep
<1>3. DiskInv => DiskImagesKept
  BY DiskInvKeeps
<1>4. QED
  BY <1>1, <1>2, <1>3, PTL DEF DiskCodecSpec
===============================================================================
