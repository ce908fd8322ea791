-------------------------- MODULE FloppyDrive_proofs --------------------------
(***************************************************************************)
(* Proofs about FloppyDrive for any disks, geometry and sector length.     *)
(* What keeps a write off the wrong disk is that a transfer and the disk   *)
(* it was started on end together: while bytes remain, the disk in the     *)
(* drive is the one the command was given for.                             *)
(***************************************************************************)
EXTENDS FloppyDrive, TLAPS

\* The type invariant, the disk and the numbers apart from the rest.
Shape ==
    /\ mounted \in Medium \cup {NoDisk}
    /\ image \in [Block -> [1 .. SectorBytes -> Byte]]
    /\ track \in Track
    /\ sector \in 0 .. Sectors
    /\ fdcBlock \in Block
    /\ remaining \in 0 .. SectorBytes
    /\ writtenFor \in Medium \cup {NoDisk}

Rest ==
    /\ unreadable \subseteq Block
    /\ changePending \in BOOLEAN
    /\ spoiled \in BOOLEAN
    /\ directoryOf \in Medium \cup {NoDisk}
    /\ command \in {"none", "seek", "read", "write", "force"}
    /\ failed \in BOOLEAN
    /\ intrq \in BOOLEAN
    /\ waiting \in BOOLEAN
    /\ torn \subseteq Block

LEMMA TypeParts == TypeOK <=> Shape /\ Rest
  BY DEF TypeOK, Shape, Rest

\* A transfer does not outlive the disk it was started on.
TransferOfThisDisk == remaining > 0 => writtenFor = mounted

\* The sector the EPS is in the middle of.
Writing(block) == command = "write" /\ remaining > 0 /\ block = fdcBlock

\* Of that sector the bytes so far are written; any other sector is written
\* throughout or not at all.
WrittenInOrder ==
    \A block \in Block :
        IF Writing(block)
        THEN \A k \in 1 .. SectorBytes - remaining : image[block][k].written
        ELSE ~HalfWritten(block)

\* The map of readable sectors is the disk's, unless an insert failed late.
MapUnlessSpoiled == ~spoiled => unreadable = Unreadable(mounted)

IInv == /\ TypeOK
        /\ TransferOfThisDisk
        /\ NoStrayWrite
        /\ DirectoryNotStale
        /\ CommandAnswered
        /\ WrittenInOrder
        /\ SavedSectorsWhole
        /\ MapUnlessSpoiled
        /\ ErrorOfThisDisk

\* A disk fresh from its file holds only its own bytes.
LEMMA OriginalBytes ==
    ASSUME NEW disk \in Medium \cup {NoDisk}
    PROVE  /\ Original(disk) \in [Block -> [1 .. SectorBytes -> Byte]]
           /\ \A block \in Block, k \in 1 .. SectorBytes :
                  Original(disk)[block][k].disk = disk
  BY DEF Original, Byte

\* A disk fresh from its file has no half-written sector.
LEMMA OriginalWhole ==
    ASSUME NEW disk, NEW block \in Block, image = Original(disk)
    PROVE  ~HalfWritten(block)
  BY DEF Original, HalfWritten

\* The damaged sectors of any disk are sectors.
LEMMA UnreadableBlocks ==
    ASSUME NEW disk
    PROVE  Unreadable(disk) \subseteq Block
  BY MediumAssumption DEF Unreadable

\* The drive starts within the invariant.
LEMMA InitIInv == Init => IInv
<1> SUFFICES ASSUME Init PROVE IInv
  OBVIOUS
<1>1. mounted \in Medium \cup {NoDisk}
  BY DEF Init, Medium
<1>2. fdcBlock \in Block /\ track \in Track /\ sector \in 0 .. Sectors
  BY GeometryAssumption DEF Init, Block, Track
<1>3. TypeOK
  <2>1. unreadable \subseteq Block
    BY UnreadableBlocks DEF Init
  <2>2. image \in [Block -> [1 .. SectorBytes -> Byte]]
    BY <1>1, OriginalBytes DEF Init
  <2>3. Shape
    BY <1>1, <1>2, <2>2, GeometryAssumption DEF Init, Shape
  <2>4. Rest
    BY <1>1, <2>1 DEF Init, Rest
  <2>5. QED BY <2>3, <2>4, TypeParts
<1>4. NoStrayWrite
  BY <1>1, OriginalBytes DEF Init, NoStrayWrite
<1>5. TransferOfThisDisk /\ DirectoryNotStale /\ CommandAnswered
  BY DEF Init, TransferOfThisDisk, DirectoryNotStale, CommandAnswered
<1>6. WrittenInOrder
  BY OriginalWhole DEF Init, WrittenInOrder, Writing
<1>7. SavedSectorsWhole /\ MapUnlessSpoiled /\ ErrorOfThisDisk
  BY DEF Init, SavedSectorsWhole, MapUnlessSpoiled, ErrorOfThisDisk
<1>8. QED BY <1>3, <1>4, <1>5, <1>6, <1>7 DEF IInv

\* A byte the EPS writes lands in its sector and carries its disk.
LEMMA WriteByteImage ==
    ASSUME TypeOK, TransferOfThisDisk, NoStrayWrite, WriteByte
    PROVE  /\ image' \in [Block -> [1 .. SectorBytes -> Byte]]
           /\ NoStrayWrite'
<1> DEFINE position == SectorBytes - remaining + 1
           byte == [disk |-> writtenFor, written |-> TRUE]
<1>1. position \in 1 .. SectorBytes
  BY GeometryAssumption DEF TypeOK, WriteByte
<1>2. byte \in Byte /\ byte.disk = mounted
  BY DEF TypeOK, Byte, TransferOfThisDisk, WriteByte
<1>3. image' = [image EXCEPT ![fdcBlock][position] = byte]
  BY DEF WriteByte
<1> HIDE DEF position, byte
<1>4. image' \in [Block -> [1 .. SectorBytes -> Byte]]
  BY <1>1, <1>2, <1>3 DEF TypeOK
<1>5. \A block \in Block, k \in 1 .. SectorBytes :
          image'[block][k] = IF block = fdcBlock /\ k = position
                             THEN byte ELSE image[block][k]
  BY <1>1, <1>3 DEF TypeOK
<1>6. mounted' = mounted
  BY DEF WriteByte
<1>7. NoStrayWrite'
  BY <1>2, <1>5, <1>6 DEF NoStrayWrite
<1>8. QED BY <1>4, <1>7

\* Every step keeps the disk and the numbers in their types.
LEMMA NextShape == IInv /\ [Next]_vars => Shape'
<1> SUFFICES ASSUME IInv, [Next]_vars PROVE Shape'
  OBVIOUS
<1>0. Shape
  BY TypeParts DEF IInv
<1> USE <1>0, GeometryAssumption DEF Shape, Track, Block, diskVars, fdcVars
<1>1. CASE SelectSector
  BY <1>1 DEF SelectSector
<1>2. CASE SeekCommand
  BY <1>2 DEF SeekCommand
<1>3. CASE TransferCommand
  BY <1>3 DEF TransferCommand, StartTransfer, RefuseTransfer, IgnoreTransfer
<1>4. CASE ForceInterrupt
  BY <1>4 DEF ForceInterrupt
<1>5. CASE ReadByte
  BY <1>5 DEF ReadByte
<1>6. CASE WriteByte
  <2>1. image' \in [Block -> [1 .. SectorBytes -> Byte]]
    BY <1>6, WriteByteImage DEF IInv
  <2>2. QED BY <1>6, <2>1 DEF WriteByte
<1>7. CASE ReadStatus
  BY <1>7 DEF ReadStatus
<1>8. CASE ReadInputPort
  BY <1>8 DEF ReadInputPort
<1>9. CASE \E disk \in Medium : Mount(disk)
  <2>1. PICK disk \in Medium : Mount(disk)
    BY <1>9
  <2>2. disk \in Medium \cup {NoDisk}
    OBVIOUS
  <2>3. Original(disk) \in [Block -> [1 .. SectorBytes -> Byte]]
    BY <2>2, OriginalBytes
  <2>4. QED BY <2>1, <2>2, <2>3 DEF Mount
<1>10. CASE InsertFailsLate
  BY <1>10 DEF InsertFailsLate
<1>11. CASE SaveDisk
  BY <1>11 DEF SaveDisk
<1>12. CASE UNCHANGED vars
  BY <1>12 DEF vars
<1>13. QED
  BY <1>1, <1>2, <1>3, <1>4, <1>5, <1>6, <1>7, <1>8, <1>9,
     <1>10, <1>11, <1>12 DEF Next

\* Every step keeps the other types.
LEMMA NextRest == IInv /\ [Next]_vars => Rest'
<1> SUFFICES ASSUME IInv, [Next]_vars PROVE Rest'
  OBVIOUS
<1>0. Shape /\ Rest
  BY TypeParts DEF IInv
<1> USE <1>0 DEF Shape, Rest, diskVars, fdcVars
<1>1. CASE SelectSector
  BY <1>1 DEF SelectSector
<1>2. CASE SeekCommand
  BY <1>2 DEF SeekCommand
<1>3. CASE TransferCommand
  BY <1>3 DEF TransferCommand, StartTransfer, RefuseTransfer, IgnoreTransfer
<1>4. CASE ForceInterrupt
  BY <1>4 DEF ForceInterrupt
<1>5. CASE ReadByte
  BY <1>5 DEF ReadByte
<1>6. CASE WriteByte
  BY <1>6 DEF WriteByte
<1>7. CASE ReadStatus
  BY <1>7 DEF ReadStatus
<1>8. CASE ReadInputPort
  BY <1>8 DEF ReadInputPort
<1>9. CASE \E disk \in Medium : Mount(disk)
  <2>1. waiting' \in BOOLEAN
    BY <1>9, Zenon DEF Mount
  <2>2. QED BY <1>9, <2>1, UnreadableBlocks DEF Mount
<1>10. CASE InsertFailsLate
  BY <1>10 DEF InsertFailsLate
<1>11. CASE SaveDisk
  BY <1>11 DEF SaveDisk
<1>12. CASE UNCHANGED vars
  BY <1>12 DEF vars
<1>13. QED
  BY <1>1, <1>2, <1>3, <1>4, <1>5, <1>6, <1>7, <1>8, <1>9,
     <1>10, <1>11, <1>12 DEF Next

\* Every step keeps the types.
LEMMA NextTypeOK == IInv /\ [Next]_vars => TypeOK'
  BY NextShape, NextRest DEF TypeOK, Shape, Rest

\* A transfer goes on with its disk or ends with it.
LEMMA NextTransfer == IInv /\ [Next]_vars => TransferOfThisDisk'
<1> SUFFICES ASSUME IInv, [Next]_vars PROVE TransferOfThisDisk'
  OBVIOUS
<1> USE GeometryAssumption DEF IInv, TypeOK, TransferOfThisDisk, diskVars, fdcVars
<1>1. CASE SelectSector
  BY <1>1 DEF SelectSector
<1>2. CASE SeekCommand
  BY <1>2 DEF SeekCommand
<1>3. CASE TransferCommand
  BY <1>3 DEF TransferCommand, StartTransfer, RefuseTransfer, IgnoreTransfer
<1>4. CASE ForceInterrupt
  BY <1>4 DEF ForceInterrupt
<1>5. CASE ReadByte
  BY <1>5 DEF ReadByte
<1>6. CASE WriteByte
  BY <1>6 DEF WriteByte
<1>7. CASE ReadStatus
  BY <1>7 DEF ReadStatus
<1>8. CASE ReadInputPort
  BY <1>8 DEF ReadInputPort
<1>9. CASE \E disk \in Medium : Mount(disk)
  BY <1>9 DEF Mount
<1>10. CASE InsertFailsLate
  BY <1>10 DEF InsertFailsLate
<1>11. CASE SaveDisk
  BY <1>11 DEF SaveDisk
<1>12. CASE UNCHANGED vars
  BY <1>12 DEF vars
<1>13. QED
  BY <1>1, <1>2, <1>3, <1>4, <1>5, <1>6, <1>7, <1>8, <1>9,
     <1>10, <1>11, <1>12 DEF Next

\* No step brings a byte of one disk onto another.
LEMMA NextNoStray == IInv /\ [Next]_vars => NoStrayWrite'
<1> SUFFICES ASSUME IInv, [Next]_vars PROVE NoStrayWrite'
  OBVIOUS
<1> USE GeometryAssumption DEF IInv, NoStrayWrite, diskVars, fdcVars
<1>1. CASE SelectSector
  BY <1>1 DEF SelectSector
<1>2. CASE SeekCommand
  BY <1>2 DEF SeekCommand
<1>3. CASE TransferCommand
  BY <1>3 DEF TransferCommand, StartTransfer, RefuseTransfer, IgnoreTransfer
<1>4. CASE ForceInterrupt
  BY <1>4 DEF ForceInterrupt
<1>5. CASE ReadByte
  BY <1>5 DEF ReadByte
<1>6. CASE WriteByte
  BY <1>6, WriteByteImage
<1>7. CASE ReadStatus
  BY <1>7 DEF ReadStatus
<1>8. CASE ReadInputPort
  BY <1>8 DEF ReadInputPort
<1>9. CASE \E disk \in Medium : Mount(disk)
  <2>1. PICK disk \in Medium : Mount(disk)
    BY <1>9
  <2>2. disk \in Medium \cup {NoDisk}
    OBVIOUS
  <2>3. QED BY <2>1, <2>2, OriginalBytes DEF Mount
<1>10. CASE InsertFailsLate
  BY <1>10 DEF InsertFailsLate
<1>11. CASE SaveDisk
  BY <1>11 DEF SaveDisk
<1>12. CASE UNCHANGED vars
  BY <1>12 DEF vars
<1>13. QED
  BY <1>1, <1>2, <1>3, <1>4, <1>5, <1>6, <1>7, <1>8, <1>9,
     <1>10, <1>11, <1>12 DEF Next

\* Every command goes on, is answered or is given up.
LEMMA NextAnswered ==
    IInv /\ [Next]_vars => (DirectoryNotStale /\ CommandAnswered)'
<1> SUFFICES ASSUME IInv, [Next]_vars
             PROVE  (DirectoryNotStale /\ CommandAnswered)'
  OBVIOUS
<1> USE GeometryAssumption DEF IInv, TypeOK, DirectoryNotStale,
                               CommandAnswered, diskVars, fdcVars
<1>1. CASE SelectSector
  BY <1>1 DEF SelectSector
<1>2. CASE SeekCommand
  BY <1>2 DEF SeekCommand
<1>3. CASE TransferCommand
  BY <1>3 DEF TransferCommand, StartTransfer, RefuseTransfer, IgnoreTransfer
<1>4. CASE ForceInterrupt
  BY <1>4 DEF ForceInterrupt
<1>5. CASE ReadByte
  <2>1. /\ remaining' = remaining - 1
        /\ UNCHANGED <<mounted, changePending, directoryOf, waiting>>
    BY <1>5 DEF ReadByte
  <2>2. CASE remaining = 1
    <3>1. intrq'
      BY <1>5, <2>2, Zenon DEF ReadByte
    <3>2. QED BY <2>1, <3>1
  <2>3. CASE remaining # 1
    <3>1. remaining' > 0
      BY <1>5, <2>1, <2>3 DEF ReadByte
    <3>2. QED BY <2>1, <3>1
  <2>4. QED BY <2>2, <2>3
<1>6. CASE WriteByte
  <2>1. /\ remaining' = remaining - 1
        /\ UNCHANGED <<mounted, changePending, directoryOf, waiting>>
    BY <1>6 DEF WriteByte
  <2>2. CASE remaining = 1
    <3>1. intrq'
      BY <1>6, <2>2, Zenon DEF WriteByte
    <3>2. QED BY <2>1, <3>1
  <2>3. CASE remaining # 1
    <3>1. remaining' > 0
      BY <1>6, <2>1, <2>3 DEF WriteByte
    <3>2. QED BY <2>1, <3>1
  <2>4. QED BY <2>2, <2>3
<1>7. CASE ReadStatus
  BY <1>7 DEF ReadStatus
<1>8. CASE ReadInputPort
  BY <1>8 DEF ReadInputPort
<1>9. CASE \E disk \in Medium : Mount(disk)
  <2>1. /\ changePending' = TRUE
        /\ waiting' = (waiting /\ remaining = 0)
        /\ intrq' = intrq
    BY <1>9 DEF Mount
  <2>2. waiting' => waiting /\ remaining = 0
    BY <2>1, Zenon
  <2>3. remaining = 0 => ~(remaining > 0)
    OBVIOUS
  <2>4. waiting' => intrq'
    BY <2>1, <2>2, <2>3
  <2>5. QED BY <2>1, <2>4
<1>10. CASE InsertFailsLate
  BY <1>10 DEF InsertFailsLate
<1>11. CASE SaveDisk
  BY <1>11 DEF SaveDisk
<1>12. CASE UNCHANGED vars
  BY <1>12 DEF vars
<1>13. QED
  BY <1>1, <1>2, <1>3, <1>4, <1>5, <1>6, <1>7, <1>8, <1>9,
     <1>10, <1>11, <1>12 DEF Next

\* A byte the EPS writes is the next of its sector; the last one leaves the
\* sector whole.
LEMMA WriteByteInOrder ==
    ASSUME TypeOK, WrittenInOrder, WriteByte
    PROVE  WrittenInOrder'
<1> DEFINE position == SectorBytes - remaining + 1
           byte == [disk |-> writtenFor, written |-> TRUE]
<1>1. /\ position \in 1 .. SectorBytes
      /\ remaining' \in Nat
      /\ 1 .. SectorBytes - remaining' = 1 .. position
      /\ 1 .. SectorBytes - remaining = 1 .. position - 1
      /\ remaining' = 0 <=> position = SectorBytes
  BY GeometryAssumption DEF TypeOK, WriteByte
<1>2. byte.written
  OBVIOUS
<1>3. image' = [image EXCEPT ![fdcBlock][position] = byte]
  BY DEF WriteByte
<1>4. UNCHANGED <<command, fdcBlock>> /\ Writing(fdcBlock)
  BY DEF WriteByte, Writing
<1>5. fdcBlock \in Block
  BY DEF TypeOK
<1> HIDE DEF position, byte
<1>6. \A block \in Block, k \in 1 .. SectorBytes :
          image'[block][k] = IF block = fdcBlock /\ k = position
                             THEN byte ELSE image[block][k]
  BY <1>1, <1>3 DEF TypeOK
<1>7. \A k \in 1 .. position : image'[fdcBlock][k].written
  <2> SUFFICES ASSUME NEW k \in 1 .. position
               PROVE  image'[fdcBlock][k].written
    OBVIOUS
  <2>1. k \in 1 .. SectorBytes
    BY <1>1, GeometryAssumption
  <2>2. CASE k = position
    BY <1>2, <1>5, <1>6, <2>1, <2>2
  <2>3. CASE k # position
    <3>1. k \in 1 .. position - 1
      BY <1>1, <2>3, GeometryAssumption
    <3>2. image[fdcBlock][k].written
      BY <1>1, <1>4, <1>5, <3>1 DEF WrittenInOrder
    <3>3. image'[fdcBlock][k] = image[fdcBlock][k]
      BY <1>5, <1>6, <2>1, <2>3
    <3>4. QED BY <3>2, <3>3
  <2>4. QED BY <2>2, <2>3
<1>8. ASSUME NEW block \in Block, block # fdcBlock
      PROVE  ~Writing(block)' /\ ~HalfWritten(block)'
  <2>1. ~HalfWritten(block) /\ ~Writing(block)'
    BY <1>4, <1>8 DEF WrittenInOrder, Writing
  <2>2. \A k \in 1 .. SectorBytes : image'[block][k] = image[block][k]
    BY <1>6, <1>8
  <2>3. QED BY <2>1, <2>2 DEF HalfWritten
<1>9. CASE remaining' = 0
  <2>1. \A k \in 1 .. SectorBytes : image'[fdcBlock][k].written
    BY <1>1, <1>7, <1>9
  <2>2. ~HalfWritten(fdcBlock)'
    BY <2>1, <1>4 DEF HalfWritten
  <2>3. ~Writing(fdcBlock)'
    BY <1>9 DEF Writing
  <2>4. QED BY <1>4, <1>8, <2>2, <2>3 DEF WrittenInOrder
<1>10. CASE remaining' # 0
  <2>1. Writing(fdcBlock)'
    BY <1>1, <1>4, <1>10 DEF Writing
  <2>2. \A k \in 1 .. SectorBytes - remaining' : image'[fdcBlock][k].written
    BY <1>1, <1>7
  <2>3. QED BY <1>4, <1>8, <2>1, <2>2 DEF WrittenInOrder
<1>11. QED BY <1>9, <1>10

\* No step but a byte of the transfer going on writes a part of a sector.
LEMMA NextWritten == IInv /\ [Next]_vars => WrittenInOrder'
<1> SUFFICES ASSUME IInv, [Next]_vars PROVE WrittenInOrder'
  OBVIOUS
<1> USE GeometryAssumption DEF IInv, WrittenInOrder, Writing, HalfWritten,
                               diskVars, fdcVars
<1>1. CASE SelectSector
  BY <1>1 DEF SelectSector
<1>2. CASE SeekCommand
  BY <1>2 DEF SeekCommand
<1>3. CASE TransferCommand
  BY <1>3 DEF TransferCommand, StartTransfer, RefuseTransfer, IgnoreTransfer
<1>4. CASE ForceInterrupt
  BY <1>4 DEF ForceInterrupt
<1>5. CASE ReadByte
  BY <1>5 DEF ReadByte
<1>6. CASE WriteByte
  BY <1>6, WriteByteInOrder
<1>7. CASE ReadStatus
  BY <1>7 DEF ReadStatus
<1>8. CASE ReadInputPort
  BY <1>8 DEF ReadInputPort
<1>9. CASE \E disk \in Medium : Mount(disk)
  <2>1. PICK disk \in Medium : Mount(disk)
    BY <1>9
  <2>2. image' = Original(disk) /\ remaining' = 0
    BY <2>1 DEF Mount
  <2>3. QED BY <2>2 DEF Original
<1>10. CASE InsertFailsLate
  BY <1>10 DEF InsertFailsLate
<1>11. CASE SaveDisk
  BY <1>11 DEF SaveDisk
<1>12. CASE UNCHANGED vars
  BY <1>12 DEF vars
<1>13. QED
  BY <1>1, <1>2, <1>3, <1>4, <1>5, <1>6, <1>7, <1>8, <1>9,
     <1>10, <1>11, <1>12 DEF Next

\* A disk is only saved between sectors.
LEMMA NextSaved == IInv /\ [Next]_vars => SavedSectorsWhole'
<1> SUFFICES ASSUME IInv, [Next]_vars PROVE SavedSectorsWhole'
  OBVIOUS
<1> USE DEF IInv, SavedSectorsWhole, diskVars, fdcVars
<1>1. CASE SelectSector
  BY <1>1 DEF SelectSector
<1>2. CASE SeekCommand
  BY <1>2 DEF SeekCommand
<1>3. CASE TransferCommand
  BY <1>3 DEF TransferCommand, StartTransfer, RefuseTransfer, IgnoreTransfer
<1>4. CASE ForceInterrupt
  BY <1>4 DEF ForceInterrupt
<1>5. CASE ReadByte
  BY <1>5 DEF ReadByte
<1>6. CASE WriteByte
  BY <1>6 DEF WriteByte
<1>7. CASE ReadStatus
  BY <1>7 DEF ReadStatus
<1>8. CASE ReadInputPort
  BY <1>8 DEF ReadInputPort
<1>9. CASE \E disk \in Medium : Mount(disk)
  BY <1>9 DEF Mount
<1>10. CASE InsertFailsLate
  BY <1>10 DEF InsertFailsLate
<1>11. CASE SaveDisk
  BY <1>11 DEF SaveDisk, WrittenInOrder, Writing
<1>12. CASE UNCHANGED vars
  BY <1>12 DEF vars
<1>13. QED
  BY <1>1, <1>2, <1>3, <1>4, <1>5, <1>6, <1>7, <1>8, <1>9,
     <1>10, <1>11, <1>12 DEF Next

\* Errors and the map of readable sectors change with the disk.
LEMMA NextStatus == IInv /\ [Next]_vars => (MapUnlessSpoiled /\ ErrorOfThisDisk)'
<1> SUFFICES ASSUME IInv, [Next]_vars PROVE (MapUnlessSpoiled /\ ErrorOfThisDisk)'
  OBVIOUS
<1> USE DEF IInv, MapUnlessSpoiled, ErrorOfThisDisk, diskVars, fdcVars
<1>1. CASE SelectSector
  BY <1>1 DEF SelectSector
<1>2. CASE SeekCommand
  BY <1>2 DEF SeekCommand
<1>3. CASE TransferCommand
  <2>1. PICK kind \in {"read", "write"} :
            StartTransfer(kind) \/ RefuseTransfer(kind) \/ IgnoreTransfer(kind)
    BY <1>3 DEF TransferCommand
  <2>2. CASE RefuseTransfer(kind)
    <3>1. sector \in 0 .. Sectors - 1
      BY <2>2, GeometryAssumption DEF TypeOK, RefuseTransfer
    <3>2. QED BY <2>2, <3>1 DEF RefuseTransfer
  <2>3. QED BY <2>1, <2>2 DEF StartTransfer, IgnoreTransfer
<1>4. CASE ForceInterrupt
  BY <1>4 DEF ForceInterrupt
<1>5. CASE ReadByte
  BY <1>5 DEF ReadByte
<1>6. CASE WriteByte
  BY <1>6 DEF WriteByte
<1>7. CASE ReadStatus
  BY <1>7 DEF ReadStatus
<1>8. CASE ReadInputPort
  BY <1>8 DEF ReadInputPort
<1>9. CASE \E disk \in Medium : Mount(disk)
  BY <1>9 DEF Mount
<1>10. CASE InsertFailsLate
  BY <1>10 DEF InsertFailsLate
<1>11. CASE SaveDisk
  BY <1>11 DEF SaveDisk
<1>12. CASE UNCHANGED vars
  BY <1>12 DEF vars
<1>13. QED
  BY <1>1, <1>2, <1>3, <1>4, <1>5, <1>6, <1>7, <1>8, <1>9,
     <1>10, <1>11, <1>12 DEF Next

\* The invariant holds throughout.
THEOREM DriveInvariant == Spec => []IInv
<1>1. Init => IInv
  BY InitIInv
<1>2. IInv /\ [Next]_vars => IInv'
  BY NextTypeOK, NextTransfer, NextNoStray, NextAnswered, NextWritten,
     NextSaved, NextStatus DEF IInv
<1>3. QED BY <1>1, <1>2, PTL DEF Spec

\* However disks are swapped while the EPS writes, no byte meant for one disk
\* ends up on another.
THEOREM WritesStayOnTheirDisk == Spec => []NoStrayWrite
<1>1. IInv => NoStrayWrite
  BY DEF IInv
<1>2. QED BY <1>1, DriveInvariant, PTL

\* However disks go in and the input port is read, the EPS knows which disk
\* is in the drive or will be told.
THEOREM EpsIsTold == Spec => []DirectoryNotStale
<1>1. IInv => DirectoryNotStale
  BY DEF IInv
<1>2. QED BY <1>1, DriveInvariant, PTL

\* A command the controller took up moves bytes or ends with an interrupt
\* request, as long as its disk stays in.
THEOREM CommandsAreAnswered == Spec => []CommandAnswered
<1>1. IInv => CommandAnswered
  BY DEF IInv
<1>2. QED BY <1>1, DriveInvariant, PTL

\* save_disk() never catches a sector half written, for every length of a
\* sector and every order of commands, bytes and swaps.
THEOREM SavesWholeSectors == Spec => []SavedSectorsWhole
<1>1. IInv => SavedSectorsWhole
  BY DEF IInv
<1>2. QED BY <1>1, DriveInvariant, PTL

\* A CRC error in the status register is one of the disk in the drive at the
\* track of the head, unless a failed insert spoiled the map of sectors.
THEOREM ErrorsAreOfThisDisk == Spec => []ErrorOfThisDisk
<1>1. IInv => ErrorOfThisDisk
  BY DEF IInv
<1>2. QED BY <1>1, DriveInvariant, PTL

\* The drive's state keeps its types: the head stays on the disk and a
\* transfer inside its sector.
THEOREM DriveTypeCorrect == Spec => []TypeOK
<1>1. IInv => TypeOK
  BY DEF IInv
<1>2. QED BY <1>1, DriveInvariant, PTL
===============================================================================
