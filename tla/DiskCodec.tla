----------------------------- MODULE DiskCodec -----------------------------
(***************************************************************************)
(* The disk images of native/hfe_disk.c: a disk encoded as an HFE file and *)
(* decoded again after the medium was damaged, the disk made round an EFE  *)
(* file, and the MFM words both are written with.                          *)
(*                                                                         *)
(* A track is told apart by its fields: the ID of a sector and its data,   *)
(* each behind a sync mark and with a check sum.  Gaps, headers and the    *)
(* check sum's polynomial are left out.  A block holds its own number, so  *)
(* that data in the wrong place shows.                                     *)
(***************************************************************************)
EXTENDS Integers, FiniteSets

CONSTANTS Tracks, Sides, Sectors,      \* EPS_TRACKS, EPS_SIDES, EPS_SECTORS
          TrackSkew, SideSkew,         \* 6 and 8
          Chunk,                       \* what one side has of an HFE block
          MaxDamage,                   \* bound: damaged fields
          TotalBlocks, Reserved,       \* blocks of an EPS disk, 1600 and 15
          FirstFat, PerFat,            \* block 5, and 170 entries in a block
          MaxByte                      \* 255

ASSUME DiskCodecAssumption ==
    /\ {Tracks, Sides, Sectors, Chunk, PerFat} \subseteq Nat \ {0}
    /\ {TrackSkew, SideSkew, MaxDamage, FirstFat, Reserved, TotalBlocks} \subseteq Nat
    /\ (2 * Sectors) % Chunk = 0
    /\ MaxByte \in 0 .. 255
    /\ FirstFat <= Reserved /\ Reserved < TotalBlocks
    /\ (Reserved - FirstFat) * PerFat >= TotalBlocks

VARIABLES medium,     \* per track, the fields of the HFE file
          damaged,    \* history: what was hit, and how
          loaded,     \* the outcome of the last eps16_disk_load*()
          efe,        \* the disk made round an EFE file
          word        \* the MFM word written last: prev, value, stored
diskCodecVars == <<medium, damaged, loaded, efe, word>>

TrackNo == 0 .. Tracks - 1
SideNo == 0 .. Sides - 1
SectorNo == 0 .. Sectors - 1
Block == 0 .. Tracks * Sides * Sectors - 1
BlockOf(track, side, sector) == (track * Sides + side) * Sectors + sector
Nobody == -1

-----------------------------------------------------------------------------
(***************************************************************************)
(* Encoding.  Each cylinder and side starts at a sector of its own.        *)
(***************************************************************************)
IdField(track, side, sector) ==
    [mark |-> "id", track |-> track, side |-> side, sector |-> sector,
     holds |-> Nobody, good |-> TRUE]
DataField(block) ==
    [mark |-> "data", track |-> Nobody, side |-> Nobody, sector |-> Nobody,
     holds |-> block, good |-> TRUE]

EncodeTrackSide(track, side) ==
    LET first == (track * TrackSkew + side * SideSkew) % Sectors
        sector(position) == (first + position) % Sectors
    IN [i \in 1 .. 2 * Sectors |->
          LET s == sector((i - 1) \div 2)
          IN IF i % 2 = 1 THEN IdField(track, side, s)
             ELSE DataField(BlockOf(track, side, s))]

\* encode_hfe(): a block of the file has one half for each side.
EncodeHfe ==
    [track \in TrackNo |->
        [i \in 1 .. 2 * Sectors * Sides |->
            LET k == i - 1
                side == (k \div Chunk) % Sides
                at == (k \div (Chunk * Sides)) * Chunk + (k % Chunk)
            IN EncodeTrackSide(track, side)[at + 1]]]

-----------------------------------------------------------------------------
(***************************************************************************)
(* Decoding one side; d holds what decode_hfe() has found so far.          *)
(***************************************************************************)
SideStream(fields, side) ==
    [j \in 1 .. 2 * Sectors |->
        fields[((j - 1) \div Chunk) * Chunk * Sides + side * Chunk + ((j - 1) % Chunk) + 1]]

Marked(d, block) ==
    [d EXCEPT !.pending = Nobody,
              !.status[block] = IF @ = "readable" THEN @ ELSE "crc"]

DecodeId(d, f, track, side, strict) ==
    IF f.track # track \/ f.side # side \/ f.sector \notin SectorNo
    THEN [d EXCEPT !.pending = Nobody, !.failed = @ \/ strict]
    ELSE IF ~f.good
    THEN [Marked(d, BlockOf(track, side, f.sector)) EXCEPT !.failed = @ \/ strict]
    ELSE [d EXCEPT !.pending = f.sector]

\* Slip: a damaged data field leaves its sector waiting for data.
DecodeDataKeepsPending(d, f, track, side, strict) ==
    LET block == BlockOf(track, side, d.pending)
    IN IF d.pending = Nobody THEN d
       ELSE IF ~f.good
       THEN [d EXCEPT !.status[block] = IF @ = "readable" THEN @ ELSE "crc",
                      !.failed = @ \/ strict]
       ELSE IF d.pending \in d.seen THEN [d EXCEPT !.pending = Nobody]
       ELSE [d EXCEPT !.pending = Nobody, !.seen = @ \cup {d.pending},
                      !.status[block] = "readable", !.content[block] = f.holds]

DecodeData(d, f, track, side, strict) ==
    LET block == BlockOf(track, side, d.pending)
    IN IF d.pending = Nobody THEN d
       ELSE IF ~f.good
       THEN [Marked(d, block) EXCEPT !.failed = @ \/ strict]
       ELSE IF d.pending \in d.seen THEN [d EXCEPT !.pending = Nobody]
       ELSE [d EXCEPT !.pending = Nobody, !.seen = @ \cup {d.pending},
                      !.status[block] = "readable", !.content[block] = f.holds]

Decode(d, f, track, side, strict) ==
    CASE f.mark = "id" -> DecodeId(d, f, track, side, strict)
      [] f.mark = "data" -> DecodeData(d, f, track, side, strict)
      [] OTHER -> d

\* What is found after each of the fields.
AfterFields(d, fields, track, side, strict) ==
    LET after[j \in 0 .. 2 * Sectors] ==
            IF j = 0 THEN [d EXCEPT !.seen = {}, !.pending = Nobody]
            ELSE Decode(after[j - 1], SideStream(fields, side)[j], track, side, strict)
    IN after

DecodeSide(d, fields, track, side, strict) ==
    LET end == AfterFields(d, fields, track, side, strict)[2 * Sectors]
    IN [end EXCEPT !.failed = @ \/ (strict /\ end.seen # SectorNo)]

NothingFound ==
    [content |-> [b \in Block |-> Nobody], status |-> [b \in Block |-> "missing"],
     pending |-> Nobody, seen |-> {}, failed |-> FALSE]

\* What is found after each of the sides, from the first track on.
AfterSides(image, strict) ==
    LET after[n \in 0 .. Tracks * Sides] ==
            IF n = 0 THEN NothingFound
            ELSE LET track == (n - 1) \div Sides IN
                 DecodeSide(after[n - 1], image[track], track, (n - 1) % Sides, strict)
    IN after

DecodeHfe(image, strict) ==
    LET end == AfterSides(image, strict)[Tracks * Sides]
    IN [content |-> end.content, status |-> end.status,
        mode |-> IF strict THEN "strict" ELSE "tolerant",
        ok |-> ~end.failed /\ \E b \in Block : end.status[b] = "readable"]

-----------------------------------------------------------------------------
(***************************************************************************)
(* The EPS disk: blocks up to Reserved are the system's, a FAT entry of 0  *)
(* is free, 1 ends a file.                                                 *)
(***************************************************************************)
\* fat_entry(): the place of a block's entry on the disk.
FatEntry(block) == <<FirstFat + block \div PerFat, block % PerFat>>
FatPlaces == (FirstFat .. Reserved - 1) \X (0 .. PerFat - 1)

CreateBlank ==
    [fat |-> [p \in FatPlaces |->
                 IF \E b \in 0 .. Reserved - 1 : p = FatEntry(b) THEN 1 ELSE 0],
     free |-> TotalBlocks - Reserved,
     file |-> 0, start |-> 0, data |-> [b \in 0 .. TotalBlocks - 1 |-> 0]]

\* create_from_efe(), for a file of n data blocks that its header declares.
\* Slip: the last block of the file points at the block after it.
CreateFromEfeUnended(n) ==
    LET blank == CreateBlank
        next(b) == b + 1
        block(p) == (p[1] - FirstFat) * PerFat + p[2]
    IN [blank EXCEPT
          !.fat = [p \in FatPlaces |-> IF block(p) \in Reserved .. Reserved + n - 1
                                       THEN next(block(p)) ELSE blank.fat[p]],
          !.free = TotalBlocks - Reserved - n, !.file = n, !.start = Reserved,
          !.data = [b \in 0 .. TotalBlocks - 1 |->
                       IF b \in Reserved .. Reserved + n - 1 THEN b - Reserved + 1 ELSE 0]]

CreateFromEfe(n) ==
    LET blank == CreateBlank
        next(b) == IF b + 1 < Reserved + n THEN b + 1 ELSE 1
        block(p) == (p[1] - FirstFat) * PerFat + p[2]
    IN [blank EXCEPT
          !.fat = [p \in FatPlaces |-> IF block(p) \in Reserved .. Reserved + n - 1
                                       THEN next(block(p)) ELSE blank.fat[p]],
          !.free = TotalBlocks - Reserved - n, !.file = n, !.start = Reserved,
          !.data = [b \in 0 .. TotalBlocks - 1 |->
                       IF b \in Reserved .. Reserved + n - 1 THEN b - Reserved + 1 ELSE 0]]

-----------------------------------------------------------------------------
(***************************************************************************)
(* MFM: a clock bit is set between two data bits that are both 0.  The     *)
(* file has the bits of every byte in reverse (reverse_bits()).            *)
(***************************************************************************)
\* The n-th bit of a byte, the highest first.
Weight == <<128, 64, 32, 16, 8, 4, 2, 1>>
Bit(value, n) == (value \div Weight[n]) % 2

MfmByte(prev, value) ==
    [i \in 1 .. 16 |->
        LET n == (i + 1) \div 2
            before == IF n = 1 THEN prev ELSE Bit(value, n - 1)
        IN IF i % 2 = 0 THEN Bit(value, n)
           ELSE IF before = 0 /\ Bit(value, n) = 0 THEN 1 ELSE 0]

Reversed(bits) == [i \in 1 .. 16 |-> bits[IF i <= 8 THEN 9 - i ELSE 25 - i]]

\* Every other bit is one of data.
DecodeWord(bits) ==
    LET value[n \in 0 .. 8] == IF n = 0 THEN 0 ELSE 2 * value[n - 1] + bits[2 * n]
    IN value[8]

-----------------------------------------------------------------------------
NotLoaded == [content |-> [b \in Block |-> Nobody],
              status |-> [b \in Block |-> "missing"], mode |-> "none", ok |-> FALSE]

FirstWord == [prev |-> 0, value |-> 0, stored |-> Reversed(MfmByte(0, 0))]

DiskCodecInit ==
    /\ medium = EncodeHfe
    /\ damaged = {}
    /\ loaded = NotLoaded
    /\ efe = CreateBlank
    /\ word = FirstWord

\* The HFE file, the EFE disk and the words are worked on one at a time.
\*
\* A field that was hit: its check sum fails, its mark is gone, or an ID names
\* another sector (and so fails) or another track (written by another drive).
Hit(f, kind) ==
    CASE kind = "lost" -> [f EXCEPT !.mark = "none"]
      [] kind = "crc" -> [f EXCEPT !.good = FALSE]
      [] kind = "crcOther" -> [f EXCEPT !.good = FALSE, !.sector = (@ + 1) % Sectors]
      [] kind = "foreign" -> [f EXCEPT !.track = @ + 1]

Damage(track, i, kind) ==
    /\ loaded = NotLoaded /\ efe = CreateBlank /\ word = FirstWord
    /\ Cardinality(damaged) < MaxDamage
    /\ \A hit \in damaged : hit.track # track \/ hit.index # i
    /\ medium[track][i].mark = "data" => kind \in {"lost", "crc"}
    /\ damaged' = damaged \cup {[track |-> track, index |-> i, kind |-> kind,
                                field |-> medium[track][i]]}
    /\ medium' = [medium EXCEPT ![track][i] = Hit(@, kind)]
    /\ UNCHANGED <<loaded, efe, word>>

\* disk_load(): eps16_disk_load() is strict, eps16_disk_load_physical() not.
Load(strict) ==
    /\ efe = CreateBlank /\ word = FirstWord
    /\ loaded' = DecodeHfe(medium, strict)
    /\ UNCHANGED <<medium, damaged, efe, word>>

LoadEfe(n) ==
    /\ damaged = {} /\ loaded = NotLoaded /\ word = FirstWord
    /\ efe' = CreateFromEfe(n)
    /\ UNCHANGED <<medium, damaged, loaded, word>>

WriteByte(value) ==
    /\ damaged = {} /\ loaded = NotLoaded /\ efe = CreateBlank
    /\ LET prev == word.value % 2
       IN word' = [prev |-> prev, value |-> value, stored |-> Reversed(MfmByte(prev, value))]
    /\ UNCHANGED <<medium, damaged, loaded, efe>>

DiskCodecNext ==
    \/ \E track \in TrackNo, i \in 1 .. 2 * Sectors * Sides,
          kind \in {"lost", "crc", "crcOther", "foreign"} : Damage(track, i, kind)
    \/ \E strict \in BOOLEAN : Load(strict)
    \/ \E n \in 1 .. TotalBlocks - Reserved : LoadEfe(n)
    \/ \E value \in 0 .. MaxByte : WriteByte(value)

DiskCodecSpec == DiskCodecInit /\ [][DiskCodecNext]_diskCodecVars

-----------------------------------------------------------------------------
DiskCodecTypeOK ==
    /\ Cardinality(damaged) <= MaxDamage
    /\ loaded.content \in [Block -> Block \cup {Nobody}]
    /\ loaded.status \in [Block -> {"missing", "crc", "readable"}]
    /\ loaded.mode \in {"none", "strict", "tolerant"} /\ loaded.ok \in BOOLEAN
    /\ efe.fat \in [FatPlaces -> 0 .. TotalBlocks]
    /\ word.stored \in [1 .. 16 -> {0, 1}]

WasHit(field, kinds) ==
    \E hit \in damaged : hit.field = field /\ hit.kind \in kinds
AnyKind == {"lost", "crc", "crcOther", "foreign"}

IdOf(b) == IdField(b \div (Sides * Sectors), (b \div Sectors) % Sides, b % Sectors)
IsIntact(b) == ~WasHit(IdOf(b), AnyKind) /\ ~WasHit(DataField(b), AnyKind)
OnSameSide(b, c) == b \div Sectors = c \div Sectors

\* The marks of a block's data and of the next ID are both gone: the data of
\* the next sector then follows the ID of this one.
RunsOn(b) ==
    /\ WasHit(DataField(b), {"lost"})
    /\ \E c \in Block : /\ OnSameSide(b, c) /\ c % Sectors = ((b % Sectors) + 1) % Sectors
                         /\ WasHit(IdOf(c), {"lost"})

(***************************************************************************)
(* What was saved as an HFE file is loaded again block for block; damage   *)
(* to one sector takes no other with it, a sector reported readable holds  *)
(* its own data, and the strict reader accepts nothing but the whole disk. *)
(* (encode_hfe(), decode_hfe())                                            *)
(***************************************************************************)
SectorsKeepTheirData ==
    /\ (loaded.mode # "none" /\ damaged = {}) => loaded.ok
    /\ (loaded.mode = "strict" /\ loaded.ok) => \A b \in Block : loaded.content[b] = b
    /\ loaded.mode = "tolerant" =>
          \A b \in Block :
             /\ IsIntact(b) => loaded.status[b] = "readable" /\ loaded.content[b] = b
             /\ loaded.status[b] = "readable" /\ ~RunsOn(b) => loaded.content[b] = b

(***************************************************************************)
(* The file on the disk made round an EFE file is read along its FAT chain *)
(* in order and to its end, and the count of free blocks is that of the    *)
(* FAT.  (create_from_efe(), eps16_disk_create_blank())                    *)
(***************************************************************************)
FileFollowsItsChain ==
    LET chain[k \in 0 .. TotalBlocks] ==
            IF k = 0 THEN efe.start ELSE efe.fat[FatEntry(chain[k - 1])]
    IN /\ efe.free = Cardinality({b \in 0 .. TotalBlocks - 1 : efe.fat[FatEntry(b)] = 0})
       /\ efe.file > 0 =>
             /\ \A k \in 1 .. efe.file : efe.data[chain[k - 1]] = k
             /\ efe.fat[FatEntry(chain[efe.file - 1])] = 1

(***************************************************************************)
(* A byte written in MFM is read back, whatever came before it, and is     *)
(* never taken for a sync mark (4489), at a byte's distance either.        *)
(* (mfm_byte(), decode_word(), reverse_bits())                             *)
(***************************************************************************)
BytesReadBack ==
    LET read == Reversed(word.stored)
    IN /\ DecodeWord(read) = word.value
       /\ read # <<0,1,0,0, 0,1,0,0, 1,0,0,0, 1,0,0,1>>
       /\ read # <<1,0,0,0, 1,0,0,1, 0,1,0,0, 0,1,0,0>>

(***************************************************************************)
(* An image keeps what it was made from: all of the above.                 *)
(***************************************************************************)
DiskImagesKept ==
    DiskCodecTypeOK /\ SectorsKeepTheirData /\ FileFollowsItsChain /\ BytesReadBack
=============================================================================
