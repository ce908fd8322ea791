---------------------------- MODULE MCStorageSound ----------------------------
(***************************************************************************)
(* Small instances of storage and sound.  The parts share no variable with *)
(* each other, so one behaviour works one of them ("unit") and the others  *)
(* rest in an initial state: the run costs the sum of their states instead *)
(* of the product.                                                         *)
(***************************************************************************)
EXTENDS StorageDma, DiskCodec, Snapshot, EffectsAlu, AudioOutput, SamplingInput

VARIABLE unit    \* the part at work

BothChannels == Channel

partsVars == <<vars, snapshotVars, diskCodecVars, effectsHostVars,
               effectsAluVars, audioOutputVars, samplingInputVars>>

\* Where a part may begin in several states, it rests in one of them; an image
\* of the medium is too large to carry along, and is there while it is worked on.
NoImage ==
    /\ medium = <<>> /\ damaged = {}
    /\ loaded = NotLoaded /\ efe = CreateBlank /\ word = FirstWord

Resting ==
    /\ unit # "snapshot" => machine.rate = 48000
    /\ unit # "alu" => gpr[0] = 0 /\ gpr[1] = 0 /\ ccr = {}
    /\ unit # "output" => divider = 2
    /\ unit # "sampling" => now = 0

PartsInit ==
    /\ unit \in {"storage", "snapshot", "disk", "effects", "alu", "output", "sampling"}
    /\ Init
    /\ SnapshotInit /\ EffectsHostInit
    /\ EffectsAluInit /\ AudioOutputInit /\ SamplingInputInit
    /\ IF unit = "disk" THEN DiskCodecInit ELSE NoImage
    /\ Resting

StorageStep ==
    /\ unit = "storage" /\ Next
    /\ UNCHANGED <<unit, snapshotVars, diskCodecVars, effectsHostVars,
                   effectsAluVars, audioOutputVars, samplingInputVars>>
SnapshotStep ==
    /\ unit = "snapshot" /\ SnapshotNext
    /\ UNCHANGED <<unit, vars, diskCodecVars, effectsHostVars,
                   effectsAluVars, audioOutputVars, samplingInputVars>>
DiskStep ==
    /\ unit = "disk" /\ DiskCodecNext
    /\ UNCHANGED <<unit, vars, snapshotVars, effectsHostVars,
                   effectsAluVars, audioOutputVars, samplingInputVars>>
EffectsStep ==
    /\ unit = "effects" /\ EffectsHostNext
    /\ UNCHANGED <<unit, vars, snapshotVars, diskCodecVars,
                   effectsAluVars, audioOutputVars, samplingInputVars>>
AluStep ==
    /\ unit = "alu" /\ EffectsAluNext
    /\ UNCHANGED <<unit, vars, snapshotVars, diskCodecVars,
                   effectsHostVars, audioOutputVars, samplingInputVars>>
OutputStep ==
    /\ unit = "output" /\ AudioOutputNext
    /\ UNCHANGED <<unit, vars, snapshotVars, diskCodecVars,
                   effectsHostVars, effectsAluVars, samplingInputVars>>
SamplingStep ==
    /\ unit = "sampling" /\ SamplingInputNext
    /\ UNCHANGED <<unit, vars, snapshotVars, diskCodecVars,
                   effectsHostVars, effectsAluVars, audioOutputVars>>

\* The other parts may come to the bound of their behaviours and stop.
Rest ==
    /\ unit # "storage"
    /\ UNCHANGED <<unit, partsVars>>

PartsNext ==
    \/ StorageStep \/ SnapshotStep \/ DiskStep \/ EffectsStep \/ AluStep
    \/ OutputStep \/ SamplingStep \/ Rest

\* The fairness of StorageDma; the other parts need none.
PartsSpec ==
    /\ PartsInit
    /\ [][PartsNext]_<<unit, partsVars>>
    /\ WF_vars(unit = "storage" /\ DmacService)
    /\ WF_vars(unit = "storage" /\ HandleInterrupt)
===============================================================================
