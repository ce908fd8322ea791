# EPS-16 PLUS emulator: TLA+ models and proofs

The repository emulates an Ensoniq EPS-16 PLUS sampler as an audio plug-in: the
original operating system runs on an emulated 68000 with its DUART, DMA, floppy,
SCSI, sound and effect chips (`src/native`), a second emulated CPU runs the
keypad firmware (the KPC), and a plug-in layer (`src/vst3`) connects the
machine to a DAW and to an editor window. This directory models the parts where
threads, clocks, queues, interrupts and user actions meet, and the algorithms
whose boundaries a test hardly reaches; it checks them with TLC and proves the
main results with TLAPS.

## Inventory

| Part | State it keeps | Operations | Talks to | Hard about it | Correct when | Module |
|---|---|---|---|---|---|---|
| Control queue, `EmulatorBridge` | 512 slots, two atomic indices, drop counter | enqueue, dequeue, reset | editor (message thread), audio callback, host | three threads, no lock | FIFO, no slot shared, refusal only when full | `ControlQueue` |
| Panel dispatch and keypad queue | held event, next panel cycle; 256-entry queue, active transition, next physical cycle | enqueue, dispatch, packet, start, drain | editor, KPC firmware | two queues of different pace, silent refusals | transitions arrive once and in order | `PanelPath` |
| Host MIDI clock | expected position, next tick, last play state | prepare, reset, generate | DAW transport, EPS sequencer | phase across blocks, jumps | EPS runs with the DAW and in step | `HostMidiClock` |
| Plug-in lifecycle | `ready`, `cycleBase`, DAW clock, pending snapshot | prepare, process, get/set state, restore | DAW, machine | any call order, failing restores | timeline and machine agree, no project lost | `PluginHost` |
| MIDI/SysEx path | SysEx ring, midi_wire, midi_rx, midi_tx | enqueueSysEx, dispatchMidi, collect | DAW, editor, DUART | partial acceptance, full buffers | a message is whole or absent | `MidiIn`, `MidiOut` |
| DUART and wires | registers, two wires, two FIFOs, timer | read, write, service time | 68000, KPC, MIDI | level interrupts, time slices | bytes keep order and spacing, IRQ3 has a source | `Duart` |
| DMA controller | two channels, PCL levels, one pending interrupt | registers, service, PCL edges | floppy, SCSI, 68000 | two devices end together | every end of transfer is seen | `Dmac`, `StorageDma` |
| Floppy drive | disk image, sector map, WD1772 registers | register access, insert, blank, save | EPS OS, DMA, user | media change in a transfer, failing inserts | bytes stay on their disk, EPS knows the disk | `FloppyDrive` |
| SCSI CD | phase, buffer, stream position | registers, commands, mount | DMA, EPS OS | image swapped while streaming | an answer or an interrupt for every command | `StorageDma` |
| KPC device | SCI/SPI queues, phase, timer flags | receive, transmit, transition, step | main CPU, firmware | phases driven from outside | each edge reported once, bytes in order | `KpcDevice` |
| KPC CPU | registers, condition codes | step, interrupt | KPC device | flags at the limits of a word | branches mean what was compared | `Hc11` |
| Legacy KPC responder, browser panel | load and display budgets, panel wire | keys, notes, replies, polls | EPS OS, live host | readiness bytes on a shared wire | a recording is not disturbed | `LivePanel` |
| VFD decoder | text, cursor, indicators | bytes written to THRB | EPS OS, editor | a long-lived parser state | the editor has what the EPS shows | `VfdDecoder` |
| Machine snapshot | the whole machine, eight versions | save, load | plug-in | fields an old version lacks | a restore does not depend on the machine before it | `Snapshot` |
| Machine scheduler | executed cycles, IRQ levels | run_until | all devices | slices, lost levels | no request is lost | `MachineSlices` |
| ES5505 | voices, interrupt vector, gate of restored voices | register access, render | 68000, audio ring | ends of loops, restored notes | loops stay in range, restored notes silent on the main output | `Voices` |
| ES5510 | registers, program, hold | host port, process | 68000, audio ring | flags and skips, upload beside running | flags mean the comparison, no half program runs | `EffectsAlu`, `EffectsHost` |
| Audio ring, resamplers | 8-channel ring, history, phase | push, drain, output, convert | scheduler, DAW | drop-oldest, time | every output has its frames, every conversion its moment | `AudioOutput`, `SamplingInput` |
| Disk codecs | none | decode, encode, create | floppy, files | damaged captures | round trip, damage stays local | `DiskCodec` |
| Editor, HTTP server, command line, Python tools, sampling circuit | widgets, traces, filter state | — | — | — | not modelled | — |

`PROJECT.json` lists every part with its sources and status, and under `hazards`
each place that is hard to test, with the properties that cover it or the reason
why none does.

## What is modelled

### `ControlQueue` (implements `BoundedFifo`)

The single-producer single-consumer ring of `EmulatorBridge`. One action is one
access to shared memory: `EnqueueLoadWrite`, `EnqueueRefuse` or
`EnqueueAccept`, `EnqueueFillSlot`, `EnqueuePublish` are `enqueue()` in order, and
`DequeueLoad`, `DequeueCopySlot`, `DequeueRelease` are `dequeue()`. The
acquire/release pairs of the code make the interleaving of those steps the
behaviours it has. `ResetRead`, `ResetWrite`, `ResetDrops` are the stores of
`prepare()` and `resetTimeline()`; the callback lock (or the host's contract)
keeps the audio thread out, nothing keeps the message thread out. The constant
`QuietReset` decides whether the host resets only while no enqueue runs.
`BoundedFifo` is what the two threads rely on; the mapping takes `Contents` for
the queue, and an empty queue between the two stores of a reset.

### `PanelPath`

One key transition from the mouse to the EPS: the control queue as a sequence
(which `ControlQueue` justifies), the loop of `dispatchControls()` with the held
event and the spacing (`DispatchPending`, `DispatchPanel`, `HoldPanel`,
`DispatchImmediate`), the keypad's queue (`Deliver`), its one active transition
(`StartPhysical`), and the firmware's report, a code byte and then 00
(`ReportCode`, `ReportEnd`). Cycle stamps are kept as the ticks left to them.
`Prepare` is the host preparing again, which empties the bridge but not the
keypad. `heard` is what the EPS was told; `lost` records refusals. Left out:
snapshot restore, codes above 3f, a firmware that sends nothing.

### `HostMidiClock`

One call of `generate()` per audio block. Positions are integers in a unit of
which `UnitsPerTick` make a tick and `rate` a sample, so that the rounding of the
code (`floor(x + 0.5)`, `ceil`) is exact integer arithmetic (`TickOffset`,
`CeilDiv`). `eps` is the listening sequencer, driven only by the bytes. The
DAW is `PlayBlock` (any position, so also a jump), `StoppedBlock`, and, where
`HostMay` allows, `RelocatedBlock` and `Reset`; `adrift` remembers the last two until
the next Start. The code's tolerance of two samples
is kept; its 1e-7 and 1e-9 guards against floating-point noise are not needed.

### `PluginHost`

The processor, the bridge's clock and the sink's `cycleBase`. A snapshot is
the project it belongs to; `Damaged` is one `load_state()` refuses. `PrepareToPlay`
has a disjunct for each outcome (no files, machine kept, snapshot restored),
`SetStateInformation` for deferred, restored and refused. `opened`, `saved` and
`stranded` are history. Left out: sample rates `prepare()` refuses, the property
tree, the mounted ISO.

### `FloppyDrive`

The WD1772 registers as the EPS uses them, the disk image with its sector map,
the one-shot change input of the DUART, and the user: `Mount` is both
`insert_disk()` and `create_blank_disk()`, `InsertFailsLate` an HFE file that turns
out bad while it is decoded, `SaveDisk` the save with its guard. A byte is
abstracted to the disk it belongs to and whether the EPS wrote it. The EPS is
assumed to give a busy controller no command but FORCE INTERRUPT and not to break
off a write. `waiting`, `writtenFor`, `directoryOf`, `spoiled` and `torn` are history.

### `Dmac`, `StorageDma`

`Dmac` is the MC68450 with the two channels the EPS uses: status (the completion
bits as one), control, count, the level of PCL, and `slot`, the single
`dmac_irq_channel`. `StorageDma` holds it together with the floppy controller (as
far as it moves bytes and PCL) and the SCSI target: `AnswerAtOnce`,
`AnswerBuffered`, `AnswerStreamed` are the outcomes of a command, `ReadBuffer` and
`ReadStreamByCpu` the CPU's way to the bytes, `DmacService` one call of
`dmac_service()` over both channels, `ChangeImage` another CD. The EPS is `Program`,
`ClearStatus`, `HandleInterrupt`. `answerDue`, `cut`, `unwired` and `unheard` are
history. A command is assumed to be finished before the next one.

### `Duart`, `MachineSlices`

`Duart` has the five interrupt sources, mask and line; the line is written exactly
where the code calls `duart_refresh_irq_line()`. `MachineSlices` is the loop of
`run_until()`: `EndMain`, `EndDma`, `EndDuart`, `EndVoices` end a slice and put the
next level on the line. `Served` is what time may have brought.

### `KpcDevice`, `Hc11`

`KpcDevice` is one `kpc_device_step()` per action, for any firmware: an access, the time
of an instruction in SCI, SPI and timer, and the interrupt that follows. `Receive`,
`Transmit` and `StartPhysical` are the main board. `Hc11` is the instruction set: the
next instruction is any, and a read gives any byte. `compared` remembers the operands
of the last comparison while its flags stand.

### `MidiIn`, `MidiOut`, `LivePanel`

`MidiIn`: the SysEx ring of the editor, a block of the DAW merged with the clock, and the
loops of the audio callback, one turn an action: a SysEx from the ring, an event of the
sample, a sample of the machine, a byte received. `block` is a set of events with their
places; every byte on the wire has its due time.
`MidiOut`: the THRA buffer and `collectMidiOutput()`, a byte an action. A byte is its
number in the history `sent`. `LivePanel`: the commands of the
browser on the panel wire, with `kpc_legacy.c` as responder.

### `VfdDecoder`

The parser in `duart_write()` as one function of its state, in the order of the code
(`CommandStep`, `AddressStep`, `LevelStep`, `SetupStep`, `HoldStep`, `Dispatch`,
`PublishStep`). A glyph is one of five classes, the cells are three instead of 22.

### `Snapshot`

`save_state()` of every version from 1 to 8 and `load_state()`. A group of fields that is
saved together is one field with two contents; `Since` is the version that brought
it. `outcomes` collects the machines one snapshot was restored to.

### `Voices`, `EffectsHost`, `EffectsAlu`, `AudioOutput`, `SamplingInput`

`Voices`: registers, addresses and ends of the ES5505 voices, the bus each sounds on, the
interrupt vector, and the gate that mutes restored voices. Buses 0, 2 and 3 feed the effects
processor and so the main output, which the gate mutes; buses 1 to 3 leave the plug-in
at outputs of their own (`Ungated`), which it does not mute. `heard` is the set of outputs a
restored voice may be heard at; an open main output counts for all of them. `EffectsHost`: the ES5510 host port with its hold.
`EffectsAlu`: the pipeline of fetch and commit with the flags instructions are
skipped on, with `Size` values in place of 2^24. `AudioOutput`: which frames of the
machine an output of the DAW is made from; the service of a voice interrupt is
rendered only with the slice behind it. `SamplingInput`: which DAW samples a
conversion of the EPS is made from. Samples themselves are left out.

### `DiskCodec`

A track as its ID and data fields; `EncodeHfe` and `DecodeHfe` with both sides
interleaved in the file, `Damage` in between, the strict and the tolerant reader;
`CreateBlank` and `CreateFromEfe` with directory and FAT; `MfmByte` and its inverse.
`AfterFields` and `AfterSides` are what the decoder has found after each field of a side and
after each side, as recursive functions.

## Runs

| Run | Question | Bounds | Result |
|---|---|---|---|
| `control_queue` | is the ring a FIFO, without races | 3 controls, 4 slots, 2 refusals | holds; 144,585 states |
| `control_queue_host_reset` | and with a reset at any moment | the same | **violated**: cleared controls come back |
| `host_midi_clock_relocate` | is it in step without exception when a stopped transport is moved | tempi 1, 3, positions to 24 | **violated** |
| `plugin_host` | do host calls keep machine, timeline, project together; do start, stop, clock keep the EPS with the DAW; are restored voices silent | below | holds; 158,560 states |
| `plugin_host_in_step` | also after a refused snapshot | the same | **violated** |
| `plugin_host_saved_keeps_opened` | is an opened project saved with its machine | the same | **violated** |
| `plugin_host_restored_heard` | are restored voices silent at every output | the same | **violated**: heard at the buses' own outputs |
| `panel_path` | do keys arrive, in order and once | 2 keys, queues of 2 and 1, spacing 1, hold 2 | holds, arrival under fairness; 224,480 states |
| `floppy_drive` | media change against transfers and saves | 2 disks and a blank, 2 tracks of 1 sector of 2 bytes | holds; 44,340 states |
| `floppy_drive_late_failure` | is the sector map that of the disk in the drive | the same | **violated** |
| `storage_sound` | DMA, SCSI, snapshots, disk images, effects, audio in both directions | below | holds, end of transfer under fairness; 309,311 states |
| `processors_panel` | slices and interrupt line, keypad processor and devices, display, MIDI in both directions, panel of the browser | below | holds, return of a request under fairness; 395,698 states |

Why the bounds are enough: the ring wraps with four slots and is both full and
empty, with three controls the order of any two shows; a tick falls between,
on and across blocks because 7 is prime to the rates and to the block; two projects are
needed to mix them and a third adds nothing symmetric; the queues hold
one transition behind another and fill, and the active one, the held one and
both queues can be occupied at once; two bytes make a half-written sector
and two tracks make a head that stands on another track than the damage.

`plugin_host`, `storage_sound` and `processors_panel` put parts side by side that share no variable. `unit` is chosen in
the initial state; that part takes its steps, the others rest in one of their initial
states, so a run costs the sum of their states and not the product, and each property is
said of the part at work (what a resting part would satisfy is not counted as shown).
`Rest` lets a part that came to its bound stop; the storage controller, the slices and
all parts of `plugin_host` have no such step, so a deadlock of theirs would be found.

| Part of `plugin_host` | Bounds | What they reach |
|---|---|---|
| Lifecycle | 2 projects saved at cycles 3 and 11, blocks of 4 cycles, overshoot 2, cycles to 16 | a restore that moves the counter up and one that moves it down, a refused one in between, an opened project over another |
| Clock | 7 units a tick, tempi 1, 2, 3, 5, blocks of 3 samples, positions to 40, relocation and prepare | ticks that round into the next block, changes of tempo and jumps while it runs, a move while it does not |
| Voices | 2 voices, 2 buses, positions 0 to 7, 2 quiet frames, 3 writes | a range inside and one at the ends of the memory, a voice beyond the active ones, a restored voice on the main bus and on another |

| Part of `storage_sound` | Bounds | What they reach |
|---|---|---|
| DMA, floppy, SCSI | counts to 3, sectors of 2 bytes, streams to 3, 2 bytes a slice | count shorter, equal and longer than the device, a transfer over several slices, both channels ending at once |
| Snapshot | 2 rates, wire of 2, 2 changes in all | every version against every single and double difference of the machines it is restored into |
| Disk images | 2 tracks of 2 sides of 3 sectors, 2 damaged fields, disk of 10 blocks | each kind of damage alone and in pairs, wrap from the last sector to the first, files that fill the disk; all MFM words of a byte after either bit |
| Effects port, arithmetic | 3 slots, hold 4, frames 1 to 3 apart; 4 values, 2 operations | an upload longer than the hold; each overflow and saturation |
| Audio, sampling input | dividers 2 and 4, 2 taps a side, slices of 2 and 3, a voice interrupt of 2, 9 outputs; periods 2 and 5, overrun 2 | frames in both rates, a history of 7 that gives way while the newest and the oldest tap are both needed, a sample that ends behind an interrupt; a conversion in an overrun |

| Part of `processors_panel` | Bounds | What they reach |
|---|---|---|
| Slices, DUART | 2 masks and 2 commands, each with something of both channels | each source masked and not, on and off; the level of each chip overwritten by each other |
| KPC device | 2 bytes, queue of 2, characters of 2 cycles, 1 cycle an instruction | a byte behind a byte, a full queue, an interrupt entry that ends a character |
| HC11 | bytes of 2 bits, any operands in the start state, 1 more instruction | each comparison with each flag, then what a frame brings back |
| Display | 3 cells, 2 levels, 5 openings and 3 more of 24 bytes | each class of byte in each state a short history leads to |
| MIDI | wire of 4, receiver of 1, ring of 2, blocks of 2 samples, of 4 events; buffer of 3, message of 3, room for 1, 5 bytes sent | a message that does not fit, one too long, one broken off, a prepare inside one |
| Browser panel | 2 keys, wire of 4, receiver of 1, one frame, one search byte, one poll of a load | every reason for a readiness byte, on the wire and in the receiver, when RECORD is entered |

What the violated runs show is in `PROJECT.json` under `findings`, each with the
line of code and the sentence of the documentation it disagrees with.

More weak places are not runs of their own; the passing runs carry them as
exceptions written into the properties:

- `HostMidiClock`, `adrift`: `reset()` forgets that the EPS runs, so a prepare
  while playing that is followed by a stopped block sends no Stop.
- `PanelPath`, `lost`: the keypad holds a transition for 1,000,000 cycles while the
  bridge spaces them by 500,000, so steady input fills the keypad's queue, and the
  packet it refuses is gone without a trace (`ProbeMachine.c` ignores the answer);
  `prepare()` throws a held release away.
- `FloppyDrive`, `spoiled`: until the next disk, errors come from the map of a file
  that was never mounted.
- `StorageDma`, `unheard`: with one pending interrupt for all channels, the end of a
  transfer that falls on a pending interrupt of the other channel, or on a masked one,
  is in the status register but never interrupts.
- `StorageDma`, `cut` and `unwired`: a change of the CD image drops a command without an
  interrupt, and an answer of no bytes sets the interrupt bit without driving PCL.
- `DiskCodec`, `RunsOn`: when the data mark of a sector and the ID mark of the next are
  both lost, the tolerant reader takes the next sector's data for this one and calls
  it readable.
- `MidiIn`: a SysEx is cut where the wire is full, without an F7.
- `MidiOut`: a full THRA buffer takes no byte, and a message sent then has a hole; `sent`
  holds the bytes the buffer took.
- `Snapshot`: the SCSI chip is in no snapshot and keeps what the machine had.
- `Voices`, `Ungated`: the gate of restored voices is one of the main output; what the
  buses give to Bus 2, Bus 3 and Aux 1 passes (`plugin_host_restored_heard`).
- `Voices`, `RoomToTurn`: the unsigned accumulator wraps at the ends of the memory, so a
  loop that touches them can be left.
- `AudioOutput`: the service of a voice interrupt is rendered with the next slice, so a
  DAW sample that ends inside it lacks its last tap. At the start, before the latency has
  passed twice, the taps before the point may be missing; the code skips them. With fewer
  than four active voices (a divider under 64) the 256 frames of the history do not reach
  back the 12,288 cycles of the latency, and the output is silent; `FastestDivider` leaves
  this out. With four they reach back the latency and the 24 taps before it.
- `LivePanel`, the periodic poll: mounting the OS disk turns it on again, and it is not
  held back by a recording.

### Fairness

`PanelPath`: weak fairness of `Dispatch`, `Tick` and `StartPhysical` is
a host that keeps calling the audio callback, which runs the dispatch loop and
the machine; of `ReportCode` and `ReportEnd`, a KPC firmware that answers an edge
it is shown (the firmware itself is a ROM that is not part of the repository).
Nothing is assumed of the user.

`StorageDma`: weak fairness of `DmacService`, which `run_until()` calls in every slice,
and of `HandleInterrupt`, an EPS that unmasks level 2 sooner or later. Nothing is
assumed of its other accesses.

`MachineSlices`: weak fairness of the end of a slice: `m68k_execute()` returns when
its cycles are used up. Nothing is assumed of the EPS.

## Proofs

`ControlQueue_proofs`: for every set of controls, every capacity above one and
every schedule with quiet resets, the type invariant, the absence of slot races,
and the refinement of `BoundedFifo`. The invariant `IInv` adds to the types who owns which
slot: a producer past its test owns the slot at `controlWrite`, which is not
full; a consumer past its load owns the slot at `controlRead`, which is not
empty; during a reset neither thread is inside. Without the ownership the race
freedom is not inductive. The refinement has one lemma per action; enqueueing is
the step of `EnqueuePublish`, dequeueing that of `DequeueRelease`.

`PluginHost_proofs`: for all projects, snapshot cycles, block lengths and
overshoots, the machine is in step with the timeline unless a restore failed,
the opened project is in the machine or pending, no save mixes projects, a ready
machine is restored. `IInv` adds that a machine that is not ready is untouched and
that a ready one waits for no restorable snapshot.

`FloppyDrive_proofs`: for every geometry, set of disks and damage, the writes
stay on their disk, the EPS is told of every disk, every command is answered, no save
catches half a sector, an error is of the disk in the drive. `IInv` adds that a
transfer in progress was started for the disk in the drive, that the sector being
written is the only one partly written, with the bytes so far in order (`WrittenInOrder`,
which is what the guard of a save rests on), and that the map of sectors is the disk's
unless an insert spoiled it.

`Storage_proofs`: for every transfer count, sector and stream length, slice and
choice of the channels that interrupt on PCL, the types (so no count falls below
zero), `SlotHasReason`, `IntWiredToPcl` and `ScsiAnswered`. `IInv` adds that an answer comes
from the buffer or from the image and not from both, that a chip with bytes to give
has not interrupted, and that after an answer of no bytes the line is high. The
first is needed because `DmacService` and `ReadBuffer` each look at one of the two. There is a lemma for each
way the controller's registers change (`DriveKeeps`, `PulseKeeps`, `StatusKeeps`,
`ControlKeeps`, `ServiceKeeps`) that the actions cite.

The same module proves `DiskImagesKept` of `DiskCodec`: for every number of tracks, sides
and sectors, every skew, every damage and every size of a FAT block, the images keep what they were
made from. `DiskCodecAssumption` asks that the fields of a side fill whole blocks of the
file and that the FAT has an entry for every block. The decoders, the FAT
chain and the MFM word are recursive functions over an interval of numbers; `Induction` takes a
set of numbers, not a formula, and follows from the well-foundedness of `<`, and `RecursionExists`
shows that such a function is there at all. The argument goes from the inside out.
- A field (`IdDecoded`, `DataDecoded`) leaves what was found as it is, refuses a damaged sector, or
  takes the data of the sector that waits.
- A side (`SideDecoded`): after k sectors (`SoFar`), whatever was seen is readable and has its
  own data or `RunsOver`, every whole sector before k was seen, and nothing changed outside of
  this side. `Waiting` says which sector may still wait for data: one whose data mark is lost,
  and the ID behind it too, if that has passed. Without it the data of the next sector could go anywhere.
- All sides (`SideBySide`): a side writes its own blocks only (`OtherSide`), and every block
  has one place on it (`BlockSomewhere`, `OrderOwn`), wherever a side begins.
- The file (`PlaceGiven`): the two sides, interleaved in blocks, come apart as they were put
  together. This is division arithmetic, and needs whole blocks.
- The inductive invariant `DiskInv` has a part for each variable: the medium is the encoded
  disk with the hits of `damaged`, `loaded` is the decoded medium, `efe` is the blank disk or
  one of the files, `word` is a byte's.
- For the EFE, the entry of a block is its own (`OwnEntry`), so the k-th step of the chain is
  block `Reserved + k`, and the blocks whose entry is 0 are counted as an interval. For MFM,
  the eight steps of `DecodeWord` are written out; the clock bits keep the words apart from 4489.

`HostMidiClock_proofs`: for every tempo, block length and unit of time, the EPS follows
the transport and stays in step with it. The lemmas are about the rounding: the ticks of a
block are an interval, their number is a difference of quotients, and the clocks of
a block in step leave the EPS where the next block begins. `EpsStaysInStep` assumes
blocks of two samples: the code takes a position within two samples of the expected
one for the same place, so a host that sends blocks of one sample and creeps back by one
each time is never noticed. The capacity of a block's event list is assumed to hold the
clocks of a block at the highest tempo, with room for Start and Stop
(`CapacityAssumption`).

`Sound_proofs` has six parts.
- Restores: for every set of rates, wire length and number of changes, the restores
  of one snapshot agree. The invariant says that each machine a restore led to is a
  function of the snapshot, the DAW rate and the SCSI chip alone (`Outcome`); two
  outcomes of one snapshot then differ in nothing else.
- Restored voices: for all voices, ranges, frequencies and lengths of quiet, a restored
  note is not heard at the main output. The invariant adds that the gate knows of every restored
  voice that still sounds; without it a frame could count quiet while one does.
- Loops: an action property; a frame is followed through end, turn and wrap of the
  unsigned accumulator. `RoomToTurn` is part of the property, since at the ends of the
  memory the code does leave the range.
- Effects: the transfer is on, the processor stands still, and what is left of the hold
  and the time since the last access make up `Hold`, until the host pauses too long. For the
  arithmetic, the flags of an addition are related to the signed operands.
- Sampling input: how the position of the next conversion and the clock of the machine
  are apart, from which follows which conversion a poll finds and that its taps are kept.
  `SamplingInputAssumption` says how long the history must be for the taps, an input block
  and the overrun of a slice.
- Audio output: any two frames lie as many dividers apart as there are frames between
  them (`Spread`), the newest frame and what is not rendered yet make up the time, and the
  ring has not given way. From this follows that the oldest frame is before the point that
  is heard, that the base is the newest such frame (`BaseIsNewest`), that enough frames
  are behind it, and, once the latency has passed twice, before it too.
  `AudioOutputAssumption` says that the history reaches back the latency and the taps
  before it in frames of the fastest divider.

`Panel_proofs` has five.
- Keypad device: bytes sent, in the transmitter, behind it and on the way make up
  what the firmware wrote (`OnTheWay`); the phase of a transition says whether a scan
  may still report it (`PanelInv`).
- HC11: while a comparison is remembered the flags are those of its operands, for any
  size of a byte, and an interrupt frame gives back what it took.
- Display: the steps of the handler keep a sound state sound, one lemma each
  (`Good`): text and page agree unless a publication is due, points stand at digits.
- Panel wire: while a recording is undisturbed no readiness byte is on the wire or in
  the receiver and nothing is armed that would send one (`Unarmed`).
- Interrupt line: for every set of masks and commands, the types and `NoSpuriousIrq`,
  which is inductive by itself: time only adds sources (`ServedKeeps`), and every
  register that takes one away writes the line.

`Bridge_proofs` has three parts.

Keys: for every set of keys, size of the queues and spacing, the EPS will
know the keys as the user holds them and never gets one twice in a direction. Both follow
from `PathInv`: the moves of a key on its way (`OnTheWay`, from the keypad board back to
the control queue) alternate, the first changes what the EPS knows and the last made what
the user holds. Without the alternation neither is inductive: a report takes the first
move away and the next becomes the first. One lemma each for a move added at the
end (`MoveAdded`), the first one arriving (`MoveArrives`), and an item that is not a move of the
key (`OtherGoes`, `OthersDoNotMatter`); all other steps leave `OnTheWay` as it is or lose something.

The wire to the EPS: a channel message is there whole or not at all. The invariant
(`SoundWire`) is about the times: bytes are due in their order (`Apart`), none more than a
byte time after the one before (`Close`, `InTime`), and a byte of a channel message is
followed by the next of it (`Followed`). `Close` is needed because `midi_schedule_at()`
compares with the last byte alone. `ScheduledIsSound` is the lemma about it; the
others say what time and the receiver take away.

The wire to the host: the EPS's bytes are numbered, and after each one the message put
together is the one that is open (`Assembled`): from the last F0, without the real-time
bytes, or nothing, if what is open is too long already. That last part is needed: without
it the end of a message too long could pass for a short one. `ByteTaken` shows it of one
byte; `Given` says what has been given away so far, and `AllGiven` that it is all, unless
the host refused something.

Only model-checked: all liveness (`KeyArrives`, `EndIsHandled`, `RequestsReturn`), which is
out of the prover's reach. Every invariant of the runs has a theorem. The theorems
take the assumptions of their modules on the constants, which the runs evaluate.

## Not modelled

- Analog circuit, resampler coefficients, voice filters and volumes, the ES5510's
  multiplier and delay memory: numerics on samples, without a state a property here is about.
- Opcode decoding and addressing of the HC11, the 68000 (Musashi) and the firmware of
  both processors, which the repository does not hold: the models let them do anything,
  but for what is named in the modules.
- `PanelEditor.cpp`: painting and mouse handling; what it asks of the machine are calls
  the models have.
- `live_host.c`, the page under `panel/` and `live_mount_disk()`: the development host, which the
  plug-in does not link. What its commands do to the panel wire is in `LivePanel`.
- `main()` of `rom_probe.c`, traces and scripts; the Python tools; tests and packaging.

## Running

    tlc -config MCControlQueue.cfg MCControlQueue
    tlapm ControlQueue_proofs.tla

and likewise for the other configurations and proof modules.
