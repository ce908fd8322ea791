--------------------------------- MODULE MidiIn ---------------------------------
(***************************************************************************)
(* MIDI from the DAW and SysEx from the editor, on their way to the        *)
(* receiver of the DUART: Eps16PlusProcessor::processBlock() merges a      *)
(* block's events, EmulatorBridge::process() hands them to the machine     *)
(* sample by sample, and midi_schedule_at() puts their bytes on a wire,    *)
(* one behind another.  A byte is a message and a position in it.          *)
(*                                                                         *)
(* The audio callback is one thread: an action is a turn of one of its     *)
(* loops, and the guards put the loops in the order of the code.  Only     *)
(* EnqueueSysEx, the editor's, comes at any time.                          *)
(***************************************************************************)
EXTENDS Naturals, Sequences, FiniteSets

CONSTANTS
    Length,         \* of each message, in bytes
    Clocks, Shorts, SysExes,    \* the messages: real-time, channel, SysEx
    RingSize,       \* sysExQueueCapacity
    SysExSize,      \* maximumInputSysExBytes
    SysExCount,     \* maximumSysExEvents
    BlockEvents,    \* maximumMidiEvents
    MidiWireSize, MidiRxSize,   \* of midi_wire and midi_rx
    ByteTime,       \* MIDI_BYTE_CYCLES, in samples
    Samples,        \* of a block
    DispatchEvery,  \* 64: samples between two calls of dispatchControls()
    HostEvents      \* the blocks of the host: [clock, midi], two sequences of
                    \* events [at |-> sample, message |-> ...]

Message == Clocks \cup Shorts \cup SysExes
HostEvent == [at : Nat, message : Message]

MidiInAssumption ==
    /\ SysExes \cap (Clocks \cup Shorts) = {}
    /\ Length \in [Message -> Nat \ {0}]
    /\ \A m \in Clocks : Length[m] = 1
    /\ \A m \in Shorts : Length[m] \in {2, 3}
    /\ RingSize \in Nat \ {0, 1}
    /\ {SysExSize, BlockEvents, MidiWireSize, MidiRxSize, ByteTime, Samples,
        DispatchEvery} \subseteq Nat \ {0}
    /\ SysExCount \in Nat
    /\ \A host \in HostEvents :
          host.clock \in Seq(HostEvent) /\ host.midi \in Seq(HostEvent)

VARIABLES
    ring,       \* SysEx the editor has queued, at most RingSize - 1
    dispatching,    \* in the loop of dispatchControls() over the ring
    block,      \* events of the block still to hand over, each with its place
    sample,     \* samples of the block still to run
    midiWire,   \* bytes on the wire, [byte, due], due in samples from now
    midiRx,     \* the receiver
    rxEnabled

midiInVars == <<ring, dispatching, block, sample, midiWire, midiRx, rxEnabled>>

MidiByte == UNION {{<<m, k>> : k \in 1 .. Length[m]} : m \in Message}
Placed == [place : Nat, at : Nat, message : Message]

MidiInInit ==
    /\ ring = <<>>
    /\ dispatching = FALSE
    /\ block = {}
    /\ sample = 0
    /\ midiWire = <<>>
    /\ midiRx = <<>>
    /\ rxEnabled = FALSE
-------------------------------------------------------------------------------
(* The wire. *)

\* Slip: a byte takes its time from now on, whatever is on the wire.
ArrivalFromNow(wire) == ByteTime

\* midi_schedule_at(): after the byte before it when that is still to come at
\* the time this one would.
Arrival(wire) ==
    IF wire # <<>> /\ wire[Len(wire)].due >= ByteTime
    THEN wire[Len(wire)].due + ByteTime ELSE ByteTime

\* The first bytes of a message put on the wire at once.  The second and those
\* after it find the one before them a byte time or more away.
ScheduledBytes(wire, message, bytes) ==
    wire \o [k \in 1 .. bytes |->
                [byte |-> <<message, k>>, due |-> Arrival(wire) + (k - 1) * ByteTime]]

\* eps16_probe_machine_midi_bytes(): as many bytes as there is room for.
SentBytes(wire, message) ==
    LET room == MidiWireSize - Len(wire) IN
    ScheduledBytes(wire, message, IF Length[message] < room THEN Length[message] ELSE room)

\* Slip: room for one byte is enough.
SentMidiPartly(wire, message) ==
    IF Len(wire) = MidiWireSize THEN wire ELSE SentBytes(wire, message)

\* eps16_probe_machine_midi(): a channel message goes whole or not at all.
SentMidi(wire, message) ==
    IF Len(wire) + Length[message] > MidiWireSize THEN wire
    ELSE ScheduledBytes(wire, message, Length[message])

\* dispatchMidi()
Sent(wire, message) ==
    IF message \in SysExes THEN SentBytes(wire, message)
    ELSE SentMidi(wire, message)

\* midi_service_wire() has nothing to do: the loops of the audio thread and the
\* EPS find the wire like this.
WireServed == midiWire # <<>> => midiWire[1].due > 0

\* A turn of midi_service_wire(): a byte that has come is received, or lost when
\* the receiver is off or full.
ReceiveByte ==
    /\ ~WireServed
    /\ midiWire' = Tail(midiWire)
    /\ midiRx' = IF rxEnabled /\ Len(midiRx) < MidiRxSize
                 THEN Append(midiRx, midiWire[1].byte) ELSE midiRx
    /\ UNCHANGED <<ring, dispatching, block, sample, rxEnabled>>
-------------------------------------------------------------------------------
(* The editor and the host. *)

EnqueueSysEx(message) ==
    /\ Len(ring) < RingSize - 1
    /\ ring' = Append(ring, message)
    /\ UNCHANGED <<dispatching, block, sample, midiWire, midiRx, rxEnabled>>

\* SysEx that is too long or one too many is left out.
Fits(midi, k) ==
    midi[k].message \in SysExes =>
        /\ Length[midi[k].message] <= SysExSize
        /\ Cardinality({j \in 1 .. k - 1 :
               midi[j].message \in SysExes /\ Length[midi[j].message] <= SysExSize})
               < SysExCount

\* The events of the host's clock and of its MIDI buffer, up to the size of the
\* array.  Their places keep those of one sample in their order.
Merged(clock, midi) ==
    LET Place(e, k) == [place |-> k, at |-> e.at, message |-> e.message]
        taken == {k \in DOMAIN midi : Fits(midi, k) /\
                     Len(clock) + Cardinality({j \in 1 .. k - 1 : Fits(midi, j)})
                         < BlockEvents}
    IN  {Place(clock[k], k) : k \in {k \in DOMAIN clock : k <= BlockEvents}} \cup
        {Place(midi[k], Len(clock) + k) : k \in taken}

BetweenBlocks == sample = 0 /\ block = {} /\ ~dispatching /\ WireServed

\* processBlock() up to the loop over the samples.
BeginBlock(clock, midi) ==
    /\ BetweenBlocks
    /\ sample' = Samples
    /\ block' = Merged(clock, midi)
    /\ dispatching' = TRUE
    /\ UNCHANGED <<ring, midiWire, midiRx, rxEnabled>>

\* A turn of the first loop of dispatchControls(), and its end.
DispatchSysEx ==
    /\ dispatching /\ WireServed
    /\ ring # <<>>
    /\ ring' = Tail(ring)
    /\ midiWire' = SentBytes(midiWire, Head(ring))
    /\ UNCHANGED <<dispatching, block, sample, midiRx, rxEnabled>>

EndDispatch ==
    /\ dispatching
    /\ ring = <<>>
    /\ dispatching' = FALSE
    /\ UNCHANGED <<ring, block, sample, midiWire, midiRx, rxEnabled>>

\* The events of the sample, one after another; those left over after the last
\* sample are handed to the machine behind it.
HandEvent ==
    /\ ~dispatching /\ WireServed
    /\ \E e \in block :
          /\ \A f \in block : e.at < f.at \/ (e.at = f.at /\ e.place <= f.place)
          /\ sample > 0 => e.at <= Samples - sample
          /\ block' = block \ {e}
          /\ midiWire' = Sent(midiWire, e.message)
    /\ UNCHANGED <<ring, dispatching, sample, midiRx, rxEnabled>>

\* The machine runs to the next sample.
RunSample ==
    /\ ~dispatching /\ WireServed
    /\ sample > 0
    /\ \A e \in block : e.at > Samples - sample
    /\ sample' = sample - 1
    /\ dispatching' = (sample' > 0 /\ (Samples - sample') % DispatchEvery = 0)
    /\ midiWire' = [k \in DOMAIN midiWire |-> [midiWire[k] EXCEPT !.due = @ - 1]]
    /\ UNCHANGED <<ring, block, midiRx, rxEnabled>>

\* prepare() and resetTimeline() empty the ring; the wire is the machine's.
PrepareBridge ==
    /\ BetweenBlocks
    /\ ring' = <<>>
    /\ UNCHANGED <<dispatching, block, sample, midiWire, midiRx, rxEnabled>>

\* A snapshot says whether the receiver is on, and brings no bytes.
RestoreWire(enabled) ==
    /\ BetweenBlocks
    /\ midiWire' = <<>>
    /\ midiRx' = <<>>
    /\ rxEnabled' = enabled
    /\ UNCHANGED <<ring, dispatching, block, sample>>
-------------------------------------------------------------------------------
(* The EPS. *)

ReadRx ==
    /\ WireServed
    /\ midiRx # <<>>
    /\ midiRx' = Tail(midiRx)
    /\ UNCHANGED <<ring, dispatching, block, sample, midiWire, rxEnabled>>

\* CRA: receiver on or off, and reset.
CommandRx(enable, reset) ==
    /\ WireServed
    /\ rxEnabled' = enable
    /\ midiRx' = IF reset THEN <<>> ELSE midiRx
    /\ UNCHANGED <<ring, dispatching, block, sample, midiWire>>

MidiInNext ==
    \/ \E m \in SysExes : EnqueueSysEx(m)
    \/ \E e \in HostEvents : BeginBlock(e.clock, e.midi)
    \/ DispatchSysEx
    \/ EndDispatch
    \/ HandEvent
    \/ RunSample
    \/ ReceiveByte
    \/ PrepareBridge
    \/ \E enabled \in BOOLEAN : RestoreWire(enabled)
    \/ ReadRx
    \/ \E enable, reset \in BOOLEAN : CommandRx(enable, reset)

MidiInSpec == MidiInInit /\ [][MidiInNext]_midiInVars
-------------------------------------------------------------------------------
(* Properties. *)

MidiInTypeOK ==
    /\ ring \in Seq(SysExes) /\ Len(ring) < RingSize
    /\ dispatching \in BOOLEAN
    /\ block \subseteq Placed
    /\ sample \in 0 .. Samples
    /\ midiWire \in Seq([byte : MidiByte, due : Nat]) /\ Len(midiWire) <= MidiWireSize
    /\ midiRx \in Seq(MidiByte) /\ Len(midiRx) <= MidiRxSize
    /\ rxEnabled \in BOOLEAN

\* No two bytes are due at once, each is due after those before it, and all of
\* them within the time they take.
BytesApart ==
    /\ \A j, k \in DOMAIN midiWire : j < k => midiWire[j].due < midiWire[k].due
    /\ \A k \in DOMAIN midiWire : midiWire[k].due <= k * ByteTime

\* However full the wire is and whatever comes from the editor and from the
\* DAW's clock between: a channel message is on the wire with all the bytes
\* that follow, nothing between them, each a byte time after the one before.
\* SysEx may be cut where the wire is full, but no byte comes without those
\* before it.  No two bytes arrive at once.
ChannelMessageWhole ==
    /\ \A k \in DOMAIN midiWire :
          LET m == midiWire[k].byte[1] i == midiWire[k].byte[2] IN
          /\ m \in Shorts /\ i < Length[m] =>
                /\ k < Len(midiWire)
                /\ midiWire[k + 1].byte = <<m, i + 1>>
                /\ midiWire[k + 1].due = midiWire[k].due + ByteTime
          /\ i > 1 /\ k > 1 => midiWire[k - 1].byte = <<m, i - 1>>
    /\ BytesApart
================================================================================
