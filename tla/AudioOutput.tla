---------------------------- MODULE AudioOutput ----------------------------
(***************************************************************************)
(* Audio from the voice chip to the DAW.  After each slice the machine     *)
(* renders the frames that have become due, one every "divider" cycles     *)
(* (plugin_render_audio()), into a ring; the plug-in drains the ring into  *)
(* the history of a resampler (ProbeMachineSink::runUntil()), which        *)
(* computes each DAW sample from the frames around a point that lies a     *)
(* fixed latency back (BandlimitedResampler::output()).  An interrupt of   *)
(* the voice chip is served behind the rendering, and may carry the        *)
(* machine past the sample with nothing rendered for it.  What is played   *)
(* is left out; the model follows the cycle each frame belongs to.         *)
(***************************************************************************)
EXTENDS Integers, Sequences

CONSTANTS
    Dividers,         \* cycles per frame the OS selects
    FastestDivider,   \* none is less: 64 is four voices
    MaximumDivider,   \* maximumClockDivider
    HalfTaps,         \* tapCount / 2
    HistoryCapacity,  \* historyCapacity
    QueueCapacity,    \* PLUGIN_AUDIO_QUEUE_CAPACITY
    SamplePeriod,     \* cycles per DAW sample
    Slices,           \* cycles of a slice of the machine
    Interrupts,       \* cycles of the service of the voice chip, 128 or more
    Samples           \* bound: DAW samples in one behaviour

LatencyCycles == HalfTaps * MaximumDivider

\* The history reaches back the latency, and the taps before it, from wherever a
\* slice ends; a sample brings no more frames than the ring holds.
ASSUME AudioOutputAssumption ==
    /\ FastestDivider \in Nat \ {0} /\ MaximumDivider \in Nat
    /\ Dividers \subseteq FastestDivider .. MaximumDivider /\ Dividers # {}
    /\ HalfTaps \in Nat \ {0}
    /\ HistoryCapacity \in Nat \ {0} /\ QueueCapacity \in Nat \ {0}
    /\ SamplePeriod \in Nat \ {0} /\ Slices \subseteq Nat \ {0}
    /\ Interrupts \subseteq 1 .. MaximumDivider /\ Samples \in Nat
    /\ \A s \in Slices :
          (HistoryCapacity - HalfTaps) * FastestDivider >= LatencyCycles + s - 1
    /\ \A s \in Slices, i \in Interrupts \cup {0} :
          (QueueCapacity - 1) * FastestDivider >= SamplePeriod + s + i + MaximumDivider

VARIABLES
    cycle,        \* plugin_executed
    rendered,     \* plugin_audio_scheduled_cycle
    divider,      \* es5505_core_output_divider()
    accumulator,  \* plugin_audio_cycle_accumulator
    audioQueue,
    history,      \* the resampler's frames, oldest first
    target,       \* the cycle the current DAW sample ends at
    asked         \* output() was called for it

audioOutputVars ==
    <<cycle, rendered, divider, accumulator, audioQueue, history, target, asked>>

AudioFrame == [cycle : Nat, divider : Dividers]

AudioOutputInit ==
    /\ cycle = 0 /\ rendered = 0
    /\ divider \in Dividers
    /\ accumulator = 0
    /\ audioQueue = <<>>
    /\ history = <<>>
    /\ target = SamplePeriod
    /\ asked = FALSE

\* The newest n of the frames.
Newest(frames, n) ==
    IF Len(frames) <= n THEN frames
    ELSE SubSeq(frames, Len(frames) - n + 1, Len(frames))

\* plugin_queue_audio(): one place stays free, and the oldest frame gives way.
Queued(queue, frames) == Newest(queue \o frames, QueueCapacity - 1)

\* Slip: the cycles that did not fill a frame are forgotten.
LeftOverLost(elapsed, d) == 0

LeftOver(elapsed, d) == (accumulator + elapsed) % d

\* The frames due in a slice that ends at "end", each with its own cycle.
Due(elapsed, end) ==
    LET due == (accumulator + elapsed) \div divider
        first == end - LeftOver(elapsed, divider) - (due - 1) * divider
    IN [k \in 1 .. due |-> [cycle |-> first + (k - 1) * divider, divider |-> divider]]

\* A slice of run_until(), which may end past the target.  What the service of
\* the voice chip takes behind it (0: no interrupt) is rendered with the next.
Slice(elapsed, served) ==
    /\ cycle < target
    /\ rendered' = cycle + elapsed
    /\ cycle' = rendered' + served
    /\ audioQueue' = Queued(audioQueue, Due(rendered' - rendered, rendered'))
    /\ accumulator' = LeftOver(rendered' - rendered, divider)
    /\ UNCHANGED <<divider, history, target, asked>>

\* The OS writes register 13 of the voice chip within a slice.
SetActiveVoices(d) ==
    /\ cycle < target
    /\ divider' = d
    /\ UNCHANGED <<cycle, rendered, accumulator, audioQueue, history, target, asked>>

\* Slip: one place of the history stays free, as in the audio ring.
PushedWithGap(frames, more) == Newest(frames \o more, HistoryCapacity - 1)

\* BandlimitedResampler::push(): the ring keeps the newest frames.
Pushed(frames, more) == Newest(frames \o more, HistoryCapacity)

Drain ==
    /\ cycle >= target /\ ~asked
    /\ history' = Pushed(history, audioQueue)
    /\ audioQueue' = <<>>
    /\ asked' = TRUE
    /\ UNCHANGED <<cycle, rendered, divider, accumulator, target>>

NextSample ==
    /\ asked
    /\ target < Samples * SamplePeriod
    /\ target' = target + SamplePeriod
    /\ asked' = FALSE
    /\ UNCHANGED <<cycle, rendered, divider, accumulator, audioQueue, history>>

AudioOutputNext ==
    \/ \E elapsed \in Slices, served \in Interrupts \cup {0} : Slice(elapsed, served)
    \/ \E d \in Dividers : SetActiveVoices(d)
    \/ Drain
    \/ NextSample

AudioOutputSpec == AudioOutputInit /\ [][AudioOutputNext]_audioOutputVars

-----------------------------------------------------------------------------
AudioOutputTypeOK ==
    /\ cycle \in Nat /\ rendered \in Nat /\ target \in Nat /\ accumulator \in Nat
    /\ divider \in Dividers
    /\ audioQueue \in Seq(AudioFrame) /\ Len(audioQueue) < QueueCapacity
    /\ history \in Seq(AudioFrame) /\ Len(history) <= HistoryCapacity
    /\ asked \in BOOLEAN

\* BandlimitedResampler::output(): the newest frame at or before the point
\* that is heard, 0 for none.
Base(at) ==
    LET before == {k \in 1 .. Len(history) : history[k].cycle <= at - LatencyCycles}
    IN IF before = {} THEN 0 ELSE CHOOSE k \in before : \A j \in before : j <= k

EvenlySpaced(frames) ==
    \A k \in 1 .. Len(frames) - 1 :
        frames[k + 1].cycle - frames[k].cycle = frames[k + 1].divider

(***************************************************************************)
(* Whatever the slices are and however often the OS changes the number of  *)
(* voices, frames are one divider apart without a gap, and a DAW sample    *)
(* has all its taps: those behind the base once the latency has passed,    *)
(* where only the very last may be missing if the sample ended in the      *)
(* service of the voice chip, and those before it once the latency has     *)
(* passed twice.  (plugin_render_audio(), ProbeMachineSink::runUntil(),    *)
(* BandlimitedResampler::output(), which skips a tap it does not have)     *)
(***************************************************************************)
OutputHasItsTaps ==
    /\ EvenlySpaced(history \o audioQueue)
    /\ asked /\ target > LatencyCycles + MaximumDivider =>
          /\ Base(target) # 0
          /\ Base(target) + HalfTaps <=
                Len(history) + IF cycle > rendered THEN 1 ELSE 0
    /\ asked /\ target > 2 * LatencyCycles => HalfTaps <= Base(target)
=============================================================================
