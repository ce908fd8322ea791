------------------------------ MODULE Sound_proofs ------------------------------
(***************************************************************************)
(* What a snapshot restores and what is heard, proved for every size: the  *)
(* restore itself, the voices and the gate behind them, the effects        *)
(* processor with its host, the sampling input and the audio output.       *)
(***************************************************************************)
EXTENDS Snapshot, Voices, EffectsAlu, SamplingInput, AudioOutput,
        SequenceTheorems, WellFoundedInduction, TLAPS

-------------------------------------------------------------------------------
(* A restore depends on the snapshot alone, for every set of DAW rates,    *)
(* every length of the panel wire and any work of the machine before it.   *)

\* What a restore of s leads to at a rate, with the SCSI chip it finds.
GroupAt(s, g, rate) ==
    CASE g = "published" /\ s.version < 4 -> s.part["display"]
      [] g = "circuit" /\ s.rate # rate -> "off"
      [] s.version < Since[g] -> "off"
      [] OTHER -> s.part[g]

PartAt(s, p, rate, scsi) ==
    IF p \in Groups THEN GroupAt(s, p, rate)
    ELSE IF p \in Emptied THEN "off" ELSE scsi

Outcome(s, rate, scsi) ==
    [part |-> [p \in Parts |-> PartAt(s, p, rate, scsi)],
     command |-> s.command, masked |-> s.masked, receiver |-> RestoredReceiver(s),
     position |-> s.position, wire |-> WithReleases(s.wire), rate |-> rate]

SnapshotInv ==
    /\ held = NoSnapshot => outcomes = {}
    /\ \A m \in outcomes : \E rate, scsi : m = Outcome(held, rate, scsi)

\* The SCSI chip is the only part that is neither saved nor emptied.
LEMMA PartsApart ==
    /\ "scsi" \in Parts /\ "scsi" \notin Groups /\ "scsi" \notin Emptied
    /\ \A p \in Parts : p = "scsi" \/ p \in Groups \/ p \in Emptied
    /\ "circuit" \in Parts
  BY DEF Parts, Groups, Emptied, Since

\* load_state() leads to the outcome for the rate and the chip it finds.
LEMMA RestoredIsOutcome ==
    ASSUME NEW s
    PROVE  Restored(s) = Outcome(s, machine.rate, machine.part["scsi"])
<1>1. ASSUME NEW p \in Parts
      PROVE  RestoredPart(s, p) = PartAt(s, p, machine.rate, machine.part["scsi"])
  <2>1. CASE p \in Groups
    BY <2>1 DEF RestoredPart, PartAt, RestoredGroup, GroupAt
  <2>2. CASE p \notin Groups
    BY <2>2, PartsApart DEF RestoredPart, PartAt
  <2>3. QED
    BY <2>1, <2>2
<1>2. QED
  BY <1>1 DEF Restored, Outcome

LEMMA SnapshotInvInit == SnapshotInit => SnapshotInv
  BY DEF SnapshotInit, SnapshotInv

LEMMA SnapshotInvStep == SnapshotInv /\ [SnapshotNext]_snapshotVars => SnapshotInv'
<1> SUFFICES ASSUME SnapshotInv, [SnapshotNext]_snapshotVars
             PROVE  SnapshotInv'
  OBVIOUS
<1>1. CASE Work
  BY <1>1 DEF Work, SnapshotInv, Outcome, RestoredReceiver, PartAt, GroupAt
<1>2. ASSUME NEW version \in Versions, SaveState(version)
      PROVE  SnapshotInv'
  BY <1>2 DEF SaveState, SnapshotInv
<1>3. CASE LoadState
  <2>1. machine' = Outcome(held, machine.rate, machine.part["scsi"])
    BY <1>3, RestoredIsOutcome DEF LoadState
  <2>2. QED
    BY <1>3, <2>1 DEF LoadState, SnapshotInv
<1>4. CASE RefuseState
  BY <1>4 DEF RefuseState, SnapshotInv
<1>5. CASE UNCHANGED snapshotVars
  BY <1>5 DEF snapshotVars, SnapshotInv
<1>6. QED
  BY <1>1, <1>2, <1>3, <1>4, <1>5 DEF SnapshotNext

\* The outcomes of one snapshot agree but for the chip and, at two rates, the
\* circuit that depends on the rate.
LEMMA PartsAgree ==
    ASSUME NEW s, NEW r1, NEW c1, NEW r2, NEW c2, NEW p \in Parts,
           p # "scsi", r1 = r2 \/ p # "circuit"
    PROVE  PartAt(s, p, r1, c1) = PartAt(s, p, r2, c2)
<1>1. CASE r1 = r2
  BY <1>1, PartsApart DEF PartAt
<1>2. CASE p # "circuit"
  BY <1>2, PartsApart DEF PartAt, GroupAt
<1>3. QED
  BY <1>1, <1>2

LEMMA SnapshotInvRepeats == SnapshotInv => RestoreIsRepeatable
<1> SUFFICES ASSUME SnapshotInv, NEW a \in outcomes, NEW b \in outcomes
             PROVE  /\ \A p \in Parts \ MayDiffer(a, b) : a.part[p] = b.part[p]
                    /\ <<a.command, a.masked, a.receiver, a.position, a.wire>> =
                       <<b.command, b.masked, b.receiver, b.position, b.wire>>
  BY DEF RestoreIsRepeatable
<1>1. PICK r1, c1 : a = Outcome(held, r1, c1)
  BY DEF SnapshotInv
<1>2. PICK r2, c2 : b = Outcome(held, r2, c2)
  BY DEF SnapshotInv
<1>3. a.rate = r1 /\ b.rate = r2
  BY <1>1, <1>2 DEF Outcome
<1>4. ASSUME NEW p \in Parts \ MayDiffer(a, b)
      PROVE  a.part[p] = b.part[p]
  <2>1. PartAt(held, p, r1, c1) = PartAt(held, p, r2, c2)
    BY <1>3, PartsAgree DEF MayDiffer
  <2>2. QED
    BY <1>1, <1>2, <2>1 DEF Outcome
<1>5. QED
  BY <1>1, <1>2, <1>4 DEF Outcome

\* A snapshot of any version restores one machine, whatever the plug-in did
\* before (eps16_probe_machine_load_state).
THEOREM SnapshotRepeatable == SnapshotSpec => []RestoreIsRepeatable
<1>1. QED
  BY SnapshotInvInit, SnapshotInvStep, SnapshotInvRepeats, PTL DEF SnapshotSpec
-------------------------------------------------------------------------------
(* The gate of the main output of a restored machine stays shut while a    *)
(* voice of the snapshot sounds, for any number of voices, ranges, buses   *)
(* and register writes.                                                    *)

\* The gate knows of every restored voice that still sounds.
GateInv ==
    /\ gate \in [voices : SUBSET Voices, quiet : Nat, shut : BOOLEAN]
    /\ restored \subseteq gate.voices
    /\ restored # {} => gate.shut /\ Main \notin heard

LEMMA OpenGateIsGate ==
    OpenGate \in [voices : SUBSET Voices, quiet : Nat, shut : BOOLEAN]
  BY DEF OpenGate

LEMMA GateInvInit == VoicesInit => GateInv
  BY OpenGateIsGate DEF VoicesInit, GateInv, OpenGate

\* A register write opens the gate only where it forgets the restored voices.
LEMMA WriteKeeps ==
    ASSUME GateInv, NEW v \in Voices, WriteVoiceControl(v)
    PROVE  GateInv'
<1>1. PICK stop \in BOOLEAN, irqEnable \in BOOLEAN, reverse \in BOOLEAN, loop \in Loops,
           bus \in Buses :
        LET new == [voice[v] EXCEPT !.stop = stop, !.irqEnable = irqEnable, !.irq = FALSE,
                        !.reverse = reverse, !.loop = loop, !.bus = bus]
            keyOn == ~Running(v) /\ ~stop /\ new.start < new.end
        IN /\ gate' = IF keyOn THEN OpenGate ELSE gate
           /\ restored' = IF keyOn THEN {} ELSE IF stop THEN restored \ {v} ELSE restored
           /\ heard' = heard
  BY DEF WriteVoiceControl
<1>2. \/ gate' = OpenGate /\ restored' = {}
      \/ gate' = gate /\ restored' \subseteq restored
  BY <1>1
<1>3. QED
  BY <1>1, <1>2, OpenGateIsGate DEF GateInv, OpenGate

\* A frame passes nothing to the main output while a voice of the gate is left.
LEMMA RenderKeeps ==
    ASSUME GateInv, Render
    PROVE  GateInv'
<1> DEFINE left == {v \in gate.voices : ~voice'[v].stop}
<1>1. PICK loud \in BOOLEAN : gate' = Passing(loud)
  BY DEF Render
<1> DEFINE quiet == IF left = {} /\ ~loud THEN gate.quiet + 1 ELSE 0
<1>2. quiet \in Nat /\ (left # {} => quiet = 0) /\ QuietFrames \in Nat \ {0}
  BY VoicesAssumption DEF GateInv
<1>3. /\ restored' \subseteq left
      /\ restored' \subseteq restored
      /\ gate'.shut => Main \notin heard'
  BY DEF Render, Ungated, GateInv
<1> HIDE DEF left
<1>4. left \subseteq Voices
  BY DEF left, GateInv
<1>5. gate' = IF ~gate.shut THEN [gate EXCEPT !.voices = left]
              ELSE IF quiet >= QuietFrames
                   THEN [voices |-> left, quiet |-> quiet, shut |-> FALSE]
                   ELSE [voices |-> left, quiet |-> quiet, shut |-> TRUE]
  BY <1>1, Zenon DEF Passing, left
<1> HIDE DEF quiet
<1>6. CASE ~gate.shut
  BY <1>3, <1>4, <1>5, <1>6 DEF GateInv
<1>7. CASE gate.shut /\ quiet >= QuietFrames
  BY <1>2, <1>3, <1>4, <1>5, <1>7 DEF GateInv
<1>8. CASE gate.shut /\ ~(quiet >= QuietFrames)
  BY <1>2, <1>3, <1>4, <1>5, <1>8 DEF GateInv
<1>9. QED
  BY <1>6, <1>7, <1>8 DEF GateInv

LEMMA GateInvStep == GateInv /\ [VoicesNext]_voicesVars => GateInv'
<1> SUFFICES ASSUME GateInv, [VoicesNext]_voicesVars
             PROVE  GateInv'
  OBVIOUS
<1>1. ASSUME NEW v \in Voices, WriteVoiceControl(v)
      PROVE  GateInv'
  BY <1>1, WriteKeeps
<1>2. ASSUME NEW v \in Voices, WriteRange(v)
      PROVE  GateInv'
  BY <1>2 DEF WriteRange, GateInv
<1>3. CASE WriteActive
  BY <1>3 DEF WriteActive, GateInv
<1>4. CASE ReadVector
  BY <1>4 DEF ReadVector, GateInv
<1>5. CASE Render
  BY <1>5, RenderKeeps
<1>6. CASE RestoreVoices
  BY <1>6 DEF RestoreVoices, GateInv
<1>7. CASE UNCHANGED voicesVars
  BY <1>7 DEF voicesVars, GateInv
<1>8. QED
  BY <1>1, <1>2, <1>3, <1>4, <1>5, <1>6, <1>7 DEF VoicesNext, WriteRegister

\* The main output carries no note of a restored snapshot before the OS keys a
\* new one or all of them have ended (plugin_render_audio,
\* eps16_probe_machine_load_state).
THEOREM RestoredAreSilent == VoicesSpec => []RestoredNotesSilent
<1>1. GateInv => RestoredNotesSilent
  BY DEF GateInv, RestoredNotesSilent
<1>2. QED
  BY <1>1, GateInvInit, GateInvStep, PTL DEF VoicesSpec
-------------------------------------------------------------------------------
(* A looping voice stays inside its range.                                 *)

LEMMA ModularType ==
    ASSUME NEW n \in Int
    PROVE  Modular(n) \in Position
  BY VoicesAssumption DEF Modular, Position

LEMMA ModularSame ==
    ASSUME NEW n \in Position
    PROVE  Modular(n) = n
<1>1. Top \in Nat /\ n \in Nat /\ n < Top + 1
  BY VoicesAssumption DEF Position
<1>2. n + Top + 1 = 1 * (Top + 1) + n
  BY <1>1
<1>3. (n + Top + 1) % (Top + 1) = n
  BY <1>1, <1>2
<1>4. QED
  BY <1>3 DEF Modular

LEMMA VoiceNumbers ==
    ASSUME NEW x \in VoiceState
    PROVE  /\ x.frequency \in Nat /\ x.start \in Position /\ x.end \in Position
           /\ x.accumulator \in Position /\ Position \subseteq Nat
           /\ x.reverse \in BOOLEAN /\ x.loop \in Loops
<1>1. /\ x.frequency \in Frequencies \cup {0} /\ x.start \in Position /\ x.end \in Position
      /\ x.accumulator \in Position /\ x.reverse \in BOOLEAN /\ x.loop \in Loops
  BY DEF VoiceState
<1>2. Frequencies \cup {0} \subseteq Nat /\ Position \subseteq Nat
  BY VoicesAssumption DEF Position
<1>3. x.frequency \in Nat
  BY <1>1, <1>2, Zenon
<1>4. QED
  BY <1>1, <1>2, <1>3, Zenon

LEMMA MovedType ==
    ASSUME NEW x \in VoiceState, NEW a \in Position
    PROVE  /\ [x EXCEPT !.accumulator = a] \in VoiceState
           /\ [x EXCEPT !.accumulator = a].accumulator = a
           /\ [x EXCEPT !.accumulator = a].start = x.start
           /\ [x EXCEPT !.accumulator = a].end = x.end
           /\ [x EXCEPT !.accumulator = a].reverse = x.reverse
           /\ [x EXCEPT !.accumulator = a].loop = x.loop
  BY DEF VoiceState

LEMMA FlaggedType ==
    ASSUME NEW x \in VoiceState, NEW i \in BOOLEAN
    PROVE  /\ [x EXCEPT !.irq = i] \in VoiceState
           /\ [x EXCEPT !.irq = i].accumulator = x.accumulator
           /\ [x EXCEPT !.irq = i].start = x.start
           /\ [x EXCEPT !.irq = i].end = x.end
           /\ [x EXCEPT !.irq = i].reverse = x.reverse
           /\ [x EXCEPT !.irq = i].loop = x.loop
           /\ [x EXCEPT !.irq = i].frequency = x.frequency
  BY DEF VoiceState

LEMMA TurnedType ==
    ASSUME NEW x \in VoiceState, NEW r \in BOOLEAN, NEW a \in Position
    PROVE  /\ [x EXCEPT !.reverse = r, !.accumulator = a] \in VoiceState
           /\ [x EXCEPT !.reverse = r, !.accumulator = a].accumulator = a
           /\ [x EXCEPT !.reverse = r, !.accumulator = a].start = x.start
           /\ [x EXCEPT !.reverse = r, !.accumulator = a].end = x.end
  BY DEF VoiceState

LEMMA StoppedType ==
    ASSUME NEW x \in VoiceState
    PROVE  [x EXCEPT !.stop = TRUE] \in VoiceState
  BY DEF VoiceState

\* A step of the accumulator, and where it comes to without a wrap.
Target(x) == IF x.reverse THEN x.accumulator - x.frequency
             ELSE x.accumulator + x.frequency

LEMMA SteppedType ==
    ASSUME NEW x \in VoiceState
    PROVE  /\ Stepped(x) \in VoiceState
           /\ Stepped(x).accumulator = Modular(Target(x))
           /\ Stepped(x).start = x.start /\ Stepped(x).end = x.end
           /\ Stepped(x).reverse = x.reverse /\ Stepped(x).loop = x.loop
<1>1. Target(x) \in Int
  BY VoiceNumbers DEF Target
<1> DEFINE a == Modular(Target(x))
<1>2. a \in Position
  BY <1>1, ModularType
<1>3. Stepped(x) = [x EXCEPT !.accumulator = a]
  BY DEF Stepped, Target
<1> HIDE DEF a
<1>4. /\ Stepped(x) \in VoiceState
      /\ Stepped(x).accumulator = a
      /\ Stepped(x).start = x.start /\ Stepped(x).end = x.end
      /\ Stepped(x).reverse = x.reverse /\ Stepped(x).loop = x.loop
  BY <1>2, <1>3, MovedType
<1>5. QED
  BY <1>4 DEF a

\* Where a voice past an end goes on.
Folded(x) == IF x.reverse THEN x.end - (x.start - x.accumulator)
             ELSE x.start + x.accumulator - x.end
Mirrored(x) == IF x.reverse THEN x.start + (x.start - x.accumulator)
               ELSE x.end - (x.accumulator - x.end)

LEMMA EndTargets ==
    ASSUME NEW x \in VoiceState
    PROVE  Folded(x) \in Int /\ Mirrored(x) \in Int
  BY VoiceNumbers DEF Folded, Mirrored

LEMMA AtEndType ==
    ASSUME NEW x \in VoiceState
    PROVE  /\ AtEnd(x) \in VoiceState
           /\ x.loop = "loop" => /\ AtEnd(x).accumulator = Modular(Folded(x))
                                 /\ AtEnd(x).start = x.start /\ AtEnd(x).end = x.end
           /\ x.loop = "bidirectional" =>
                                 /\ AtEnd(x).accumulator = Modular(Mirrored(x))
                                 /\ AtEnd(x).start = x.start /\ AtEnd(x).end = x.end
<1>1. CASE x.loop = "loop"
  <2> DEFINE a == Modular(Folded(x))
  <2>1. a \in Position
    BY EndTargets, ModularType
  <2>2. AtEnd(x) = [x EXCEPT !.accumulator = a]
    BY <1>1 DEF AtEnd, Folded
  <2> HIDE DEF a
  <2>3. /\ AtEnd(x) \in VoiceState /\ AtEnd(x).accumulator = a
        /\ AtEnd(x).start = x.start /\ AtEnd(x).end = x.end
    BY <2>1, <2>2, MovedType
  <2>4. QED
    BY <1>1, <2>3 DEF a
<1>2. CASE x.loop = "bidirectional"
  <2> DEFINE a == Modular(Mirrored(x))
             r == ~x.reverse
  <2>1. a \in Position /\ r \in BOOLEAN
    BY EndTargets, ModularType
  <2>2. AtEnd(x) = [x EXCEPT !.reverse = r, !.accumulator = a]
    BY <1>2 DEF AtEnd, Mirrored
  <2> HIDE DEF a, r
  <2> DEFINE turned == [x EXCEPT !.reverse = r, !.accumulator = a]
  <2>3. /\ turned \in VoiceState /\ turned.accumulator = a
        /\ turned.start = x.start /\ turned.end = x.end
    BY <2>1 DEF VoiceState
  <2>4. "bidirectional" # "loop"
    OBVIOUS
  <2>5. QED
    BY <1>2, <2>2, <2>3, <2>4, Zenon DEF a
<1>3. CASE x.loop = "once"
  <2>1. AtEnd(x) = [x EXCEPT !.stop = TRUE]
    BY <1>3 DEF AtEnd
  <2>2. QED
    BY <1>3, <2>1, StoppedType
<1>4. QED
  BY <1>1, <1>2, <1>3, VoiceNumbers DEF Loops

LEMMA AnnouncedType ==
    ASSUME NEW x \in VoiceState
    PROVE  /\ Announced(x) \in VoiceState
           /\ Announced(x).accumulator = x.accumulator
           /\ Announced(x).start = x.start /\ Announced(x).end = x.end
           /\ Announced(x).reverse = x.reverse /\ Announced(x).loop = x.loop
<1> DEFINE i == x.irq \/ x.irqEnable
<1>1. i \in BOOLEAN
  OBVIOUS
<1>2. Announced(x) = [x EXCEPT !.irq = i]
  BY DEF Announced
<1> HIDE DEF i
<1>3. QED
  BY <1>1, <1>2, FlaggedType

LEMMA RenderedType ==
    ASSUME NEW x \in VoiceState
    PROVE  RenderedVoice(x) \in VoiceState
<1> DEFINE y == Stepped(x)
<1>1. y \in VoiceState
  BY SteppedType
<1> HIDE DEF y
<1> DEFINE z == Announced(y)
<1>2. z \in VoiceState
  BY <1>1, AnnouncedType
<1> HIDE DEF z
<1>3. AtEnd(z) \in VoiceState
  BY <1>2, AtEndType
<1>4. QED
  BY <1>1, <1>3 DEF RenderedVoice, y, z

\* Every step keeps a looping voice inside a range with room to turn.
LEMMA RenderedInside ==
    ASSUME NEW x \in VoiceState, x.loop # "once", RoomToTurn(x), Inside(x)
    PROVE  Inside(RenderedVoice(x))
<1> DEFINE y == Stepped(x)
           z == Announced(y)
           t == Target(x)
<1>1. /\ x.frequency \in Nat /\ x.start \in Nat /\ x.end \in Nat /\ x.accumulator \in Nat
      /\ x.start <= Top /\ x.end <= Top /\ x.accumulator <= Top /\ Top \in Nat
      /\ x.reverse \in BOOLEAN /\ x.loop \in {"loop", "bidirectional"}
  BY VoiceNumbers, VoicesAssumption DEF Position, Loops
<1>2. /\ x.frequency <= x.end - x.start
      /\ x.end + x.frequency <= Top
      /\ x.frequency <= x.start
      /\ x.start <= x.accumulator /\ x.accumulator <= x.end
  BY DEF RoomToTurn, Inside
<1>3. t \in Position
  BY <1>1, <1>2 DEF Target, Position
<1>4. /\ y \in VoiceState /\ y.accumulator = t
      /\ y.start = x.start /\ y.end = x.end
      /\ y.reverse = x.reverse /\ y.loop = x.loop
  BY <1>3, SteppedType, ModularSame
<1>5. t = IF x.reverse THEN x.accumulator - x.frequency ELSE x.accumulator + x.frequency
  BY DEF Target
<1> HIDE DEF y, t
<1>6. /\ z \in VoiceState /\ z.accumulator = t
      /\ z.start = x.start /\ z.end = x.end
      /\ z.reverse = x.reverse /\ z.loop = x.loop
  BY <1>4, AnnouncedType
<1> HIDE DEF z
<1>7. CASE ~Passed(y)
  <2>1. x.start <= t /\ t <= x.end
    BY <1>1, <1>2, <1>4, <1>5, <1>7 DEF Passed
  <2>2. RenderedVoice(x) = y
    BY <1>7 DEF RenderedVoice, y
  <2>3. QED
    BY <1>4, <2>1, <2>2 DEF Inside
<1>8. CASE Passed(y)
  <2>1. RenderedVoice(x) = AtEnd(z)
    BY <1>8 DEF RenderedVoice, y, z
  <2>2. IF x.reverse THEN t < x.start ELSE t > x.end
    BY <1>4, <1>8 DEF Passed
  <2>3. CASE x.loop = "loop"
    <3>1. x.start <= Folded(z) /\ Folded(z) <= x.end /\ Folded(z) \in Position
      BY <1>1, <1>2, <1>3, <1>5, <1>6, <2>2 DEF Folded, Position
    <3>2. AtEnd(z).accumulator = Folded(z) /\ AtEnd(z).start = x.start /\ AtEnd(z).end = x.end
      BY <1>6, <2>3, <3>1, AtEndType, ModularSame
    <3>3. QED
      BY <2>1, <3>1, <3>2 DEF Inside
  <2>4. CASE x.loop = "bidirectional"
    <3>1. x.start <= Mirrored(z) /\ Mirrored(z) <= x.end /\ Mirrored(z) \in Position
      BY <1>1, <1>2, <1>3, <1>5, <1>6, <2>2 DEF Mirrored, Position
    <3>2. AtEnd(z).accumulator = Mirrored(z) /\ AtEnd(z).start = x.start /\ AtEnd(z).end = x.end
      BY <1>6, <2>4, <3>1, AtEndType, ModularSame
    <3>3. QED
      BY <2>1, <3>1, <3>2 DEF Inside
  <2>5. QED
    BY <1>1, <2>3, <2>4
<1>9. QED
  BY <1>7, <1>8

\* The registers of every voice stay in their ranges.
VoicesHeld == voice \in [Voices -> VoiceState]

LEMMA HeldInit == VoicesInit => VoicesHeld
<1>1. 0 \in Frequencies \cup {0} /\ 0 \in Position
  BY VoicesAssumption DEF Position
<1>2. Silent \in VoiceState
  BY <1>1, VoicesAssumption, Zenon DEF Silent, VoiceState, Loops
<1>3. QED
  BY <1>2 DEF VoicesInit, VoicesHeld

LEMMA RenderedHeld ==
    ASSUME VoicesHeld
    PROVE  Rendered \in [Voices -> VoiceState]
<1>1. ASSUME NEW v \in Voices
      PROVE  (IF v <= active /\ Running(v) THEN RenderedVoice(voice[v]) ELSE voice[v])
                 \in VoiceState
  BY RenderedType DEF VoicesHeld
<1>2. QED
  BY <1>1 DEF Rendered

\* The interrupt a voice hands over to the vector changes nothing but its flag.
LEMMA RenderHeld ==
    ASSUME VoicesHeld, Render
    PROVE  /\ VoicesHeld'
           /\ \A v \in Voices : \/ voice'[v] = Rendered[v]
                                \/ voice'[v] = [Rendered[v] EXCEPT !.irq = FALSE]
<1>1. Rendered \in [Voices -> VoiceState]
  BY RenderedHeld
<1>2. \/ voice' = Rendered
      \/ \E w : voice' = [Rendered EXCEPT ![w].irq = FALSE]
  BY Zenon DEF Render
<1> HIDE DEF Rendered
<1>3. CASE voice' = Rendered
  BY <1>1, <1>3 DEF VoicesHeld
<1>4. ASSUME NEW w, voice' = [Rendered EXCEPT ![w].irq = FALSE]
      PROVE  /\ VoicesHeld'
             /\ \A v \in Voices : \/ voice'[v] = Rendered[v]
                                  \/ voice'[v] = [Rendered[v] EXCEPT !.irq = FALSE]
  <2>1. voice' = [v \in Voices |-> IF v = w THEN [Rendered[v] EXCEPT !.irq = FALSE]
                                   ELSE Rendered[v]]
    BY <1>1, <1>4
  <2>2. \A v \in Voices : voice'[v] = IF v = w THEN [Rendered[v] EXCEPT !.irq = FALSE]
                                      ELSE Rendered[v]
    BY <2>1
  <2>3. ASSUME NEW v \in Voices
        PROVE  [Rendered[v] EXCEPT !.irq = FALSE] \in VoiceState /\ Rendered[v] \in VoiceState
    BY <1>1, FlaggedType
  <2>4. VoicesHeld'
    BY <2>1, <2>3 DEF VoicesHeld
  <2>5. QED
    BY <2>2, <2>4
<1>5. QED
  BY <1>2, <1>3, <1>4

LEMMA ControlHeld ==
    ASSUME VoicesHeld, NEW v \in Voices, WriteVoiceControl(v)
    PROVE  VoicesHeld'
<1>1. PICK stop \in BOOLEAN, irqEnable \in BOOLEAN, reverse \in BOOLEAN, loop \in Loops,
           bus \in Buses :
        LET new == [voice[v] EXCEPT !.stop = stop, !.irqEnable = irqEnable, !.irq = FALSE,
                        !.reverse = reverse, !.loop = loop, !.bus = bus]
            keyOn == ~Running(v) /\ ~stop /\ new.start < new.end
        IN /\ voice' = [voice EXCEPT ![v] = new]
           /\ gate' = IF keyOn THEN OpenGate ELSE gate
           /\ restored' = IF keyOn THEN {} ELSE IF stop THEN restored \ {v} ELSE restored
           /\ UNCHANGED <<active, vector, heard>>
  BY DEF WriteVoiceControl
<1> DEFINE new == [voice[v] EXCEPT !.stop = stop, !.irqEnable = irqEnable, !.irq = FALSE,
                        !.reverse = reverse, !.loop = loop, !.bus = bus]
<1>2. voice[v] \in VoiceState
  BY DEF VoicesHeld
<1>3. new \in VoiceState
  BY <1>2 DEF VoiceState
<1>4. voice' = [voice EXCEPT ![v] = new]
  BY <1>1
<1> HIDE DEF new
<1>5. QED
  BY <1>3, <1>4 DEF VoicesHeld

LEMMA RangeHeld ==
    ASSUME VoicesHeld, NEW v \in Voices, WriteRange(v)
    PROVE  VoicesHeld'
<1>1. PICK range \in Ranges, f \in Frequencies, atEnd \in BOOLEAN :
        voice' = [voice EXCEPT ![v] =
                     [voice[v] EXCEPT !.start = range[1], !.end = range[2], !.frequency = f,
                         !.accumulator = IF atEnd THEN range[2] ELSE range[1]]]
  BY Zenon DEF WriteRange
<1> DEFINE a == IF atEnd THEN range[2] ELSE range[1]
           new == [voice[v] EXCEPT !.start = range[1], !.end = range[2],
                        !.frequency = f, !.accumulator = a]
<1>2. voice[v] \in VoiceState
  BY DEF VoicesHeld
<1>3. range[1] \in Position /\ range[2] \in Position /\ a \in Position
  BY VoicesAssumption DEF Position
<1>4. f \in Frequencies \cup {0}
  OBVIOUS
<1> HIDE DEF a
<1>5. new \in VoiceState
  BY <1>2, <1>3, <1>4 DEF VoiceState
<1>6. voice' = [voice EXCEPT ![v] = new]
  BY <1>1 DEF a
<1> HIDE DEF new
<1>7. QED
  BY <1>5, <1>6 DEF VoicesHeld

LEMMA HeldStep == VoicesHeld /\ [VoicesNext]_voicesVars => VoicesHeld'
<1> SUFFICES ASSUME VoicesHeld, [VoicesNext]_voicesVars
             PROVE  VoicesHeld'
  OBVIOUS
<1>1. ASSUME NEW v \in Voices, WriteVoiceControl(v)
      PROVE  VoicesHeld'
  BY <1>1, ControlHeld
<1>2. ASSUME NEW v \in Voices, WriteRange(v)
      PROVE  VoicesHeld'
  BY <1>2, RangeHeld
<1>3. CASE WriteActive
  BY <1>3 DEF WriteActive, VoicesHeld
<1>4. CASE ReadVector
  BY <1>4 DEF ReadVector, VoicesHeld
<1>5. CASE Render
  BY <1>5, RenderHeld
<1>6. CASE RestoreVoices
  BY <1>6 DEF RestoreVoices, VoicesHeld
<1>7. CASE UNCHANGED voicesVars
  BY <1>7 DEF voicesVars, VoicesHeld
<1>8. QED
  BY <1>1, <1>2, <1>3, <1>4, <1>5, <1>6, <1>7 DEF VoicesNext, WriteRegister

LEMMA RenderStays ==
    ASSUME VoicesHeld, Render, NEW v \in Voices,
           voice[v].loop # "once", RoomToTurn(voice[v]), Inside(voice[v])
    PROVE  Inside(voice'[v])
<1>1. voice[v] \in VoiceState
  BY DEF VoicesHeld
<1>2. Inside(Rendered[v]) /\ Rendered[v] \in VoiceState
  <2>1. Rendered[v] = IF v <= active /\ Running(v) THEN RenderedVoice(voice[v]) ELSE voice[v]
    BY DEF Rendered
  <2>2. QED
    BY <1>1, <2>1, RenderedInside, RenderedType
<1> HIDE DEF Rendered
<1>3. voice'[v] = Rendered[v] \/ voice'[v] = [Rendered[v] EXCEPT !.irq = FALSE]
  BY RenderHeld
<1> DEFINE r == Rendered[v]
           f == [r EXCEPT !.irq = FALSE]
<1>4. f.accumulator = r.accumulator /\ f.start = r.start /\ f.end = r.end
  BY <1>2, FlaggedType, Zenon
<1>5. voice'[v] = r \/ voice'[v] = f
  BY <1>3, Zenon
<1>6. Inside(r)
  BY <1>2, Zenon
<1> HIDE DEF r, f
<1>7. QED
  BY <1>4, <1>5, <1>6, Zenon DEF Inside

\* A frame keeps a looping voice inside its range, for any size of the sample
\* memory, pitches and ranges (handle_end()).
THEOREM LoopsKeepTheirRange == VoicesSpec => StaysInLoop
<1>1. VoicesHeld /\ [VoicesNext]_voicesVars =>
        [Render => \A v \in Voices :
          (voice[v].loop # "once" /\ RoomToTurn(voice[v]) /\ Inside(voice[v])) => Inside(voice'[v])]_voicesVars
  BY RenderStays
<1>2. QED
  BY <1>1, HeldInit, HeldStep, PTL DEF VoicesSpec, StaysInLoop
-------------------------------------------------------------------------------
(* The hold of the effects processor outlasts every transfer whose writes  *)
(* come within it, for any program, hold and distance of frames.           *)

\* While a program is partly there and nothing excuses it, its transfer is on,
\* the processor stands still, and the hold is what is left since the last
\* access.
HoldInv ==
    /\ hold \in Nat /\ waited \in Nat
    /\ upload \in BOOLEAN /\ halted \in BOOLEAN /\ excused \in BOOLEAN
    /\ instructions # Slots /\ ~excused =>
           upload /\ halted /\ ran # "part" /\ hold + waited = Hold /\ hold > 0
    /\ instructions = Slots => ran # "part"

LEMMA HoldInvInit == EffectsHostInit => HoldInv
<1> SUFFICES ASSUME EffectsHostInit
             PROVE  HoldInv
  OBVIOUS
<1>1. hold \in Nat /\ waited \in Nat
  BY SMT DEF EffectsHostInit
<1>2. upload \in BOOLEAN /\ halted \in BOOLEAN /\ excused \in BOOLEAN
  BY Zenon DEF EffectsHostInit
<1>3. instructions = Slots /\ ran = "none"
  BY Zenon DEF EffectsHostInit
<1>4. "none" # "part"
  OBVIOUS
<1>5. QED
  BY <1>1, <1>2, <1>3, <1>4, Zenon DEF HoldInv

LEMMA HoldInvStep ==
    HoldInv /\ [EffectsHostNext]_effectsHostVars => HoldInv'
<1> SUFFICES ASSUME HoldInv, [EffectsHostNext]_effectsHostVars
             PROVE  HoldInv'
  OBVIOUS
<1> USE EffectsHostAssumption DEF HoldInv
<1>1. CASE BeginTransfer
  BY <1>1 DEF BeginTransfer, Held
<1>2. ASSUME NEW slot \in Slots, WriteInstruction(slot)
      PROVE  HoldInv'
  <2>1. hold' = Hold /\ waited' = 0 /\ upload' = TRUE /\ halted' = TRUE
    BY <1>2, Zenon DEF WriteInstruction, Held
  <2>2. ran' = "none"
    BY <1>2, Zenon DEF WriteInstruction
  <2>3. excused' \in BOOLEAN
    BY <1>2, Zenon DEF WriteInstruction
  <2>4. hold' \in Nat /\ waited' \in Nat /\ hold' + waited' = Hold /\ hold' > 0
    BY <2>1, SMT
  <2>5. "none" # "part"
    OBVIOUS
  <2>6. QED
    BY <2>1, <2>2, <2>3, <2>4, <2>5, Zenon
<1>3. CASE ReadLatch
  BY <1>3 DEF ReadLatch, Held
<1>4. CASE EndTransfer
  BY <1>4 DEF EndTransfer
<1>5. ASSUME NEW t \in 1 .. MaxWait, Frame(t)
      PROVE  HoldInv'
  BY <1>5 DEF Frame, Released
<1>6. CASE UNCHANGED effectsHostVars
  BY <1>6 DEF effectsHostVars
<1>7. QED
  BY <1>1, <1>2, <1>3, <1>4, <1>5, <1>6 DEF EffectsHostNext
-------------------------------------------------------------------------------
(* The flags of the effects processor mean what a skipped instruction      *)
(* takes them for, for every even number of values of a register.          *)

LEMMA SizeIsEven == Size = 2 * Half /\ Half \in Nat \ {0} /\ Size \in Nat \ {0}
<1>1. PICK n \in 1 .. Size : Size = 2 * n
  BY EffectsAluAssumption
<1>2. n \in Nat \ {0} /\ Size \in Nat
  BY <1>1, EffectsAluAssumption
<1>3. Half = n
  BY <1>1, <1>2 DEF Half
<1>4. QED
  BY <1>1, <1>2, <1>3

LEMMA Wraps ==
    ASSUME NEW s \in Nat, s < 2 * Size
    PROVE  s % Size = IF s < Size THEN s ELSE s - Size
<1>0. Size \in Nat \ {0}
  BY SizeIsEven
<1>1. CASE s < Size
  BY <1>0, <1>1
<1>2. CASE ~(s < Size)
  <2>1. s = 1 * Size + (s - Size) /\ s - Size \in 0 .. Size - 1
    BY <1>0, <1>2
  <2>2. QED
    BY <1>0, <1>2, <2>1
<1>3. QED
  BY <1>1, <1>2

LEMMA NegatedIs ==
    ASSUME NEW b \in Word
    PROVE  /\ Negated(b) \in Word
           /\ Negated(b) = IF b = 0 THEN 0 ELSE Size - b
<1>1. b \in Nat /\ b < Size /\ Size \in Nat \ {0}
  BY SizeIsEven DEF Word
<1>2. Size - b \in Nat /\ Size - b < 2 * Size
  BY <1>1
<1>3. (Size - b) % Size = IF Size - b < Size THEN Size - b ELSE Size - b - Size
  BY <1>2, Wraps
<1>4. QED
  BY <1>1, <1>3 DEF Negated, Word

LEMMA SumType ==
    ASSUME NEW a \in Word, NEW b \in Word
    PROVE  /\ (a + b) % Size \in Word
           /\ (a + b) % Size = IF a + b < Size THEN a + b ELSE a + b - Size
<1>1. a \in Nat /\ b \in Nat /\ a < Size /\ b < Size /\ Size \in Nat \ {0}
  BY SizeIsEven DEF Word
<1>2. a + b \in Nat /\ a + b < 2 * Size
  BY <1>1
<1>3. (a + b) % Size = IF a + b < Size THEN a + b ELSE a + b - Size
  <2>1. \A s \in Nat : s < 2 * Size => s % Size = IF s < Size THEN s ELSE s - Size
    BY Wraps
  <2>2. QED
    BY <1>1, <1>2, <2>1
<1>4. QED
  BY <1>1, <1>3 DEF Word

\* The result and the flag of an addition.
LEMMA AddedLess ==
    ASSUME NEW f, NEW a \in Word, NEW b \in Word
    PROVE  /\ Added(f, a, b).result = (a + b) % Size
           /\ "LT" \in Added(f, a, b).flags
                <=> (Overflows(a, b) # Negative((a + b) % Size))
<1>1. "LT" # "C" /\ "LT" # "N" /\ "LT" # "Z" /\ "LT" # "V"
  OBVIOUS
<1>2. Added(f, a, b).flags =
        If(a + b >= Size, "C") \cup If(Negative((a + b) % Size), "N")
          \cup If((a + b) % Size = 0, "Z")
          \cup If(Overflows(a, b), "V")
          \cup If(Overflows(a, b) # Negative((a + b) % Size), "LT")
  BY DEF Added
<1>3. Added(f, a, b).result = (a + b) % Size
  BY DEF Added
<1> DEFINE c == a + b >= Size   n == Negative((a + b) % Size)
           z == (a + b) % Size = 0   o == Overflows(a, b)
           l == Overflows(a, b) # Negative((a + b) % Size)
<1>4. Added(f, a, b).flags = If(c, "C") \cup If(n, "N") \cup If(z, "Z") \cup If(o, "V") \cup If(l, "LT")
  BY <1>2
<1>6. l \in BOOLEAN
  OBVIOUS
<1> HIDE DEF c, n, z, o, l
<1>5. "LT" \in Added(f, a, b).flags <=> l
  BY <1>1, <1>4, <1>6, Zenon DEF If
<1>7. QED
  BY <1>3, <1>5 DEF l

\* What "less than" says after b was taken from a.
LEMMA DifferenceMeansIt ==
    ASSUME NEW f, NEW a \in Word, NEW b \in Word, b # Half
    PROVE  "LT" \in Added(f, a, Negated(b)).flags <=> Signed(a) < Signed(b)
<1> DEFINE m == Negated(b)
           r == (a + m) % Size
<1>1. m \in Word /\ m = IF b = 0 THEN 0 ELSE Size - b
  BY NegatedIs
<1> HIDE DEF m
<1>2. r = IF a + m < Size THEN a + m ELSE a + m - Size
  BY <1>1, SumType
<1>3. "LT" \in Added(f, a, m).flags <=> (Overflows(a, m) # Negative(r))
  BY <1>1, AddedLess
<1>4. Overflows(a, m) <=> Negative(a) = Negative(m) /\ Negative(a) # Negative(r)
  BY DEF Overflows
<1> HIDE DEF r
<1>5. /\ a \in Nat /\ b \in Nat /\ a < Size /\ b < Size
      /\ Half \in Nat \ {0} /\ Size = 2 * Half
  BY SizeIsEven DEF Word
<1>6. m \in Nat /\ m < Size /\ r \in Nat
  BY <1>1, <1>2, <1>5 DEF Word
<1>8. (Overflows(a, m) # Negative(r)) <=>
          IF (a >= Half) = (m >= Half) THEN a >= Half ELSE r >= Half
  <2> DEFINE na == a >= Half   nm == m >= Half   nr == r >= Half
  <2>1. na \in BOOLEAN /\ nm \in BOOLEAN /\ nr \in BOOLEAN
    OBVIOUS
  <2>2. Overflows(a, m) = (na = nm /\ na # nr)
    BY DEF Overflows, Negative, r
  <2>3. Negative(r) = nr
    BY DEF Negative
  <2> HIDE DEF na, nm, nr
  <2>4. ((na = nm /\ na # nr) # nr) <=> IF na = nm THEN na ELSE nr
    BY <2>1, Zenon
  <2>5. QED
    BY <2>2, <2>3, <2>4, Zenon DEF na, nm, nr
<1>9. Signed(a) < Signed(b) <=>
          (IF a >= Half THEN a - Size ELSE a) < (IF b >= Half THEN b - Size ELSE b)
  BY DEF Signed, Negative
<1>10. (IF (a >= Half) = (m >= Half) THEN a >= Half ELSE r >= Half) <=>
          (IF a >= Half THEN a - Size ELSE a) < (IF b >= Half THEN b - Size ELSE b)
  BY <1>1, <1>2, <1>5, <1>6
<1>7. QED
  BY <1>3, <1>8, <1>9, <1>10 DEF m

\* Saturation leaves "less than" alone.
LEMMA SaturatedIs ==
    ASSUME NEW sum, sum.result \in Word, NEW negative
    PROVE  /\ Saturated(sum, negative).result \in Word
           /\ "LT" \in Saturated(sum, negative).flags <=> "LT" \in sum.flags
<1>1. Half \in Word /\ Half - 1 \in Word
  BY SizeIsEven DEF Word
<1>2. "LT" # "N" /\ "LT" # "Z"
  OBVIOUS
<1>3. CASE "V" \notin sum.flags
  BY <1>3 DEF Saturated
<1>4. CASE "V" \in sum.flags
  <2> DEFINE sign == If(negative, "N")
             r == IF negative THEN Half ELSE Half - 1
  <2>1. "LT" \notin sign
    BY <1>2 DEF If
  <2>2. r \in Word
    BY <1>1, Zenon
  <2>3. Saturated(sum, negative) =
          [result |-> r, flags |-> Flags(sum.flags, {"N", "Z"}, sign)]
    BY <1>4, Zenon DEF Saturated
  <2> HIDE DEF sign, r
  <2>4. "LT" \in Flags(sum.flags, {"N", "Z"}, sign) <=> "LT" \in sum.flags
    BY <1>2, <2>1, Zenon DEF Flags
  <2>5. QED
    BY <2>2, <2>3, <2>4
<1>5. QED
  BY <1>3, <1>4

Operation == [op : Op, reg : Reg, a : Word, b : Word, writes : BOOLEAN, sets : BOOLEAN]

\* What an operation gives is a word again.
LEMMA ShiftedType ==
    ASSUME NEW f, NEW v \in Word
    PROVE  ShiftedLeft(f, v, 4).result \in Word
<1> DEFINE exact == Signed(v) * 4
           over == exact >= Half \/ exact < -Half
<1>1. /\ v \in Nat /\ v < Size /\ Half \in Nat \ {0} /\ Size = 2 * Half /\ Size \in Nat \ {0}
  BY SizeIsEven DEF Word
<1>2. exact \in Int
  BY <1>1 DEF Signed, Negative
<1>3. ShiftedLeft(f, v, 4).result =
          IF over THEN IF exact < 0 THEN Half ELSE Half - 1 ELSE exact % Size
  BY DEF ShiftedLeft
<1> HIDE DEF exact
<1>4. exact % Size \in 0 .. Size - 1
  BY <1>1, <1>2
<1>5. Half \in Word /\ Half - 1 \in Word
  BY <1>1 DEF Word
<1>6. QED
  BY <1>3, <1>4, <1>5 DEF Word

LEMMA HalvedType ==
    ASSUME NEW b \in Word
    PROVE  (b \div 2) + (IF Negative(b) THEN Half ELSE 0) \in Word
<1>1. /\ b \in Nat /\ b < Size /\ Half \in Nat \ {0} /\ Size = 2 * Half
  BY SizeIsEven DEF Word
<1>2. b \div 2 \in Nat /\ b \div 2 < Half
  BY <1>1
<1>3. QED
  BY <1>1, <1>2 DEF Word, Negative

LEMMA AddedWord ==
    ASSUME NEW f, NEW a \in Word, NEW b \in Word
    PROVE  Added(f, a, b).result \in Word
  BY AddedLess, SumType

LEMMA OutcomesType ==
    ASSUME NEW f, NEW op \in Op, NEW a \in Word, NEW b \in Word,
           NEW r \in Outcomes(f, op, a, b)
    PROVE  r.result \in Word
<1> DEFINE m == Negated(b)
<1>1. m \in Word
  BY NegatedIs
<1> HIDE DEF m
<1>2. /\ Added(f, a, b).result \in Word /\ Added(f, a, m).result \in Word
      /\ Saturated(Added(f, a, b), Negative(a)).result \in Word
      /\ Saturated(Added(f, a, m), Negative(a)).result \in Word
  BY <1>1, AddedWord, SaturatedIs
<1>3. CASE op = "add"
  BY <1>2, <1>3 DEF Outcomes
<1>4. CASE op = "sub"
  BY <1>2, <1>4 DEF Outcomes, m
<1>5. CASE op = "addWrap"
  BY <1>2, <1>5 DEF Outcomes
<1>6. CASE op = "subWrap"
  BY <1>2, <1>6 DEF Outcomes, m
<1>7. CASE op = "cmp"
  <2>1. r = [Added(f, a, m) EXCEPT !.result = a]
    BY <1>7 DEF Outcomes, m
  <2>2. r.result = a
    BY <2>1 DEF Added
  <2>3. QED
    BY <2>2
<1>8. CASE op = "logic"
  <2>1. PICK w \in Word : r = Logic(f, w)
    BY <1>8 DEF Outcomes
  <2>2. QED
    BY <2>1 DEF Logic
<1>9. CASE op = "abs"
  <2>1. r.result = IF Negative(b) THEN Size - 1 - b ELSE b
    BY <1>9 DEF Outcomes
  <2>2. Size - 1 - b \in Word
    BY SizeIsEven DEF Word
  <2>3. QED
    BY <2>1, <2>2
<1>10. CASE op = "mov"
  BY <1>10 DEF Outcomes
<1>11. CASE op = "shl"
  BY <1>11, ShiftedType DEF Outcomes
<1>12. CASE op = "neg"
  <2>1. Half - 1 \in Word
    BY SizeIsEven DEF Word
  <2>2. Added(f, Half - 1, m).result \in Word
    BY <1>1, <2>1, AddedWord
  <2>3. QED
    BY <1>12, <2>2 DEF Outcomes, m
<1>13. CASE op = "asr"
  <2>1. r.result = (b \div 2) + (IF Negative(b) THEN Half ELSE 0)
    BY <1>13 DEF Outcomes
  <2>2. QED
    BY <2>1, HalvedType
<1>14. QED
  BY <1>3, <1>4, <1>5, <1>6, <1>7, <1>8, <1>9, <1>10, <1>11, <1>12, <1>13 DEF Op

\* A comparison or a subtraction, saturated or not, sets "less than" as it is.
LEMMA OutcomeMeansIt ==
    ASSUME NEW f, NEW op \in {"cmp", "sub", "subWrap"}, NEW a \in Word, NEW b \in Word,
           b # Half, NEW r \in Outcomes(f, op, a, b)
    PROVE  "LT" \in r.flags <=> Signed(a) < Signed(b)
<1> DEFINE sum == Added(f, a, Negated(b))
<1>1. "LT" \in sum.flags <=> Signed(a) < Signed(b)
  BY DifferenceMeansIt
<1>2. sum.result \in Word
  BY NegatedIs, AddedWord
<1>3. CASE op = "cmp"
  <2>1. r = [sum EXCEPT !.result = a]
    BY <1>3 DEF Outcomes
  <2>2. r.flags = sum.flags
    BY <2>1 DEF Added
  <2>3. QED
    BY <1>1, <2>2
<1>4. CASE op = "subWrap"
  BY <1>1, <1>4 DEF Outcomes
<1>5. CASE op = "sub"
  <2>1. r = Saturated(sum, Negative(a))
    BY <1>5 DEF Outcomes
  <2> HIDE DEF sum
  <2>2. "LT" \in r.flags <=> "LT" \in sum.flags
    BY <1>2, <2>1, SaturatedIs
  <2>3. QED
    BY <1>1, <2>2
<1>6. QED
  BY <1>3, <1>4, <1>5

\* The operands in the pipeline are words, and the flags are those of the last
\* comparison.
AluInv ==
    /\ gpr \in [Reg -> Word]
    /\ alu \in Operation /\ last \in Operation
    /\ ComparisonMeansIt

LEMMA AluInvInit == EffectsAluInit => AluInv
<1> SUFFICES ASSUME EffectsAluInit
             PROVE  AluInv
  OBVIOUS
<1>1. 0 \in Word
  BY SizeIsEven DEF Word
<1>2. Nothing \in Operation
  BY <1>1, Zenon DEF Nothing, Operation, Op, Reg
<1>3. ~Nothing.writes
  BY DEF Nothing
<1>4. QED
  BY <1>2, <1>3, Zenon DEF EffectsAluInit, AluInv, ComparisonMeansIt

LEMMA InstructionKeeps ==
    ASSUME AluInv, NEW op \in Op, NEW a \in Reg, NEW b \in Reg,
           NEW skippable \in BOOLEAN, NEW mask, NEW not \in BOOLEAN,
           Instruction(op, a, b, skippable, mask, not)
    PROVE  AluInv'
<1> DEFINE skip == Skipped(skippable, mask, not)
<1>1. PICK r \in (IF alu.writes THEN Outcomes(ccr, alu.op, alu.a, alu.b)
                  ELSE {[result |-> 0, flags |-> ccr]}) :
             /\ gpr' = IF alu.writes /\ alu.op # "cmp"
                       THEN [gpr EXCEPT ![alu.reg] = r.result] ELSE gpr
             /\ ccr' = IF alu.writes /\ alu.sets THEN r.flags ELSE ccr
  BY Zenon DEF Instruction
<1>2. /\ alu' = [op |-> op, reg |-> a, a |-> gpr'[a], b |-> gpr'[b],
                  writes |-> ~skip \/ op = "cmp", sets |-> ~skippable \/ op = "cmp"]
      /\ last' = IF alu.writes THEN alu ELSE last
  BY Zenon DEF Instruction
<1> HIDE DEF skip
<1>3. /\ alu.op \in Op /\ alu.reg \in Reg /\ alu.a \in Word /\ alu.b \in Word
      /\ alu.writes \in BOOLEAN /\ alu.sets \in BOOLEAN
  BY DEF AluInv, Operation
<1>4. gpr' \in [Reg -> Word]
  <2>1. CASE alu.writes /\ alu.op # "cmp"
    <3>1. r.result \in Word
      BY <1>1, <1>3, <2>1, OutcomesType
    <3>2. gpr' = [gpr EXCEPT ![alu.reg] = r.result]
      BY <1>1, <2>1, Zenon
    <3>3. QED
      BY <1>3, <3>1, <3>2 DEF AluInv
  <2>2. CASE ~(alu.writes /\ alu.op # "cmp")
    BY <1>1, <2>2 DEF AluInv
  <2>3. QED
    BY <2>1, <2>2
<1>5. alu' \in Operation
  <2>1. gpr'[a] \in Word /\ gpr'[b] \in Word
    BY <1>4
  <2>2. (~skip \/ op = "cmp") \in BOOLEAN /\ (~skippable \/ op = "cmp") \in BOOLEAN
    BY Zenon
  <2>3. QED
    BY <1>2, <2>1, <2>2, Zenon DEF Operation
<1>6. last' \in Operation
  BY <1>2, Zenon DEF AluInv
<1>7. ComparisonMeansIt'
  <2>1. CASE alu.writes /\ alu.sets
    <3>1. last' = alu /\ ccr' = r.flags /\ r \in Outcomes(ccr, alu.op, alu.a, alu.b)
      BY <1>1, <1>2, <2>1, Zenon
    <3>2. ASSUME alu.op \in {"cmp", "sub", "subWrap"}, alu.b # Half
          PROVE  "LT" \in r.flags <=> Signed(alu.a) < Signed(alu.b)
      BY <1>3, <3>1, <3>2, OutcomeMeansIt
    <3>3. QED
      BY <3>1, <3>2, Zenon DEF ComparisonMeansIt
  <2>2. CASE alu.writes /\ ~alu.sets
    <3>1. ~last'.sets
      BY <1>2, <2>2, Zenon
    <3>2. QED
      BY <3>1, Zenon DEF ComparisonMeansIt
  <2>3. CASE ~alu.writes
    <3>1. last' = last /\ ccr' = ccr
      BY <1>1, <1>2, <2>3, Zenon
    <3>2. QED
      BY <3>1, Zenon DEF ComparisonMeansIt, AluInv
  <2>4. QED
    BY <2>1, <2>2, <2>3, Zenon
<1>8. QED
  BY <1>4, <1>5, <1>6, <1>7, Zenon DEF AluInv

LEMMA AluInvStep == AluInv /\ [EffectsAluNext]_effectsAluVars => AluInv'
<1> SUFFICES ASSUME AluInv, [EffectsAluNext]_effectsAluVars
             PROVE  AluInv'
  OBVIOUS
<1>1. CASE EffectsAluNext
  <2>1. PICK op \in Op, a \in Reg, skippable \in BOOLEAN, not \in BOOLEAN :
           Instruction(op, a, 1 - a, skippable, {"LT"}, not)
    BY <1>1, Zenon DEF EffectsAluNext
  <2>2. 1 - a \in Reg
    BY DEF Reg
  <2>3. QED
    BY <2>1, <2>2, InstructionKeeps
<1>2. CASE UNCHANGED effectsAluVars
  BY <1>2, Zenon DEF effectsAluVars, AluInv, ComparisonMeansIt
<1>3. QED
  BY <1>1, <1>2

\* A frame runs a half-written program only when the host paused for the whole
\* hold or ended its transfer early, and "less than" is the order of the signed
\* operands, for any program, hold and word size (es5510_write,
\* plugin_render_audio, alu_operation).
THEOREM EffectsRunAsWritten == EffectsHostSpec /\ EffectsAluSpec => []EffectRunsAsWritten
<1>1. HoldInv /\ AluInv => EffectRunsAsWritten
  BY DEF HoldInv, AluInv, EffectRunsAsWritten, NoHalfProgram
<1>2. QED
  BY <1>1, HoldInvInit, HoldInvStep, AluInvInit, AluInvStep, PTL
     DEF EffectsHostSpec, EffectsAluSpec
-------------------------------------------------------------------------------
(* Conversions of the sampling input are taken in time, with their taps.   *)

LEMMA Division ==
    ASSUME NEW x \in Int, NEW n \in Nat \ {0}
    PROVE  /\ x \div n \in Int
           /\ (x \div n) * n <= x /\ x < (x \div n) * n + n
  OBVIOUS

LEMMA DivisionAtLeast ==
    ASSUME NEW x \in Int, NEW k \in Int, NEW n \in Nat \ {0}, k * n <= x
    PROVE  k <= x \div n
<1> DEFINE q == x \div n
<1>1. q \in Int /\ x < q * n + n
  BY Division
<1> HIDE DEF q
<1>2. k * n < (q + 1) * n
  BY <1>1
<1>3. k < q + 1
  BY <1>1, <1>2
<1>4. QED
  BY <1>1, <1>3 DEF q

LEMMA DivisionBelow ==
    ASSUME NEW x \in Int, NEW k \in Int, NEW n \in Nat \ {0}, x < k * n
    PROVE  x \div n < k
<1> DEFINE q == x \div n
<1>1. q \in Int /\ q * n <= x
  BY Division
<1> HIDE DEF q
<1>2. q * n < k * n
  BY <1>1
<1>3. QED
  BY <1>1, <1>2 DEF q

\* Conversions are taken in order and never ahead of the machine; past the
\* warm-up a conversion within the samples that were there has its taps.
SamplingInv ==
    /\ now \in Nat /\ origin \in Nat /\ nextEdge \in Nat /\ pushed \in Nat
    /\ taken.edge \in Int
    /\ taken.edge < nextEdge \/ taken.edge = -1
    /\ pushed = 0 => origin = 0
    /\ pushed > 0 => now >= origin + pushed * DawPeriod - DawPeriod
    /\ taken.source = "none" \/
          /\ taken.before < taken.edge
          /\ taken.edge <= taken.polled /\ taken.polled < taken.edge + taken.period
    /\ taken.source = "newest" =>
          \/ taken.edge >= taken.covered
          \/ pushed > 0 /\ taken.edge < origin + (2 * HalfInputTaps - 1) * DawPeriod

LEMMA SamplingConstants ==
    /\ HalfInputTaps \in Nat \ {0} /\ DawPeriod \in Nat \ {0} /\ History \in Nat
    /\ Overrun \in Nat /\ Periods \subseteq Nat \ {0}
    /\ \A p \in Periods :
          History * DawPeriod >= 2 * HalfInputTaps * DawPeriod + Overrun + p
  BY SamplingInputAssumption

LEMMA SamplingInvInit == SamplingInputInit => SamplingInv
<1> SUFFICES ASSUME SamplingInputInit
             PROVE  SamplingInv
  OBVIOUS
<1>1. /\ now \in Nat /\ pushed = 0 /\ origin = 0 /\ nextEdge = 0
  BY SamplingConstants DEF SamplingInputInit
<1>2. taken.edge = -1 /\ taken.source = "none"
  BY DEF SamplingInputInit, NoConversion
<1>3. QED
  BY <1>1, <1>2 DEF SamplingInv

\* A conversion that is not much older than now, past the warm-up and within the
\* pushed samples, has its taps in the history.
LEMMA TapsAreKept ==
    ASSUME SamplingInv, pushed > 0, NEW period \in Periods, NEW edge \in Nat,
           now < edge + period,
           edge >= origin + (2 * HalfInputTaps - 1) * DawPeriod,
           edge < Covered
    PROVE  Reconstructs(edge)
<1> DEFINE q == (edge - origin) \div DawPeriod
           depth == 2 * HalfInputTaps
<1>0. /\ HalfInputTaps \in Nat \ {0} /\ DawPeriod \in Nat \ {0} /\ History \in Nat
      /\ period \in Nat \ {0} /\ origin \in Nat /\ pushed \in Nat /\ now \in Nat
      /\ Overrun \in Nat
      /\ History * DawPeriod >= depth * DawPeriod + Overrun + period
  BY SamplingConstants DEF SamplingInv
<1>1. depth \in Nat \ {0} /\ edge - origin \in Int /\ q \in Int /\ depth >= 2
  BY <1>0
<1> HIDE DEF depth
<1>2. (depth - 1) * DawPeriod <= edge - origin /\ edge - origin < pushed * DawPeriod
  BY <1>0, <1>1 DEF Covered, depth
<1>3. depth - 1 <= q /\ q < pushed
  BY <1>0, <1>1, <1>2, DivisionAtLeast, DivisionBelow
<1>4. depth < History
  BY <1>0, <1>1
<1>5. pushed - History + depth - 1 <= q
  <2>1. (pushed - History + depth - 1) * DawPeriod
          = pushed * DawPeriod - History * DawPeriod + depth * DawPeriod - DawPeriod
    BY <1>0, <1>1
  <2>2. now >= origin + pushed * DawPeriod - DawPeriod
    BY DEF SamplingInv
  <2>3. /\ pushed * DawPeriod \in Int /\ History * DawPeriod \in Int
        /\ depth * DawPeriod \in Int
    BY <1>0, <1>1
  <2>4. (pushed - History + depth - 1) * DawPeriod <= edge - origin
    BY <1>0, <2>1, <2>2, <2>3
  <2>5. pushed - History + depth - 1 \in Int
    BY <1>0, <1>1
  <2>6. QED
    BY <1>0, <1>1, <2>4, <2>5, DivisionAtLeast
<1>6. Centre(edge) = q - HalfInputTaps
  BY DEF Centre
<1> HIDE DEF q
<1>7. Kept >= depth /\ pushed - Kept <= q - depth + 1
  BY <1>0, <1>1, <1>3, <1>4, <1>5 DEF Kept
<1>8. edge >= origin
  <2>1. (depth - 1) * DawPeriod >= 0
    BY <1>0, <1>1
  <2>2. QED
    BY <1>0, <1>2, <2>1
<1>9. QED
  BY <1>0, <1>1, <1>3, <1>6, <1>7, <1>8 DEF Reconstructs, Kept, depth

\* A poll takes the newest edge that is complete.
LEMMA PollKeeps ==
    ASSUME SamplingInv, NEW period \in Periods, Poll(period)
    PROVE  SamplingInv'
<1> DEFINE next == IF nextEdge = 0 THEN now ELSE nextEdge
           count == (now - next) \div period
           edge == next + count * period
<1>1. /\ period \in Nat \ {0} /\ now \in Nat /\ nextEdge \in Nat /\ taken.edge \in Int
  BY SamplingConstants DEF SamplingInv
<1>2. /\ now > 0 /\ now >= next
      /\ nextEdge' = edge + period
      /\ taken' = [edge |-> edge, before |-> taken.edge, polled |-> now, period |-> period,
                   covered |-> Covered,
                   source |-> IF Reconstructs(edge) THEN "history" ELSE "newest"]
      /\ UNCHANGED <<now, pushed, origin>>
  BY Zenon DEF Poll
<1>3. next \in Nat /\ taken.edge < next
  BY <1>1, <1>2 DEF SamplingInv
<1> HIDE DEF next
<1>4. now - next \in Int /\ 0 * period <= now - next
  BY <1>1, <1>2, <1>3
<1>5. /\ count \in Int /\ count * period <= now - next /\ 0 <= count
      /\ now - next < count * period + period
  <2> DEFINE x == now - next
  <2>1. x \in Int /\ 0 * period <= x /\ period \in Nat \ {0} /\ 0 \in Int
    BY <1>1, <1>4
  <2> HIDE DEF x
  <2>2. 0 <= x \div period
    BY <2>1, DivisionAtLeast
  <2>3. /\ x \div period \in Int /\ (x \div period) * period <= x
        /\ x < (x \div period) * period + period
    BY <2>1, Division
  <2>4. QED
    BY <2>2, <2>3 DEF x
<1> HIDE DEF count
<1>6. count * period \in Nat
  BY <1>1, <1>5
<1>7. edge \in Nat /\ taken.edge < edge /\ edge <= now /\ now < edge + period
  BY <1>1, <1>3, <1>5, <1>6
<1> HIDE DEF edge
<1>8. /\ taken'.edge = edge /\ taken'.before = taken.edge /\ taken'.polled = now
      /\ taken'.period = period /\ taken'.covered = Covered
      /\ taken'.source = IF Reconstructs(edge) THEN "history" ELSE "newest"
  BY <1>2
<1>9. ~Reconstructs(edge) =>
          \/ edge >= Covered
          \/ pushed > 0 /\ edge < origin + (2 * HalfInputTaps - 1) * DawPeriod
  <2>1. origin \in Nat /\ pushed \in Nat /\ DawPeriod \in Nat
    BY SamplingConstants DEF SamplingInv
  <2>2. CASE pushed = 0
    <3>1. origin = 0 /\ pushed * DawPeriod = 0
      BY <2>1, <2>2 DEF SamplingInv
    <3>2. QED
      BY <1>7, <3>1 DEF Covered
  <2>3. CASE pushed > 0
    <3>1. Covered \in Nat /\ origin + (2 * HalfInputTaps - 1) * DawPeriod \in Int
      BY <2>1, SamplingConstants DEF Covered
    <3>2. QED
      BY <1>7, <2>3, <3>1, TapsAreKept
  <2>4. QED
    BY <2>1, <2>2, <2>3
<1>10. taken'.edge \in Int /\ taken'.edge < nextEdge' /\ nextEdge' \in Nat
  BY <1>1, <1>2, <1>7, <1>8
<1>11. /\ taken'.before < taken'.edge
       /\ taken'.edge <= taken'.polled /\ taken'.polled < taken'.edge + taken'.period
  BY <1>7, <1>8
<1>12. taken'.source = "newest" =>
          \/ taken'.edge >= taken'.covered
          \/ pushed' > 0 /\ taken'.edge < origin' + (2 * HalfInputTaps - 1) * DawPeriod
  BY <1>2, <1>8, <1>9
<1>13. QED
  BY <1>2, <1>10, <1>11, <1>12 DEF SamplingInv

LEMMA PushKeeps ==
    ASSUME SamplingInv, PushSample
    PROVE  SamplingInv'
<1>1. pushed \in Nat /\ now \in Nat /\ origin \in Nat /\ DawPeriod \in Nat \ {0}
  BY SamplingConstants DEF SamplingInv
<1>2. /\ pushed' = pushed + 1
      /\ pushed = 0 \/ now >= Covered
      /\ origin' = IF pushed = 0 THEN now ELSE origin
      /\ UNCHANGED <<now, nextEdge, taken>>
  BY DEF PushSample
<1>3. (pushed + 1) * DawPeriod = pushed * DawPeriod + DawPeriod
  BY <1>1
<1>4. now' >= origin' + pushed' * DawPeriod - DawPeriod
  BY <1>1, <1>2, <1>3 DEF Covered
<1>5. origin' \in Nat /\ pushed' \in Nat /\ pushed' > 0
  BY <1>1, <1>2
<1>6. pushed > 0 => origin' = origin
  BY <1>2
<1>7. QED
  BY <1>2, <1>4, <1>5, <1>6 DEF SamplingInv

LEMMA SamplingInvStep == SamplingInv /\ [SamplingInputNext]_samplingInputVars => SamplingInv'
<1> SUFFICES ASSUME SamplingInv, [SamplingInputNext]_samplingInputVars
             PROVE  SamplingInv'
  OBVIOUS
<1>1. CASE PushSample
  BY <1>1, PushKeeps
<1>2. CASE Run
  <2>1. now' = now + 1 /\ UNCHANGED <<pushed, origin, nextEdge, taken>>
    BY <1>2 DEF Run
  <2>2. now' \in Nat /\ (pushed > 0 => now' >= origin + pushed * DawPeriod - DawPeriod)
    BY <2>1, SamplingConstants DEF SamplingInv
  <2>3. QED
    BY <2>1, <2>2 DEF SamplingInv
<1>3. ASSUME NEW period \in Periods, Poll(period)
      PROVE  SamplingInv'
  BY <1>3, PollKeeps
<1>4. CASE UNCHANGED samplingInputVars
  BY <1>4 DEF samplingInputVars, SamplingInv
<1>5. QED
  BY <1>1, <1>2, <1>3, <1>4 DEF SamplingInputNext

\* Every poll takes the newest complete conversion, none twice, and past the
\* warm-up its taps are in the history, for any periods and any delay that the
\* history has room for (es5510_sampling_input()).
THEOREM ConversionsInTime == SamplingInputSpec => []ConversionIsTimely
<1>1. SamplingInv => ConversionIsTimely
  BY DEF SamplingInv, ConversionIsTimely, WarmUp
<1>2. QED
  BY <1>1, SamplingInvInit, SamplingInvStep, PTL DEF SamplingInputSpec

-------------------------------------------------------------------------------
(* The audio output: the frames lie one divider apart wherever the slices  *)
(* end, the resampler drops only the oldest of them, and the newest lies   *)
(* no further back than a divider and the service of the voice chip.       *)

\* Any two frames are as far apart as the frames between them allow.
Spread(frames) ==
    \A j, k \in 1 .. Len(frames) : j <= k =>
        /\ (k - j) * FastestDivider <= frames[k].cycle - frames[j].cycle
        /\ frames[k].cycle - frames[j].cycle <= (k - j) * MaximumDivider

\* The cycle of the newest frame; the first frame ends one divider after 0.
LastCycle(frames) == IF frames = <<>> THEN 0 ELSE frames[Len(frames)].cycle

Frames == history \o audioQueue

AudioInv ==
    /\ cycle \in Nat /\ rendered \in Nat /\ accumulator \in Nat /\ target \in Nat
    /\ divider \in Dividers /\ asked \in BOOLEAN
    /\ history \in Seq(AudioFrame) /\ audioQueue \in Seq(AudioFrame)
    /\ rendered <= cycle
    /\ \E i \in Interrupts \cup {0} :
          /\ cycle = rendered + i
          /\ asked => cycle >= target
    /\ rendered = 0 \/ \E s \in Slices : rendered < target + s
    /\ accumulator <= rendered /\ accumulator < MaximumDivider
    /\ LastCycle(Frames) = rendered - accumulator
    /\ EvenlySpaced(Frames) /\ Spread(Frames)
    /\ Frames # <<>> => Frames[1].cycle <= MaximumDivider \/ Len(history) = HistoryCapacity
    /\ asked => audioQueue = <<>>
    /\ \E i \in Interrupts \cup {0} :
          LastCycle(history) + i + MaximumDivider + (IF asked THEN 0 ELSE SamplePeriod) > target
    /\ Len(audioQueue) * FastestDivider <= LastCycle(Frames) - LastCycle(history)

LEMMA AudioNumbers ==
    /\ FastestDivider \in Nat \ {0} /\ MaximumDivider \in Nat \ {0}
    /\ FastestDivider <= MaximumDivider
    /\ Dividers \subseteq FastestDivider .. MaximumDivider
    /\ HalfTaps \in Nat \ {0} /\ LatencyCycles \in Nat
    /\ HistoryCapacity \in Nat \ {0} /\ QueueCapacity \in Nat \ {0}
    /\ SamplePeriod \in Nat \ {0}
    /\ \A s \in Slices : s \in Nat \ {0}
    /\ \A i \in Interrupts \cup {0} : i \in 0 .. MaximumDivider
<1>1. PICK d \in Dividers : TRUE
  BY AudioOutputAssumption
<1>2. /\ FastestDivider \in Nat \ {0} /\ MaximumDivider \in Nat
      /\ Dividers \subseteq FastestDivider .. MaximumDivider
      /\ HalfTaps \in Nat \ {0} /\ SamplePeriod \in Nat \ {0}
      /\ HistoryCapacity \in Nat \ {0} /\ QueueCapacity \in Nat \ {0}
      /\ Slices \subseteq Nat \ {0} /\ Interrupts \subseteq 1 .. MaximumDivider
  BY AudioOutputAssumption
<1>3. FastestDivider <= MaximumDivider /\ MaximumDivider # 0
  BY <1>1, <1>2
<1>4. LatencyCycles \in Nat
  BY <1>2 DEF LatencyCycles
<1>5. \A i \in Interrupts \cup {0} : i \in 0 .. MaximumDivider
  BY <1>2
<1>6. QED
  BY <1>2, <1>3, <1>4, <1>5

LEMMA Times ==
    ASSUME NEW k \in Nat, NEW d \in Dividers
    PROVE  /\ k * d \in Nat /\ k * FastestDivider \in Nat /\ k * MaximumDivider \in Nat
           /\ k * FastestDivider <= k * d
           /\ k * d <= k * MaximumDivider
<1>1. /\ d \in Nat /\ FastestDivider \in Nat /\ MaximumDivider \in Nat
      /\ FastestDivider <= d /\ d <= MaximumDivider
  BY AudioNumbers
<1>2. \A a, b \in Nat : a <= b => k * a \in Nat /\ k * b \in Nat /\ k * a <= k * b
  OBVIOUS
<1>3. QED
  BY <1>1, <1>2

LEMMA FrameParts ==
    ASSUME NEW f \in Seq(AudioFrame)
    PROVE  /\ Len(f) \in Nat
           /\ \A k \in 1 .. Len(f) : f[k] \in AudioFrame /\ f[k].cycle \in Nat
                                      /\ f[k].divider \in Dividers
           /\ LastCycle(f) \in Nat
<1>1. Len(f) \in Nat
  BY LenProperties
<1>2. ASSUME NEW k \in 1 .. Len(f)
      PROVE  f[k] \in AudioFrame /\ f[k].cycle \in Nat /\ f[k].divider \in Dividers
  <2>1. f[k] \in AudioFrame
    BY ElementOfSeq
  <2>2. QED
    BY <2>1 DEF AudioFrame
<1>3. f # <<>> => Len(f) \in 1 .. Len(f)
  BY <1>1, EmptySeq
<1>4. QED
  BY <1>1, <1>2, <1>3 DEF LastCycle

\* Frames at one divider behind the frames that are there.
LEMMA Grown ==
    ASSUME NEW f \in Seq(AudioFrame), EvenlySpaced(f), Spread(f),
           NEW d \in Dividers, NEW n \in Nat, NEW D,
           D = [k \in 1 .. n |-> [cycle |-> LastCycle(f) + k * d, divider |-> d]]
    PROVE  /\ D \in Seq(AudioFrame) /\ Len(D) = n
           /\ f \o D \in Seq(AudioFrame)
           /\ Len(f \o D) = Len(f) + n
           /\ EvenlySpaced(f \o D) /\ Spread(f \o D)
           /\ LastCycle(f \o D) = LastCycle(f) + n * d
           /\ f \o D # <<>> => (f \o D)[1].cycle <= MaximumDivider \/ (f # <<>> /\ (f \o D)[1] = f[1])
<1> DEFINE t == LastCycle(f)
           m == Len(f)
           g == f \o D
<1>1. m \in Nat /\ t \in Nat /\ d \in Nat
  BY FrameParts, AudioNumbers
<1>2. \A k \in 1 .. n : D[k] = [cycle |-> t + k * d, divider |-> d]
  OBVIOUS
<1>3. \A k \in 1 .. n : k * d \in Nat /\ D[k] \in AudioFrame
  <2> SUFFICES ASSUME NEW k \in 1 .. n
               PROVE  k * d \in Nat /\ D[k] \in AudioFrame
    OBVIOUS
  <2>0. k \in Nat
    OBVIOUS
  <2>1. k * d \in Nat
    BY <2>0, Times, Zenon
  <2> HIDE DEF t
  <2>2. t + k * d \in Nat
    BY <2>1, <1>1
  <2>3. D[k] = [cycle |-> t + k * d, divider |-> d]
    BY <1>2
  <2>4. [cycle |-> t + k * d, divider |-> d] \in AudioFrame
    BY <2>2, Zenon DEF AudioFrame
  <2>5. QED
    BY <2>1, <2>3, <2>4, Zenon
<1>4. D \in Seq(AudioFrame) /\ Len(D) = n
  <2>1. D \in [1 .. n -> AudioFrame]
    <3>1. DOMAIN D = 1 .. n /\ D = [k \in 1 .. n |-> D[k]]
      OBVIOUS
    <3> HIDE DEF t
    <3>2. QED
      BY <1>3, <3>1
  <2>2. QED
    BY <2>1
<1>5. /\ g \in Seq(AudioFrame) /\ Len(g) = m + n
      /\ \A i \in 1 .. m + n : g[i] = IF i <= m THEN f[i] ELSE D[i - m]
  BY <1>4, ConcatProperties
<1>6. \A i \in m + 1 .. m + n : g[i].cycle = t + (i - m) * d /\ g[i].divider = d
  <2> SUFFICES ASSUME NEW i \in m + 1 .. m + n
               PROVE  g[i].cycle = t + (i - m) * d /\ g[i].divider = d
    OBVIOUS
  <2>1. i - m \in 1 .. n /\ g[i] = D[i - m]
    BY <1>1, <1>5
  <2>2. QED
    BY <2>1, <1>2
<1> HIDE DEF g, t, m
<1>7. \A i \in 1 .. m : g[i] = f[i] /\ f[i].cycle \in Nat
  <2> SUFFICES ASSUME NEW i \in 1 .. m
               PROVE  g[i] = f[i] /\ f[i].cycle \in Nat
    OBVIOUS
  <2>1. i \in 1 .. m + n /\ i <= m
    BY <1>1
  <2>2. g[i] = f[i]
    BY <2>1, <1>5, Zenon
  <2>3. f[i].cycle \in Nat
    BY FrameParts, Zenon DEF m
  <2>4. QED
    BY <2>2, <2>3
<1>14. Len(g) = m + n
  BY <1>5
<1>8. t = (IF m = 0 THEN 0 ELSE f[m].cycle)
  BY EmptySeq DEF LastCycle, m, t
<1>9. EvenlySpaced(g)
  <2> SUFFICES ASSUME NEW k \in 1 .. m + n - 1
               PROVE  g[k + 1].cycle - g[k].cycle = g[k + 1].divider
    <3>1. Len(g) - 1 = m + n - 1
      BY <1>14, <1>1
    <3>2. QED
      BY <3>1, Zenon DEF EvenlySpaced
  <2>1. CASE k + 1 <= m
    <3>1. k \in 1 .. m - 1 /\ k \in 1 .. m /\ k + 1 \in 1 .. m
      BY <1>1, <2>1
    <3>2. f[k + 1].cycle - f[k].cycle = f[k + 1].divider
      BY <3>1 DEF EvenlySpaced, m
    <3>3. QED
      BY <3>1, <3>2, <1>7
  <2>2. CASE k = m
    <3>1. k \in 1 .. m /\ k + 1 \in m + 1 .. m + n /\ k + 1 - m = 1 /\ m # 0
      BY <1>1, <2>2
    <3>2. g[k].cycle = t /\ g[k + 1].cycle = t + d /\ g[k + 1].divider = d
      BY <3>1, <2>2, <1>1, <1>6, <1>7, <1>8
    <3>3. QED
      BY <3>2, <1>1
  <2>3. CASE k > m
    <3>1. k \in m + 1 .. m + n /\ k + 1 \in m + 1 .. m + n
      BY <1>1, <2>3
    <3> DEFINE l == k + 1
    <3> HIDE DEF l
    <3>5. l \in m + 1 .. m + n
      BY <3>1 DEF l
    <3>6. /\ g[k].cycle = t + (k - m) * d /\ g[l].cycle = t + (l - m) * d
          /\ g[l].divider = d
      BY <3>1, <3>5, <1>6, Zenon
    <3>2. l = k + 1
      BY DEF l
    <3>3. (l - m) * d = (k - m) * d + d /\ (k - m) * d \in Int
      BY <1>1, <3>2
    <3>4. g[l].cycle - g[k].cycle = g[l].divider
      BY <3>6, <3>3, <1>1
    <3>7. QED
      BY <3>2, <3>4
  <2>4. QED
    BY <1>1, <2>1, <2>2, <2>3
<1>10. Spread(g)
  <2> SUFFICES ASSUME NEW j \in 1 .. m + n, NEW k \in 1 .. m + n, j <= k
               PROVE  /\ (k - j) * FastestDivider <= g[k].cycle - g[j].cycle
                      /\ g[k].cycle - g[j].cycle <= (k - j) * MaximumDivider
    BY <1>5 DEF Spread
  <2>1. CASE k <= m
    <3>1. j \in 1 .. m /\ k \in 1 .. m
      BY <1>1, <2>1
    <3>2. QED
      BY <3>1, <1>7 DEF Spread, m
  <2>2. CASE j > m
    <3>1. j \in m + 1 .. m + n /\ k \in m + 1 .. m + n /\ k - j \in Nat
      BY <1>1, <2>2
    <3>2. g[k].cycle = t + (k - m) * d /\ g[j].cycle = t + (j - m) * d
      BY <3>1, <1>6
    <3>3. (k - m) * d = (j - m) * d + (k - j) * d /\ (j - m) * d \in Int
      BY <1>1
    <3>4. g[k].cycle - g[j].cycle = (k - j) * d
      BY <3>2, <3>3, <3>1, <1>1, Times
    <3>5. QED
      BY <3>1, <3>4, Times
  <2>3. CASE j <= m /\ k > m
    <3>1. /\ j \in 1 .. m /\ m \in 1 .. m /\ k \in m + 1 .. m + n
          /\ k - m \in Nat /\ m - j \in Nat
      BY <1>1, <2>3
    <3>2. /\ g[k].cycle = t + (k - m) * d /\ g[j].cycle = f[j].cycle
          /\ t = f[m].cycle /\ f[m].cycle \in Nat /\ f[j].cycle \in Nat
      <4>1. g[k].cycle = t + (k - m) * d
        BY <3>1, <1>6, Zenon
      <4>2. /\ g[j] = f[j] /\ f[j].cycle \in Nat
            /\ f[m].cycle \in Nat
        BY <3>1, <2>3, <1>1, <1>7
      <4>3. t = f[m].cycle
        BY <3>1, <1>8
      <4>4. QED
        BY <4>1, <4>2, <4>3, Zenon
    <3>3. /\ (m - j) * FastestDivider <= f[m].cycle - f[j].cycle
          /\ f[m].cycle - f[j].cycle <= (m - j) * MaximumDivider
      BY <3>1, <2>3 DEF Spread, m
    <3>4. /\ (k - j) * FastestDivider = (k - m) * FastestDivider + (m - j) * FastestDivider
          /\ (k - j) * MaximumDivider = (k - m) * MaximumDivider + (m - j) * MaximumDivider
          /\ (m - j) * FastestDivider \in Nat /\ (m - j) * MaximumDivider \in Nat
      BY <3>1, <1>1, AudioNumbers
    <3>5. /\ (k - m) * d \in Nat /\ (k - m) * FastestDivider \in Nat
          /\ (k - m) * MaximumDivider \in Nat
          /\ (k - m) * FastestDivider <= (k - m) * d
          /\ (k - m) * d <= (k - m) * MaximumDivider
      BY <3>1, Times
    <3>6. QED
      <4> DEFINE a == (k - m) * d
                 b == (k - m) * FastestDivider
                 c == (k - m) * MaximumDivider
                 x == (m - j) * FastestDivider
                 y == (m - j) * MaximumDivider
                 u == (k - j) * FastestDivider
                 v == (k - j) * MaximumDivider
                 latest == f[m].cycle
                 earlier == f[j].cycle
      <4>1. /\ a \in Nat /\ b \in Nat /\ c \in Nat /\ b <= a /\ a <= c
            /\ u = b + x /\ v = c + y /\ x \in Nat /\ y \in Nat
            /\ latest \in Nat /\ earlier \in Nat
            /\ x <= latest - earlier /\ latest - earlier <= y
            /\ g[k].cycle = latest + a /\ g[j].cycle = earlier
        BY <3>2, <3>3, <3>4, <3>5, Zenon
      <4> HIDE DEF a, b, c, x, y, u, v, latest, earlier
      <4>2. u <= (latest + a) - earlier /\ (latest + a) - earlier <= v
        BY <4>1
      <4>3. QED
        BY <4>1, <4>2, Zenon DEF u, v
  <2>4. QED
    BY <1>1, <2>1, <2>2, <2>3
<1>11. LastCycle(g) = t + n * d
  <2>1. CASE m + n = 0
    <3>1. g = <<>> /\ m = 0 /\ n = 0
      BY <2>1, <1>1, <1>5, EmptySeq
    <3>2. QED
      BY <3>1, <1>1, <1>8 DEF LastCycle
  <2>2. CASE m + n # 0 /\ n = 0
    <3>1. g # <<>> /\ m \in 1 .. m /\ n * d = 0
      BY <2>2, <1>1, <1>5, EmptySeq
    <3>2. QED
      BY <3>1, <2>2, <1>1, <1>5, <1>7, <1>8 DEF LastCycle
  <2>3. CASE n # 0
    <3>1. g # <<>> /\ m + n \in m + 1 .. m + n /\ m + n - m = n
      BY <2>3, <1>1, <1>5, EmptySeq
    <3>2. QED
      <4> DEFINE l == m + n
      <4> HIDE DEF l
      <4>3. l \in m + 1 .. m + n
        BY <3>1 DEF l
      <4>4. g[l].cycle = t + (l - m) * d
        BY <4>3, <1>6, Zenon
      <4>1. l = m + n /\ l - m = n
        BY <3>1, <1>1 DEF l
      <4>5. g[l].cycle = t + n * d
        BY <4>1, <4>4
      <4>2. QED
        BY <4>1, <4>5, <3>1, <1>14 DEF LastCycle
  <2>4. QED
    BY <2>1, <2>2, <2>3
<1>12. g # <<>> => g[1].cycle <= MaximumDivider \/ (f # <<>> /\ g[1] = f[1])
  <2> SUFFICES ASSUME g # <<>>
               PROVE  g[1].cycle <= MaximumDivider \/ (f # <<>> /\ g[1] = f[1])
    OBVIOUS
  <2>1. CASE m = 0
    <3>1. 1 \in m + 1 .. m + n /\ 1 - m = 1 /\ t = 0
      BY <2>1, <1>1, <1>5, <1>8, EmptySeq
    <3>2. g[1].cycle = 0 + 1 * d
      BY <3>1, <1>6
    <3>3. QED
      BY <3>2, AudioNumbers
  <2>2. CASE m # 0
    <3>1. 1 \in 1 .. m /\ f # <<>>
      BY <2>2, <1>1, EmptySeq DEF m
    <3>2. QED
      BY <3>1, <1>7
  <2>3. QED
    BY <2>1, <2>2
<1>13. QED
  BY <1>4, <1>5, <1>9, <1>10, <1>11, <1>12 DEF g, t, m

\* What is kept of the frames is spaced as they were.
LEMMA NewestKeeps ==
    ASSUME NEW f \in Seq(AudioFrame), NEW n \in Nat \ {0}
    PROVE  /\ Newest(f, n) \in Seq(AudioFrame)
           /\ Len(Newest(f, n)) = IF Len(f) <= n THEN Len(f) ELSE n
           /\ Newest(f, n) = <<>> <=> f = <<>>
           /\ LastCycle(Newest(f, n)) = LastCycle(f)
           /\ EvenlySpaced(f) => EvenlySpaced(Newest(f, n))
           /\ Spread(f) => Spread(Newest(f, n))
           /\ Len(f) <= n => Newest(f, n) = f
<1>1. Len(f) \in Nat
  BY FrameParts
<1>2. CASE Len(f) <= n
  BY <1>2, Zenon DEF Newest
<1>3. CASE ~(Len(f) <= n)
  <2> DEFINE g == Newest(f, n)
             gone == Len(f) - n
  <2>1. /\ gone \in Nat /\ Len(f) - n + 1 \in Int /\ gone + n = Len(f)
        /\ Len(f) - (Len(f) - n + 1) + 1 = n /\ Len(f) - n + 1 <= Len(f)
    BY <1>1, <1>3
  <2>2. g = SubSeq(f, Len(f) - n + 1, Len(f))
    BY <1>3, Zenon DEF Newest
  <2>3. \A i \in Len(f) - n + 1 .. Len(f) : f[i] \in AudioFrame
    <3>1. \A i \in Len(f) - n + 1 .. Len(f) : i \in 1 .. Len(f)
      BY <1>1, <1>3
    <3>2. QED
      BY <3>1, FrameParts, Zenon
  <2>4. /\ g \in Seq(AudioFrame) /\ Len(g) = n
        /\ \A i \in 1 .. n : g[i] = f[Len(f) - n + 1 + i - 1]
    <3> DEFINE lo == Len(f) - n + 1
               hi == Len(f)
    <3>1. lo \in Int /\ hi \in Int /\ lo <= hi /\ hi - lo + 1 = n
      BY <1>1, <2>1
    <3>2. g = SubSeq(f, lo, hi) /\ \A i \in lo .. hi : f[i] \in AudioFrame
      BY <2>2, <2>3
    <3> HIDE DEF g, lo, hi
    <3>3. /\ SubSeq(f, lo, hi) \in Seq(AudioFrame)
          /\ Len(SubSeq(f, lo, hi)) = IF lo <= hi THEN hi - lo + 1 ELSE 0
          /\ \A i \in 1 .. hi - lo + 1 : SubSeq(f, lo, hi)[i] = f[lo + i - 1]
      BY <3>1, <3>2, SubSeqProperties
    <3>4. /\ g \in Seq(AudioFrame) /\ Len(g) = n
          /\ \A i \in 1 .. n : g[i] = f[lo + i - 1]
      BY <3>1, <3>2, <3>3
    <3>5. QED
      BY <3>4 DEF lo
  <2> HIDE DEF g
  <2>5. \A i \in 1 .. n : g[i] = f[gone + i] /\ gone + i \in 1 .. Len(f)
    <3> SUFFICES ASSUME NEW i \in 1 .. n
                 PROVE  g[i] = f[gone + i] /\ gone + i \in 1 .. Len(f)
      OBVIOUS
    <3>1. Len(f) - n + 1 + i - 1 = gone + i /\ gone + i \in 1 .. Len(f)
      BY <1>1, <2>1
    <3>2. QED
      BY <3>1, <2>4
  <2> HIDE DEF gone
  <2>6. g # <<>> /\ f # <<>>
    BY <1>1, <1>3, <2>4, EmptySeq
  <2>7. LastCycle(g) = LastCycle(f)
    <3>1. n \in 1 .. n /\ g[n] = f[gone + n]
      BY <2>5
    <3>2. QED
      BY <3>1, <2>1, <2>4, <2>6 DEF LastCycle
  <2>8. ASSUME EvenlySpaced(f)
        PROVE  EvenlySpaced(g)
    <3> SUFFICES ASSUME NEW k \in 1 .. Len(g) - 1
                 PROVE  g[k + 1].cycle - g[k].cycle = g[k + 1].divider
      BY Zenon DEF EvenlySpaced
    <3> DEFINE j == gone + k
    <3>1. k \in 1 .. n /\ k + 1 \in 1 .. n /\ gone + (k + 1) = j + 1 /\ j \in 1 .. Len(f) - 1
      BY <2>1, <2>4, <1>1
    <3>2. g[k] = f[j] /\ g[k + 1] = f[j + 1]
      BY <3>1, <2>5
    <3> HIDE DEF j
    <3>3. f[j + 1].cycle - f[j].cycle = f[j + 1].divider
      BY <2>8, <3>1, Zenon DEF EvenlySpaced
    <3>4. QED
      BY <3>2, <3>3
  <2>9. ASSUME Spread(f)
        PROVE  Spread(g)
    <3> SUFFICES ASSUME NEW j \in 1 .. n, NEW k \in 1 .. n, j <= k
                 PROVE  /\ (k - j) * FastestDivider <= g[k].cycle - g[j].cycle
                        /\ g[k].cycle - g[j].cycle <= (k - j) * MaximumDivider
      BY <2>4 DEF Spread
    <3> DEFINE a == gone + j
               b == gone + k
    <3>1. a \in 1 .. Len(f) /\ b \in 1 .. Len(f) /\ a <= b /\ b - a = k - j
      BY <2>1, <2>5
    <3>2. g[j] = f[a] /\ g[k] = f[b]
      BY <2>5
    <3> HIDE DEF a, b
    <3>3. /\ (b - a) * FastestDivider <= f[b].cycle - f[a].cycle
          /\ f[b].cycle - f[a].cycle <= (b - a) * MaximumDivider
      BY <2>9, <3>1, Zenon DEF Spread
    <3>4. QED
      BY <3>1, <3>2, <3>3
  <2>10. QED
    BY <1>3, <2>4, <2>6, <2>7, <2>8, <2>9, Zenon DEF g
<1>4. QED
  BY <1>2, <1>3

LEMMA AudioLeast ==
    ASSUME NEW S \in SUBSET Nat, S # {}
    PROVE  \E n \in S : \A m \in S : n <= m
<1>1. PICK n \in S : \A m \in S : ~(<<m, n>> \in OpToRel(<, Nat))
  BY NatLessThanWellFounded, WFMin, Zenon
<1>2. ASSUME NEW m \in S
      PROVE  n <= m
  <2>1. ~(m < n)
    BY <1>1, Zenon DEF OpToRel
  <2>2. QED
    BY <2>1
<1>3. QED
  BY <1>2

\* Where some frame is at or before a point, the newest of them is the base.
LEMMA BaseIsNewest ==
    ASSUME NEW at \in Int, history \in Seq(AudioFrame),
           NEW first \in 1 .. Len(history), history[first].cycle <= at - LatencyCycles
    PROVE  /\ Base(at) \in 1 .. Len(history)
           /\ history[Base(at)].cycle <= at - LatencyCycles
           /\ \A k \in 1 .. Len(history) : k > Base(at) => ~(history[k].cycle <= at - LatencyCycles)
<1> DEFINE n == Len(history)
           before == {k \in 1 .. n : history[k].cycle <= at - LatencyCycles}
           S == {n - k : k \in before}
<1>1. n \in Nat
  BY LenProperties
<1>2. first \in before /\ before \subseteq 1 .. n
  OBVIOUS
<1>3. Base(at) = IF before = {} THEN 0 ELSE CHOOSE k \in before : \A j \in before : j <= k
  BY DEF Base
<1>4. \A k \in before : history[k].cycle <= at - LatencyCycles
  OBVIOUS
<1> HIDE DEF n, before
<1>5. S \in SUBSET Nat /\ S # {}
  BY <1>1, <1>2
<1>6. PICK x \in S : \A y \in S : x <= y
  <2> HIDE DEF S
  <2>1. QED
    BY <1>5, AudioLeast, Zenon
<1>7. PICK b \in before : x = n - b
  BY <1>6
<1>8. ASSUME NEW j \in before
      PROVE  j <= b
  <2>1. n - j \in S /\ j \in Nat /\ b \in Nat
    BY <1>2
  <2>2. n - b <= n - j
    BY <1>6, <1>7, <2>1
  <2>3. QED
    BY <2>1, <2>2, <1>1
<1>9. Base(at) \in before /\ \A j \in before : j <= Base(at)
  BY <1>3, <1>8, <1>2, Zenon
<1>10. ASSUME NEW k \in 1 .. n, k > Base(at)
       PROVE  ~(history[k].cycle <= at - LatencyCycles)
  <2>1. k \notin before
    <3> DEFINE top == Base(at)
    <3>1. k > top /\ top \in before /\ \A j \in before : j <= top
      BY <1>9, <1>10, Zenon
    <3>4. \A j \in 1 .. n : j \in Nat
      BY <1>1
    <3> HIDE DEF top
    <3>2. ~(k <= top)
      BY <3>1, <3>4, <1>2
    <3>3. QED
      BY <3>1, <3>2, Zenon
  <2>2. QED
    BY <2>1 DEF before
<1>11. QED
  BY <1>2, <1>4, <1>9, <1>10 DEF n

LEMMA AudioInvMeansIt == AudioInv => OutputHasItsTaps
<1> SUFFICES ASSUME AudioInv
             PROVE  OutputHasItsTaps
  OBVIOUS
<1>1. EvenlySpaced(history \o audioQueue)
  BY DEF AudioInv, Frames
<1>2. ASSUME asked, target > LatencyCycles + MaximumDivider
      PROVE  /\ Base(target) # 0
             /\ Base(target) + HalfTaps <= Len(history) + IF cycle > rendered THEN 1 ELSE 0
             /\ target > 2 * LatencyCycles => HalfTaps <= Base(target)
  <2> DEFINE n == Len(history)
             late == IF cycle > rendered THEN 1 ELSE 0
  <2>1. /\ history \in Seq(AudioFrame) /\ audioQueue = <<>>
        /\ cycle \in Nat /\ rendered \in Nat /\ accumulator \in Nat /\ target \in Nat
        /\ accumulator <= rendered /\ accumulator < MaximumDivider
    BY <1>2, Zenon DEF AudioInv
  <2>2. Frames = history
    BY <2>1, ConcatEmptySeq, Zenon DEF Frames
  <2>3. /\ LastCycle(history) = rendered - accumulator /\ Spread(history)
        /\ history # <<>> => history[1].cycle <= MaximumDivider \/ n = HistoryCapacity
    BY <2>2, Zenon DEF AudioInv
  <2>4. /\ MaximumDivider \in Nat \ {0} /\ FastestDivider \in Nat \ {0}
        /\ HalfTaps \in Nat \ {0} /\ LatencyCycles \in Nat
        /\ LatencyCycles = HalfTaps * MaximumDivider
    BY AudioNumbers, Zenon DEF LatencyCycles
  <2>5. MaximumDivider <= LatencyCycles
    BY <2>4
  <2>6. PICK i \in Interrupts \cup {0} : cycle = rendered + i /\ cycle >= target
    BY <1>2, Zenon DEF AudioInv
  <2>7. /\ i \in Nat /\ i <= MaximumDivider /\ late \in 0 .. 1
        /\ i <= late * MaximumDivider
    <3>1. i \in 0 .. MaximumDivider
      BY <2>6, AudioNumbers, Zenon
    <3>2. QED
      BY <3>1, <2>6, <2>1, <2>4
  <2>8. rendered > 0 /\ rendered - accumulator > 0
        /\ rendered - accumulator > target - late * MaximumDivider - MaximumDivider
    BY <1>2, <2>1, <2>4, <2>5, <2>6, <2>7
  <2>9. n \in Nat \ {0} /\ history[n].cycle = rendered - accumulator
    <3>1. history # <<>>
      BY <2>3, <2>8 DEF LastCycle
    <3>2. QED
      BY <3>1, <2>1, <2>3, EmptySeq, LenProperties DEF LastCycle
  <2> HIDE DEF n, late
  <2>10. \A k \in 1 .. n : history[k].cycle \in Nat
    BY <2>1, FrameParts DEF n
  <2>11. history[1].cycle <= MaximumDivider \/ n = HistoryCapacity
    BY <2>3, <2>9, EmptySeq DEF n
  \* A full history reaches back the latency and the taps before it.
  <2>12. ASSUME n = HistoryCapacity
         PROVE  /\ HalfTaps <= n
                /\ (n - HalfTaps) * FastestDivider > history[n].cycle - target + LatencyCycles - 1
    <3>1. PICK s \in Slices : rendered < target + s
      <4>1. rendered # 0
        BY <2>8, <2>1
      <4>2. QED
        BY <4>1, Zenon DEF AudioInv
    <3>2. /\ (HistoryCapacity - HalfTaps) * FastestDivider >= LatencyCycles + s - 1
          /\ s \in Nat \ {0}
      BY <3>1, AudioOutputAssumption
    <3> DEFINE span == (n - HalfTaps) * FastestDivider
    <3>3. span \in Int /\ span >= LatencyCycles + s - 1
      BY <2>4, <2>9, <2>12, <3>2
    <3>4. HalfTaps <= n
      <4>1. LatencyCycles + s - 1 >= 0 /\ span >= 0
        BY <2>4, <3>2, <3>3
      <4>2. n - HalfTaps < 0 => span < 0
        <5>1. \A a \in Int, f \in Nat \ {0} : a < 0 => a * f < 0
          OBVIOUS
        <5>2. n - HalfTaps \in Int /\ FastestDivider \in Nat \ {0}
          BY <2>4, <2>9
        <5>3. QED
          BY <5>1, <5>2, Zenon
      <4>3. QED
        BY <4>1, <4>2, <2>4, <2>9
    <3> HIDE DEF span
    <3>5. span > history[n].cycle - target + LatencyCycles - 1
      BY <3>1, <3>2, <3>3, <2>1, <2>4, <2>9
    <3>6. QED
      BY <3>4, <3>5 DEF span
  <2>13. history[1].cycle <= target - LatencyCycles
    <3>1. CASE history[1].cycle <= MaximumDivider
      BY <3>1, <1>2, <2>1, <2>4, <2>9, <2>10
    <3>2. CASE n = HistoryCapacity
      <4> DEFINE span == (n - HalfTaps) * FastestDivider
                 all == (n - 1) * FastestDivider
      <4>1. span > history[n].cycle - target + LatencyCycles - 1
        BY <2>12, <3>2
      <4>2. span <= all /\ span \in Int /\ all \in Int
        BY <2>4, <2>9
      <4>3. all <= history[n].cycle - history[1].cycle
        <5>1. 1 \in 1 .. n /\ n \in 1 .. n /\ 1 <= n
          BY <2>9
        <5>2. QED
          BY <5>1, <2>3, Zenon DEF Spread, n
      <4>4. history[1].cycle \in Nat /\ history[n].cycle \in Nat
        BY <2>9, <2>10
      <4> HIDE DEF span, all
      <4>5. QED
        BY <4>1, <4>2, <4>3, <4>4, <2>1, <2>4
    <3>3. QED
      BY <2>11, <3>1, <3>2
  <2>14. 1 \in 1 .. n /\ target \in Int
    BY <2>1, <2>9
  <2> DEFINE b == Base(target)
  <2>15. /\ b \in 1 .. n /\ history[b].cycle <= target - LatencyCycles
         /\ \A k \in 1 .. n : k > b => ~(history[k].cycle <= target - LatencyCycles)
    BY <2>1, <2>13, <2>14, BaseIsNewest DEF n
  <2> HIDE DEF b
  <2>16. history[n].cycle - history[b].cycle <= (n - b) * MaximumDivider
    <3>1. b \in 1 .. n /\ n \in 1 .. n /\ b <= n
      BY <2>9, <2>15
    <3>2. QED
      BY <3>1, <2>3, Zenon DEF Spread, n
  <2>17. b + HalfTaps <= n + late
    <3> SUFFICES ASSUME ~(b + HalfTaps <= n + late)
                 PROVE  FALSE
      OBVIOUS
    <3>1. n - b \in Nat /\ n - b <= HalfTaps - late - 1 /\ HalfTaps - late - 1 \in Nat
      BY <2>4, <2>7, <2>9, <2>15
    <3>2. (n - b) * MaximumDivider <= (HalfTaps - late - 1) * MaximumDivider
      BY <3>1, <2>4
    <3>3. (HalfTaps - late - 1) * MaximumDivider
            = HalfTaps * MaximumDivider - late * MaximumDivider - MaximumDivider
      BY <2>4, <2>7
    <3> DEFINE lag == late * MaximumDivider
               gap == (n - b) * MaximumDivider
    <3>4. /\ lag \in Int /\ gap \in Int
          /\ gap <= LatencyCycles - lag - MaximumDivider
          /\ history[n].cycle - history[b].cycle <= gap
          /\ rendered - accumulator > target - lag - MaximumDivider
      BY <3>1, <3>2, <3>3, <2>4, <2>7, <2>8, <2>16
    <3>5. history[b].cycle \in Nat
      BY <2>10, <2>15
    <3> HIDE DEF lag, gap
    <3>6. QED
      BY <3>4, <3>5, <2>1, <2>4, <2>9, <2>15
  \* The frame behind the base is past the point that is heard.
  <2>18. ASSUME HalfTaps > 1
         PROVE  /\ b + 1 \in 1 .. n
                /\ history[b + 1].cycle > target - LatencyCycles
    <3>1. b + 1 \in 1 .. n
      BY <2>4, <2>7, <2>9, <2>15, <2>17, <2>18
    <3> DEFINE next == b + 1
    <3>2. next \in 1 .. n /\ next > b
      BY <3>1, <2>15
    <3> HIDE DEF next
    <3>3. ~(history[next].cycle <= target - LatencyCycles) /\ history[next].cycle \in Nat
      BY <3>2, <2>10, <2>15, Zenon
    <3>4. history[next].cycle > target - LatencyCycles
      BY <3>3, <2>1, <2>4
    <3>5. QED
      BY <3>1, <3>4 DEF next
  <2>19. ASSUME target > 2 * LatencyCycles
         PROVE  HalfTaps <= b
    <3>1. CASE HalfTaps = 1
      BY <3>1, <2>9, <2>15
    <3>2. CASE HalfTaps # 1
      <4> DEFINE next == b + 1
      <4>1. HalfTaps > 1
        BY <3>2, <2>4
      <4>2. next \in 1 .. n /\ history[next].cycle > target - LatencyCycles
        BY <4>1, <2>18
      <4>3. next = b + 1 /\ b \in Nat /\ next \in Nat
        BY <2>9, <2>15
      <4> HIDE DEF next
      <4>4. history[next].cycle \in Nat /\ history[1].cycle \in Nat /\ history[n].cycle \in Nat
        BY <4>2, <2>9, <2>10
      <4>5. CASE history[1].cycle <= MaximumDivider
        <5>1. history[next].cycle - history[1].cycle <= (next - 1) * MaximumDivider
          <6>1. 1 \in 1 .. n /\ 1 <= next
            BY <4>2, <2>14
          <6>2. QED
            BY <6>1, <4>2, <2>3, Zenon DEF Spread, n
        <5>2. next - 1 = b
          BY <4>3
        <5> DEFINE span == b * MaximumDivider
                   least == (HalfTaps - 1) * MaximumDivider
        <5>3. least = LatencyCycles - MaximumDivider
          BY <2>4
        <5>4. span \in Int /\ least \in Int /\ history[next].cycle - history[1].cycle <= span
          BY <5>1, <5>2, <4>3, <2>4
        <5>5. b < HalfTaps => span <= least
          BY <4>3, <2>4
        <5> HIDE DEF span, least
        <5>6. span > least
          BY <5>3, <5>4, <4>2, <4>4, <4>5, <2>1, <2>4, <2>19
        <5>7. QED
          BY <5>4, <5>5, <5>6, <4>3, <2>4
      <4>6. CASE n = HistoryCapacity
        <5>1. (n - next) * FastestDivider <= history[n].cycle - history[next].cycle
          <6>1. n \in 1 .. n /\ next <= n
            BY <4>2, <2>9
          <6>2. QED
            BY <6>1, <4>2, <2>3, Zenon DEF Spread, n
        <5> DEFINE span == (n - HalfTaps) * FastestDivider
                   newer == (n - next) * FastestDivider
        <5>2. span \in Int /\ newer \in Int
          BY <4>3, <2>4, <2>9
        <5>3. span > history[n].cycle - target + LatencyCycles - 1
          BY <4>6, <2>12
        <5>4. next <= HalfTaps => span <= newer
          BY <4>3, <2>4, <2>9
        <5> HIDE DEF span, newer
        <5>5. newer <= history[n].cycle - history[next].cycle
          BY <5>1 DEF newer
        <5>6. newer < span
          <6> DEFINE newest == history[n].cycle
                     past == history[next].cycle
          <6>1. /\ newest \in Nat /\ past \in Nat /\ target \in Nat /\ LatencyCycles \in Nat
                /\ past > target - LatencyCycles /\ newer <= newest - past
                /\ span > newest - target + LatencyCycles - 1
            BY <5>3, <5>5, <4>2, <4>4, <2>1, <2>4, Zenon
          <6> HIDE DEF newest, past
          <6>2. QED
            BY <6>1, <5>2
        <5>7. QED
          BY <5>2, <5>4, <5>6, <4>3, <2>4
      <4>7. QED
        BY <4>5, <4>6, <2>11
    <3>3. QED
      BY <3>1, <3>2
  <2>20. QED
    BY <2>15, <2>17, <2>19 DEF b, n, late
<1>3. target > 2 * LatencyCycles => target > LatencyCycles + MaximumDivider
  <2>1. /\ target \in Nat /\ MaximumDivider \in Nat /\ HalfTaps \in Nat \ {0}
        /\ LatencyCycles = HalfTaps * MaximumDivider
    BY AudioNumbers, Zenon DEF AudioInv, LatencyCycles
  <2>2. MaximumDivider <= LatencyCycles /\ LatencyCycles \in Nat
    BY <2>1
  <2>3. QED
    BY <2>1, <2>2
<1>4. QED
  BY <1>1, <1>2, <1>3 DEF OutputHasItsTaps

LEMMA AudioInvInit == AudioOutputInit => AudioInv
<1> SUFFICES ASSUME AudioOutputInit
             PROVE  AudioInv
  OBVIOUS
<1>1. /\ cycle = 0 /\ rendered = 0 /\ accumulator = 0 /\ target = SamplePeriod
      /\ divider \in Dividers /\ asked = FALSE /\ history = <<>> /\ audioQueue = <<>>
  BY Zenon DEF AudioOutputInit
<1>2. <<>> \in Seq(AudioFrame) /\ Len(<<>>) = 0
  BY EmptySeq
<1>3. Frames = <<>>
  BY <1>1, <1>2, ConcatEmptySeq, Zenon DEF Frames
<1>4. /\ LastCycle(Frames) = 0 /\ LastCycle(history) = 0
      /\ EvenlySpaced(Frames) /\ Spread(Frames)
  <2>1. LastCycle(<<>>) = 0
    BY DEF LastCycle
  <2>2. EvenlySpaced(<<>>) /\ Spread(<<>>)
    BY <1>2 DEF EvenlySpaced, Spread
  <2>3. QED
    BY <2>1, <2>2, <1>1, <1>3
<1>5. 0 \in Interrupts \cup {0} /\ cycle = rendered + 0 /\ (asked => cycle >= target)
  BY <1>1
<1>6. 0 + 0 + MaximumDivider + (IF asked THEN 0 ELSE SamplePeriod) > target
  BY <1>1, AudioNumbers
<1>7. Len(audioQueue) * FastestDivider <= LastCycle(Frames) - LastCycle(history)
  BY <1>1, <1>2, <1>4, AudioNumbers
<1>8. /\ cycle \in Nat /\ rendered \in Nat /\ accumulator \in Nat /\ target \in Nat
      /\ asked \in BOOLEAN /\ rendered <= cycle /\ accumulator <= rendered
      /\ accumulator < MaximumDivider /\ LastCycle(Frames) = rendered - accumulator
  <2>1. asked \in BOOLEAN
    BY <1>1, Zenon
  <2>2. /\ cycle \in Nat /\ rendered \in Nat /\ accumulator \in Nat /\ target \in Nat
        /\ rendered <= cycle /\ accumulator <= rendered
        /\ accumulator < MaximumDivider /\ LastCycle(Frames) = rendered - accumulator
    BY <1>1, <1>4, AudioNumbers
  <2>3. QED
    BY <2>1, <2>2
<1>9. \E i \in Interrupts \cup {0} :
          LastCycle(history) + i + MaximumDivider + (IF asked THEN 0 ELSE SamplePeriod) > target
  BY <1>4, <1>5, <1>6
<1>10. QED
  BY <1>1, <1>2, <1>3, <1>4, <1>5, <1>7, <1>8, <1>9, Zenon DEF AudioInv

LEMMA Divided ==
    ASSUME NEW x \in Nat, NEW m \in Nat \ {0}
    PROVE  \E q, r \in Nat : q = x \div m /\ r = x % m /\ r < m /\ x = q * m + r
<1> DEFINE q == x \div m
           r == x % m
<1>1. q \in Int /\ q * m <= x /\ x < q * m + m
  OBVIOUS
<1>2. r \in 0 .. m - 1
  OBVIOUS
<1>3. r = x - m * q
  OBVIOUS
<1>4. q >= 0
  OBVIOUS
<1> HIDE DEF q, r
<1>5. m * q = q * m /\ q * m \in Int
  BY <1>1
<1>6. q \in Nat /\ r \in Nat /\ r < m /\ x = q * m + r
  BY <1>1, <1>2, <1>3, <1>4, <1>5
<1>7. QED
  BY <1>6 DEF q, r

\* The frames of a slice are the next ones, and leave less than one over.
LEMMA DueAreNext ==
    ASSUME AudioInv, NEW elapsed \in Nat, NEW end \in Nat, end = rendered + elapsed
    PROVE  LET n == (accumulator + elapsed) \div divider
               r == LeftOver(elapsed, divider)
           IN  /\ n \in Nat /\ r \in Nat /\ r < divider /\ r <= end
               /\ LastCycle(Frames) + n * divider = end - r
               /\ Due(elapsed, end) =
                     [k \in 1 .. n |-> [cycle |-> LastCycle(Frames) + k * divider,
                                        divider |-> divider]]
<1> DEFINE n == (accumulator + elapsed) \div divider
           r == LeftOver(elapsed, divider)
           newest == LastCycle(Frames)
<1>1. /\ accumulator \in Nat /\ rendered \in Nat /\ accumulator <= rendered
      /\ newest = rendered - accumulator /\ divider \in Dividers
  BY Zenon DEF AudioInv
<1>2. divider \in Nat \ {0}
  BY <1>1, AudioNumbers
<1>3. /\ n \in Nat /\ r \in Nat /\ r < divider
      /\ accumulator + elapsed = n * divider + r
  <2> DEFINE x == accumulator + elapsed
  <2>1. x \in Nat
    BY <1>1
  <2>2. r = x % divider /\ n = x \div divider
    BY DEF LeftOver
  <2> HIDE DEF x, r, n
  <2>3. PICK a, b \in Nat : /\ a = x \div divider /\ b = x % divider
                           /\ b < divider /\ x = a * divider + b
    BY <1>2, <2>1, Divided
  <2>4. /\ n \in Nat /\ r \in Nat /\ r < divider /\ x = n * divider + r
    BY <2>2, <2>3, Zenon
  <2>5. QED
    BY <2>4 DEF x
<1>4. Due(elapsed, end) =
        [k \in 1 .. n |-> [cycle |-> (end - r - (n - 1) * divider) + (k - 1) * divider,
                           divider |-> divider]]
  BY Zenon DEF Due
<1> HIDE DEF n, r, newest
<1> DEFINE all == n * divider
<1>5. all \in Nat /\ accumulator + elapsed = all + r
  BY <1>2, <1>3
<1>6. (n - 1) * divider = all - divider
  BY <1>2, <1>3
<1> HIDE DEF all
<1>7. newest + all = end - r /\ r <= end
  BY <1>1, <1>2, <1>3, <1>5
<1>8. ASSUME NEW k \in 1 .. n
      PROVE  (end - r - (n - 1) * divider) + (k - 1) * divider = newest + k * divider
  <2>1. (k - 1) * divider = k * divider - divider /\ k * divider \in Int
    BY <1>2
  <2> DEFINE here == k * divider
  <2> HIDE DEF here
  <2>2. (k - 1) * divider = here - divider /\ here \in Int
    BY <2>1 DEF here
  <2>3. (end - r - (n - 1) * divider) + (k - 1) * divider = newest + here
    BY <2>2, <1>1, <1>2, <1>3, <1>5, <1>6, <1>7
  <2>4. QED
    BY <2>3 DEF here
<1>9. Due(elapsed, end) = [k \in 1 .. n |-> [cycle |-> newest + k * divider,
                                             divider |-> divider]]
  BY <1>4, <1>8
<1>10. QED
  BY <1>3, <1>7, <1>9 DEF all, n, r, newest

LEMMA SliceKeeps ==
    ASSUME AudioInv, NEW elapsed \in Slices, NEW served \in Interrupts \cup {0},
           Slice(elapsed, served)
    PROVE  AudioInv'
<1> DEFINE passed == rendered' - rendered
           D == Due(passed, rendered')
           n == (accumulator + passed) \div divider
           r == LeftOver(passed, divider)
           newest == LastCycle(Frames)
           passedOn == LastCycle(history)
<1>1. /\ cycle \in Nat /\ rendered \in Nat /\ target \in Nat /\ rendered <= cycle
      /\ divider \in Dividers /\ asked \in BOOLEAN
      /\ history \in Seq(AudioFrame) /\ audioQueue \in Seq(AudioFrame)
      /\ EvenlySpaced(Frames) /\ Spread(Frames)
  BY Zenon DEF AudioInv
<1>2. /\ cycle < target /\ rendered' = cycle + elapsed /\ cycle' = rendered' + served
      /\ audioQueue' = Queued(audioQueue, D) /\ accumulator' = r
      /\ divider' = divider /\ history' = history /\ target' = target /\ asked' = asked
  BY Zenon DEF Slice
<1>3. elapsed \in Nat \ {0} /\ served \in Nat /\ served <= MaximumDivider
  BY AudioNumbers
<1>4. passed \in Nat /\ rendered' \in Nat /\ rendered' = rendered + passed
  BY <1>1, <1>2, <1>3
<1>5. asked = FALSE
  <2>1. asked => cycle >= target
    BY Zenon DEF AudioInv
  <2>2. ~asked
    BY <2>1, <1>1, <1>2
  <2>3. QED
    BY <2>2, <1>1, Zenon
<1>6. /\ n \in Nat /\ r \in Nat /\ r < divider /\ r <= rendered'
      /\ newest + n * divider = rendered' - r
      /\ D = [k \in 1 .. n |-> [cycle |-> newest + k * divider, divider |-> divider]]
  <2> HIDE DEF passed
  <2>1. \A e, end \in Nat : end = rendered + e =>
            LET m == (accumulator + e) \div divider
                s == LeftOver(e, divider)
            IN  /\ m \in Nat /\ s \in Nat /\ s < divider /\ s <= end
                /\ LastCycle(Frames) + m * divider = end - s
                /\ Due(e, end) =
                     [k \in 1 .. m |-> [cycle |-> LastCycle(Frames) + k * divider,
                                        divider |-> divider]]
    BY DueAreNext
  <2>2. QED
    BY <2>1, <1>4, Zenon
<1> HIDE DEF passed, n, r, D
<1>7. Frames \in Seq(AudioFrame) /\ Len(Frames) = Len(history) + Len(audioQueue)
  BY <1>1, ConcatProperties DEF Frames
<1>8. /\ D \in Seq(AudioFrame) /\ Len(D) = n
      /\ Frames \o D \in Seq(AudioFrame)
      /\ EvenlySpaced(Frames \o D) /\ Spread(Frames \o D)
      /\ LastCycle(Frames \o D) = newest + n * divider
      /\ Frames \o D # <<>> => \/ (Frames \o D)[1].cycle <= MaximumDivider
                               \/ Frames # <<>> /\ (Frames \o D)[1] = Frames[1]
  <2>1. \A f \in Seq(AudioFrame) : EvenlySpaced(f) /\ Spread(f) =>
          \A d \in Dividers, m \in Nat : \A E :
             E = [k \in 1 .. m |-> [cycle |-> LastCycle(f) + k * d, divider |-> d]] =>
                /\ E \in Seq(AudioFrame) /\ Len(E) = m
                /\ f \o E \in Seq(AudioFrame)
                /\ EvenlySpaced(f \o E) /\ Spread(f \o E)
                /\ LastCycle(f \o E) = LastCycle(f) + m * d
                /\ f \o E # <<>> => \/ (f \o E)[1].cycle <= MaximumDivider
                                    \/ f # <<>> /\ (f \o E)[1] = f[1]
    BY Grown
  <2>2. \A d \in Dividers, m \in Nat : \A E :
           E = [k \in 1 .. m |-> [cycle |-> newest + k * d, divider |-> d]] =>
              /\ E \in Seq(AudioFrame) /\ Len(E) = m
              /\ Frames \o E \in Seq(AudioFrame)
              /\ EvenlySpaced(Frames \o E) /\ Spread(Frames \o E)
              /\ LastCycle(Frames \o E) = newest + m * d
              /\ Frames \o E # <<>> => \/ (Frames \o E)[1].cycle <= MaximumDivider
                                       \/ Frames # <<>> /\ (Frames \o E)[1] = Frames[1]
    BY <2>1, <1>1, <1>7
  <2> HIDE DEF newest
  <2>3. QED
    BY <2>2, <1>1, <1>6
<1>9. Len(audioQueue) * FastestDivider <= newest - passedOn
  BY Zenon DEF AudioInv
<1>10. newest \in Nat /\ passedOn \in Nat /\ Len(audioQueue) \in Nat
  BY <1>1, <1>7, FrameParts, Zenon
<1> HIDE DEF newest, passedOn
<1>11. /\ FastestDivider \in Nat \ {0} /\ MaximumDivider \in Nat \ {0}
       /\ divider \in Nat /\ divider <= MaximumDivider /\ SamplePeriod \in Nat
       /\ QueueCapacity \in Nat
       /\ n * divider \in Nat /\ n * FastestDivider \in Nat
       /\ n * FastestDivider <= n * divider
  BY <1>1, <1>6, AudioNumbers, Times
<1> DEFINE more == Len(audioQueue) + n
<1>12. more * FastestDivider <= rendered' - r - passedOn
  <2> DEFINE a == Len(audioQueue) * FastestDivider
             b == n * FastestDivider
             c == n * divider
  <2>1. more * FastestDivider = a + b /\ a \in Int
    BY <1>6, <1>10, <1>11
  <2>2. b \in Nat /\ c \in Nat /\ b <= c /\ a <= newest - passedOn /\ newest + c = rendered' - r
    BY <1>6, <1>9, <1>11, Zenon
  <2> HIDE DEF a, b, c, more
  <2>3. a + b <= rendered' - r - passedOn
    BY <2>1, <2>2, <1>4, <1>6, <1>10
  <2>4. QED
    BY <2>1, <2>3
<1>13. PICK i \in Interrupts \cup {0} :
          passedOn + i + MaximumDivider + (IF asked THEN 0 ELSE SamplePeriod) > target
  BY Zenon DEF AudioInv, passedOn
<1>14. more <= QueueCapacity - 1
  <2>0. i \in 0 .. MaximumDivider
    BY <1>13, AudioNumbers, Zenon
  <2>1. i \in Nat
    BY <2>0, <1>11
  <2>2. (QueueCapacity - 1) * FastestDivider >= SamplePeriod + elapsed + i + MaximumDivider
    BY <1>13, AudioOutputAssumption
  <2>3. passedOn + i + MaximumDivider + SamplePeriod > target
    BY <1>5, <1>13
  <2> DEFINE a == more * FastestDivider
             b == (QueueCapacity - 1) * FastestDivider
  <2>4. a \in Int /\ b \in Int /\ more \in Nat
    BY <1>6, <1>10, <1>11
  <2>5. a < b
    <3> HIDE DEF a, b, more
    <3>1. a <= rendered' - r - passedOn /\ b >= SamplePeriod + elapsed + i + MaximumDivider
      BY <1>12, <2>2 DEF a, b
    <3>2. QED
      BY <3>1, <2>1, <2>3, <2>4, <1>1, <1>2, <1>3, <1>4, <1>6, <1>10, <1>11
  <2>7. more \in Nat /\ ~(QueueCapacity - 1 < more)
    <3> HIDE DEF more
    <3>1. QueueCapacity - 1 < more => b <= a
      BY <2>4, <1>11
    <3>2. QED
      BY <3>1, <2>4, <2>5
  <2>8. QED
    BY <2>7, <1>11
<1>15. audioQueue' = audioQueue \o D
  <2>1. Len(audioQueue \o D) = more
    BY <1>1, <1>8, ConcatProperties
  <2>2. QED
    BY <1>2, <1>14, <2>1 DEF Queued, Newest
<1>16. audioQueue' \in Seq(AudioFrame) /\ Len(audioQueue') = more
  BY <1>1, <1>8, <1>15, ConcatProperties
<1>17. Frames' = Frames \o D
  <2>1. (history \o audioQueue) \o D = history \o (audioQueue \o D)
    <3>1. \A a, b, c \in Seq(AudioFrame) : (a \o b) \o c = a \o (b \o c)
      BY ConcatAssociative
    <3>2. history \in Seq(AudioFrame) /\ audioQueue \in Seq(AudioFrame) /\ D \in Seq(AudioFrame)
      BY <1>1, <1>8
    <3>3. QED
      BY <3>1, <3>2
  <2>2. QED
    BY <1>2, <1>15, <2>1, Zenon DEF Frames
<1>18. LastCycle(Frames') = rendered' - accumulator'
  BY <1>2, <1>6, <1>8, <1>17
<1>19. LastCycle(history') = passedOn
  BY <1>2 DEF passedOn
<1>20. /\ cycle' \in Nat /\ rendered' \in Nat /\ accumulator' \in Nat /\ target' \in Nat
       /\ rendered' <= cycle' /\ accumulator' <= rendered' /\ accumulator' < MaximumDivider
       /\ rendered' < target' + elapsed
  BY <1>1, <1>2, <1>3, <1>4, <1>6, <1>11
<1>21. /\ divider' \in Dividers /\ asked' = FALSE /\ asked' \in BOOLEAN
       /\ history' \in Seq(AudioFrame)
  BY <1>1, <1>2, <1>5, Zenon
<1>22. Frames' # <<>> => Frames'[1].cycle <= MaximumDivider \/ Len(history') = HistoryCapacity
  <2>1. Frames # <<>> => Frames[1].cycle <= MaximumDivider \/ Len(history) = HistoryCapacity
    BY Zenon DEF AudioInv
  <2>2. QED
    BY <1>2, <1>8, <1>17, <2>1
<1>23. passedOn + i + MaximumDivider + (IF asked' THEN 0 ELSE SamplePeriod) > target'
  BY <1>2, <1>13, Zenon
<1>24. Len(audioQueue') * FastestDivider <= LastCycle(Frames') - LastCycle(history')
  BY <1>2, <1>12, <1>16, <1>18, <1>19, Zenon
<1>25. EvenlySpaced(Frames') /\ Spread(Frames')
  BY <1>8, <1>17, Zenon
<1>26. \E x \in Interrupts \cup {0} : cycle' = rendered' + x /\ (asked' => cycle' >= target')
  BY <1>2, <1>21, Zenon
<1>27. \E x \in Interrupts \cup {0} :
          LastCycle(history') + x + MaximumDivider + (IF asked' THEN 0 ELSE SamplePeriod)
            > target'
  BY <1>19, <1>23, Zenon
<1>28. \E s \in Slices : rendered' < target' + s
  BY <1>20
<1> HIDE DEF more
<1>29. QED
  BY <1>16, <1>18, <1>20, <1>21, <1>22, <1>24, <1>25, <1>26, <1>27, <1>28, Zenon DEF AudioInv

\* The frames move on: the resampler keeps the newest of them.
LEMMA DrainKeeps ==
    ASSUME AudioInv, Drain
    PROVE  AudioInv'
<1> DEFINE newest == LastCycle(Frames)
<1>1. /\ cycle \in Nat /\ rendered \in Nat /\ accumulator \in Nat /\ target \in Nat
      /\ rendered <= cycle /\ accumulator <= rendered /\ accumulator < MaximumDivider
      /\ divider \in Dividers /\ history \in Seq(AudioFrame) /\ audioQueue \in Seq(AudioFrame)
      /\ EvenlySpaced(Frames) /\ Spread(Frames) /\ newest = rendered - accumulator
      /\ Frames # <<>> => Frames[1].cycle <= MaximumDivider \/ Len(history) = HistoryCapacity
  BY Zenon DEF AudioInv
<1>2. /\ cycle >= target /\ asked' = TRUE /\ audioQueue' = <<>>
      /\ history' = Newest(Frames, HistoryCapacity)
      /\ cycle' = cycle /\ rendered' = rendered /\ divider' = divider
      /\ accumulator' = accumulator /\ target' = target
  BY Zenon DEF Drain, Pushed, Frames
<1>3. Frames \in Seq(AudioFrame) /\ Len(Frames) = Len(history) + Len(audioQueue)
  BY <1>1, ConcatProperties DEF Frames
<1>4. HistoryCapacity \in Nat \ {0}
  BY AudioNumbers, Zenon
<1>5. /\ history' \in Seq(AudioFrame)
      /\ Len(history') = IF Len(Frames) <= HistoryCapacity THEN Len(Frames) ELSE HistoryCapacity
      /\ history' = <<>> <=> Frames = <<>>
      /\ LastCycle(history') = newest
      /\ EvenlySpaced(history') /\ Spread(history')
      /\ Len(Frames) <= HistoryCapacity => history' = Frames
  <2>1. \A n \in Nat \ {0} :
           /\ Newest(Frames, n) \in Seq(AudioFrame)
           /\ Len(Newest(Frames, n)) = IF Len(Frames) <= n THEN Len(Frames) ELSE n
           /\ Newest(Frames, n) = <<>> <=> Frames = <<>>
           /\ LastCycle(Newest(Frames, n)) = LastCycle(Frames)
           /\ EvenlySpaced(Frames) => EvenlySpaced(Newest(Frames, n))
           /\ Spread(Frames) => Spread(Newest(Frames, n))
           /\ Len(Frames) <= n => Newest(Frames, n) = Frames
    BY <1>3, NewestKeeps, Zenon
  <2>2. QED
    BY <2>1, <1>1, <1>2, <1>4, Zenon
<1>6. Frames' = history'
  <2>1. history' \o <<>> = history'
    BY <1>5, ConcatEmptySeq
  <2>2. QED
    BY <1>2, <2>1, Zenon DEF Frames
<1>7. Frames' # <<>> => Frames'[1].cycle <= MaximumDivider \/ Len(history') = HistoryCapacity
  <2> SUFFICES ASSUME Frames' # <<>>
               PROVE  Frames'[1].cycle <= MaximumDivider \/ Len(history') = HistoryCapacity
    OBVIOUS
  <2>1. CASE Len(Frames) <= HistoryCapacity
    <3>1. Frames' = Frames
      BY <2>1, <1>5, <1>6, Zenon
    <3>2. Len(history) \in Nat /\ Len(audioQueue) \in Nat
      BY <1>1, FrameParts, Zenon
    <3>3. Len(history) = HistoryCapacity => Len(history') = HistoryCapacity
      BY <3>2, <2>1, <1>3, <1>4, <1>5
    <3>4. QED
      BY <3>1, <3>3, <1>1, Zenon
  <2>2. CASE ~(Len(Frames) <= HistoryCapacity)
    BY <2>2, <1>5, Zenon
  <2>3. QED
    BY <2>1, <2>2
<1>8. PICK i \in Interrupts \cup {0} : cycle = rendered + i
  BY Zenon DEF AudioInv
<1>9. LastCycle(history') + i + MaximumDivider + (IF asked' THEN 0 ELSE SamplePeriod) > target'
  <2>1. i \in 0 .. MaximumDivider /\ MaximumDivider \in Nat
    BY AudioNumbers, Zenon
  <2>2. newest + i + MaximumDivider > target
    BY <2>1, <1>1, <1>2, <1>8
  <2>3. LastCycle(history') + i + MaximumDivider + 0 > target'
    <3> HIDE DEF newest
    <3>1. QED
      BY <2>1, <2>2, <1>1, <1>2, <1>5
  <2>4. QED
    BY <2>3, <1>2
<1>10. Len(audioQueue') * FastestDivider <= LastCycle(Frames') - LastCycle(history')
  <2>1. Len(audioQueue') = 0
    BY <1>2, EmptySeq
  <2>2. LastCycle(Frames') = newest /\ LastCycle(history') = newest
    BY <1>5, <1>6, Zenon
  <2> HIDE DEF newest
  <2>3. QED
    BY <2>1, <2>2, <1>1, AudioNumbers
<1>11. audioQueue' \in Seq(AudioFrame)
  BY <1>2, EmptySeq
<1>12. asked' \in BOOLEAN /\ (asked' => audioQueue' = <<>>)
  BY <1>2, Zenon
<1>13. rendered' = 0 \/ \E s \in Slices : rendered' < target' + s
  <2>1. rendered = 0 \/ \E s \in Slices : rendered < target + s
    BY Zenon DEF AudioInv
  <2>2. QED
    BY <2>1, <1>2, Zenon
<1>14. /\ cycle' \in Nat /\ rendered' \in Nat /\ accumulator' \in Nat /\ target' \in Nat
       /\ rendered' <= cycle' /\ accumulator' <= rendered' /\ accumulator' < MaximumDivider
       /\ divider' \in Dividers /\ history' \in Seq(AudioFrame)
       /\ LastCycle(Frames') = rendered' - accumulator'
       /\ EvenlySpaced(Frames') /\ Spread(Frames')
  BY <1>1, <1>2, <1>5, <1>6, Zenon
<1>15. \E x \in Interrupts \cup {0} : cycle' = rendered' + x /\ (asked' => cycle' >= target')
  BY <1>2, <1>8, Zenon
<1>16. \E x \in Interrupts \cup {0} :
          LastCycle(history') + x + MaximumDivider + (IF asked' THEN 0 ELSE SamplePeriod)
            > target'
  BY <1>9, Zenon
<1>17. QED
  BY <1>7, <1>10, <1>11, <1>12, <1>13, <1>14, <1>15, <1>16, Zenon DEF AudioInv

\* Every step keeps the invariant.
LEMMA AudioInvStep == AudioInv /\ [AudioOutputNext]_audioOutputVars => AudioInv'
<1> SUFFICES ASSUME AudioInv, [AudioOutputNext]_audioOutputVars
             PROVE  AudioInv'
  OBVIOUS
<1>1. ASSUME NEW elapsed \in Slices, NEW served \in Interrupts \cup {0},
             Slice(elapsed, served)
      PROVE  AudioInv'
  BY <1>1, SliceKeeps
<1>2. ASSUME NEW d \in Dividers, SetActiveVoices(d)
      PROVE  AudioInv'
  BY <1>2, Zenon DEF SetActiveVoices, AudioInv, Frames
<1>3. CASE Drain
  BY <1>3, DrainKeeps
<1>4. CASE NextSample
  <2>1. /\ asked /\ target' = target + SamplePeriod /\ asked' = FALSE
        /\ cycle' = cycle /\ rendered' = rendered /\ divider' = divider
        /\ accumulator' = accumulator /\ audioQueue' = audioQueue /\ history' = history
    BY <1>4, Zenon DEF NextSample
  <2>2. Frames' = Frames
    BY <2>1, Zenon DEF Frames
  <2>3. /\ rendered \in Nat /\ target \in Nat /\ SamplePeriod \in Nat
        /\ target' \in Nat /\ target <= target'
    BY <2>1, AudioNumbers DEF AudioInv
  <2>4. rendered' = 0 \/ \E s \in Slices : rendered' < target' + s
    <3>1. rendered = 0 \/ \E s \in Slices : rendered < target + s
      BY Zenon DEF AudioInv
    <3>2. \A s \in Slices : s \in Nat
      BY AudioNumbers
    <3>3. QED
      BY <3>1, <3>2, <2>1, <2>3
  <2>5. PICK i \in Interrupts \cup {0} :
          LastCycle(history) + i + MaximumDivider + (IF asked THEN 0 ELSE SamplePeriod) > target
    BY Zenon DEF AudioInv
  <2>6. LastCycle(history') + i + MaximumDivider + (IF asked' THEN 0 ELSE SamplePeriod) > target'
    <3>1. LastCycle(history) \in Nat
      <4>1. history \in Seq(AudioFrame)
        BY Zenon DEF AudioInv
      <4>2. QED
        BY <4>1, FrameParts, Zenon
    <3>2. i \in 0 .. MaximumDivider /\ MaximumDivider \in Nat
      BY AudioNumbers, Zenon
    <3>3. LastCycle(history') = LastCycle(history)
      BY <2>1
    <3>4. LastCycle(history) + i + MaximumDivider + 0 > target
      BY <2>1, <2>5
    <3>5. LastCycle(history') + i + MaximumDivider + SamplePeriod > target'
      BY <2>1, <2>3, <3>1, <3>2, <3>3, <3>4
    <3>6. QED
      BY <2>1, <3>5
  <2>7. \E x \in Interrupts \cup {0} : cycle' = rendered' + x /\ (asked' => cycle' >= target')
    <3>1. PICK x \in Interrupts \cup {0} : cycle = rendered + x
      BY Zenon DEF AudioInv
    <3>2. QED
      BY <3>1, <2>1, Zenon
  <2>8. \E x \in Interrupts \cup {0} :
          LastCycle(history') + x + MaximumDivider + (IF asked' THEN 0 ELSE SamplePeriod)
            > target'
    BY <2>6, Zenon
  <2>9. asked' \in BOOLEAN /\ (asked' => audioQueue' = <<>>)
    BY <2>1, Zenon
  <2>10. QED
    BY <2>1, <2>2, <2>3, <2>4, <2>7, <2>8, <2>9, Zenon DEF AudioInv
<1>5. CASE UNCHANGED audioOutputVars
  BY <1>5, Zenon DEF audioOutputVars, AudioInv, Frames
<1>6. QED
  BY <1>1, <1>2, <1>3, <1>4, <1>5, Zenon DEF AudioOutputNext

(***************************************************************************)
(* For every choice of dividers, slices and capacities of the assumption,  *)
(* the frames are one divider apart without a gap, and a DAW sample has    *)
(* its taps behind the point that is heard after the latency and those     *)
(* before it after twice the latency.  (plugin_render_audio(),             *)
(* ProbeMachineSink::runUntil(), BandlimitedResampler::output())           *)
(***************************************************************************)
THEOREM OutputHasTaps == AudioOutputSpec => []OutputHasItsTaps
<1>1. AudioOutputInit => AudioInv
  BY AudioInvInit
<1>2. AudioInv /\ [AudioOutputNext]_audioOutputVars => AudioInv'
  BY AudioInvStep
<1>3. AudioInv => OutputHasItsTaps
  BY AudioInvMeansIt
<1>4. QED
  BY <1>1, <1>2, <1>3, PTL DEF AudioOutputSpec
=================================================================================
