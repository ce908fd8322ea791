------------------------------- MODULE Voices -------------------------------
(***************************************************************************)
(* The ES5505 voice chip (native/es5505_core.c), its registers on the bus  *)
(* of the 68000 (rom_probe.c), and the gate that keeps restored voices off *)
(* the main output (plugin_render_audio(), plugin_capture_keyon()).        *)
(*                                                                         *)
(* A voice walks through the sample memory by "frequency" and, at an end   *)
(* of its range, stops, starts over or turns round, and sounds on one bus: *)
(* 0, 2 and 3 go to the effects processor, whose output is the main pair,  *)
(* and 1 to 3 to outputs of their own (Aux 1, Bus 2, Bus 3).  Sample data, *)
(* filters and volumes are left out, and so are the registers that only    *)
(* hold them.                                                              *)
(***************************************************************************)
EXTENDS Naturals, FiniteSets

CONSTANTS Voices,      \* voice numbers, 0 .. ES5505_VOICES - 1
          Top,         \* ACCUMULATOR_MASK
          Frequencies, \* pitch values the 68000 writes
          Ranges,      \* <<start, end>> of the sounds it plays
          Buses,       \* buses the voices are put on, of 0 .. 3
          QuietFrames, \* frames of quiet that open the gate (2048)
          MaxWrites    \* bound: register writes in one behaviour

Main == 0              \* the bus, and the output, behind the gate

ASSUME VoicesAssumption ==
    /\ Voices \subseteq 0 .. 31 /\ 0 \in Voices
    /\ Top \in Nat /\ Frequencies \subseteq 0 .. Top
    /\ Ranges \subseteq (0 .. Top) \X (0 .. Top)
    /\ Buses \subseteq 0 .. 3 /\ Main \in Buses
    /\ QuietFrames \in Nat \ {0} /\ MaxWrites \in Nat

VARIABLES voice,      \* the voices' registers
          active,     \* active_voice, the last voice that is rendered
          vector,     \* irq_vector: a voice, or NoVector
          gate,       \* plugin_restored_*: voices, quiet frames, suppressed
          restored,   \* voices that sounded in the restored snapshot and have
                      \* neither stopped since nor been overtaken by a key-on
          heard,      \* outputs open to a restored voice in the last frame
          writes
voicesVars == <<voice, active, vector, gate, restored, heard, writes>>

NoVector == 128
Loops == {"once", "loop", "bidirectional"}
Position == 0 .. Top
VoiceState == [stop : BOOLEAN, loop : Loops, irqEnable : BOOLEAN, irq : BOOLEAN,
               reverse : BOOLEAN, bus : Buses, frequency : Frequencies \cup {0},
               start : Position, end : Position, accumulator : Position]
Modular(n) == (n + Top + 1) % (Top + 1)
Running(v) == ~voice[v].stop

Silent == [stop |-> TRUE, loop |-> "once", irqEnable |-> FALSE, irq |-> FALSE,
           reverse |-> FALSE, bus |-> Main, frequency |-> 0, start |-> 0,
           end |-> 0, accumulator |-> 0]
OpenGate == [voices |-> {}, quiet |-> 0, shut |-> FALSE]

VoicesInit ==                                       \* es5505_core_init()
    /\ voice = [v \in Voices |-> Silent]
    /\ active \in Voices                            \* 31; the OS chooses
    /\ vector = NoVector
    /\ gate = OpenGate
    /\ restored = {}
    /\ heard = {}
    /\ writes = 0

(***************************************************************************)
(* es5505_core_write(), page v.  A voice that leaves the stop state with a *)
(* range of its own is a key-on (es5505_write16()): it opens the gate.     *)
(***************************************************************************)
WriteVoiceControl(v) ==
    \E stop, irqEnable, reverse \in BOOLEAN, loop \in Loops, bus \in Buses :
        LET new == [voice[v] EXCEPT !.stop = stop, !.irqEnable = irqEnable, !.irq = FALSE,
                        !.reverse = reverse, !.loop = loop, !.bus = bus]
            keyOn == ~Running(v) /\ ~stop /\ new.start < new.end
        IN /\ voice' = [voice EXCEPT ![v] = new]
           /\ gate' = IF keyOn THEN OpenGate ELSE gate
           /\ restored' = IF keyOn THEN {} ELSE IF stop THEN restored \ {v} ELSE restored
           /\ UNCHANGED <<active, vector, heard>>

WriteRange(v) ==                     \* registers 1 to 5, 10 and 11
    \E range \in Ranges, f \in Frequencies, atEnd \in BOOLEAN :
        /\ voice' = [voice EXCEPT ![v] =
                       [@ EXCEPT !.start = range[1], !.end = range[2], !.frequency = f,
                           !.accumulator = IF atEnd THEN range[2] ELSE range[1]]]
        /\ UNCHANGED <<active, vector, gate, restored, heard>>

\* Register 13; the OS chooses how many voices run.
WriteActive ==
    \E last \in Voices :
        /\ active' = last
        /\ UNCHANGED <<voice, vector, gate, restored, heard>>

WriteRegister ==
    /\ writes < MaxWrites
    /\ \/ \E v \in Voices : WriteVoiceControl(v) \/ WriteRange(v)
       \/ WriteActive
    /\ writes' = writes + 1

\* A byte read of register 14: the vector is handed over and cleared.
ReadVector ==
    /\ vector # NoVector
    /\ vector' = NoVector
    /\ UNCHANGED <<voice, active, gate, restored, heard, writes>>

(***************************************************************************)
(* handle_end(): the accumulator a voice steps to, and what it does when   *)
(* that is past the end it runs to.                                        *)
(***************************************************************************)
Stepped(x) ==
    [x EXCEPT !.accumulator =
        Modular(IF x.reverse THEN @ - x.frequency ELSE @ + x.frequency)]

Passed(x) == IF x.reverse THEN x.accumulator < x.start ELSE x.accumulator > x.end

\* Slip: a voice that turns round at its start is put back on the wrong side.
AtEndMirrored(x) ==
    CASE x.loop = "loop" -> [x EXCEPT !.accumulator =
            Modular(IF x.reverse THEN x.end - (x.start - @) ELSE x.start + @ - x.end)]
      [] x.loop = "bidirectional" -> [x EXCEPT !.reverse = ~@, !.accumulator =
            Modular(IF x.reverse THEN x.start - (x.start - @) ELSE x.end - (@ - x.end))]
      [] x.loop = "once" -> [x EXCEPT !.stop = TRUE]

AtEnd(x) ==
    CASE x.loop = "loop" -> [x EXCEPT !.accumulator =
            Modular(IF x.reverse THEN x.end - (x.start - @) ELSE x.start + @ - x.end)]
      [] x.loop = "bidirectional" -> [x EXCEPT !.reverse = ~@, !.accumulator =
            Modular(IF x.reverse THEN x.start + (x.start - @) ELSE x.end - (@ - x.end))]
      [] x.loop = "once" -> [x EXCEPT !.stop = TRUE]

Announced(x) == [x EXCEPT !.irq = @ \/ x.irqEnable]

RenderedVoice(x) == LET y == Stepped(x) IN IF Passed(y) THEN AtEnd(Announced(y)) ELSE y

(***************************************************************************)
(* es5505_core_render_buses(), one frame: the voices up to "active" in     *)
(* turn.  The vector takes one voice; the others keep their flag.          *)
(***************************************************************************)
Rendered == [v \in Voices |->
                IF v <= active /\ Running(v) THEN RenderedVoice(voice[v]) ELSE voice[v]]

Flagged == {v \in Voices : v <= active /\ Running(v) /\ Rendered[v].irq}

FirstOf(S) == CHOOSE v \in S : \A w \in S : v <= w

\* Slip: the gate opens on quiet frames although a restored voice still runs.
PassingByLevel(loud) ==
    LET left == {v \in gate.voices : ~voice'[v].stop}
        quiet == IF loud THEN 0 ELSE gate.quiet + 1
    IN IF ~gate.shut THEN [gate EXCEPT !.voices = left]
       ELSE IF quiet >= QuietFrames THEN [voices |-> left, quiet |-> quiet, shut |-> FALSE]
       ELSE [voices |-> left, quiet |-> quiet, shut |-> TRUE]

(***************************************************************************)
(* The main pair of the frame passes the gate.  "loud": the effects        *)
(* processor's output is not yet within one step of silence.               *)
(***************************************************************************)
Passing(loud) ==
    LET left == {v \in gate.voices : ~voice'[v].stop}
        quiet == IF left = {} /\ ~loud THEN gate.quiet + 1 ELSE 0
    IN IF ~gate.shut THEN [gate EXCEPT !.voices = left]
       ELSE IF quiet >= QuietFrames THEN [voices |-> left, quiet |-> quiet, shut |-> FALSE]
       ELSE [voices |-> left, quiet |-> quiet, shut |-> TRUE]

\* The buses besides Main go to their outputs as they are rendered.
Ungated ==
    {voice[v].bus : v \in {w \in restored : w <= active}} \ {Main}

Render ==
    /\ IF vector = NoVector /\ Flagged # {}
         THEN /\ vector' = FirstOf(Flagged)
              /\ voice' = [Rendered EXCEPT ![FirstOf(Flagged)].irq = FALSE]
         ELSE /\ vector' = vector
              /\ voice' = Rendered
    /\ \E loud \in BOOLEAN : gate' = Passing(loud)
    /\ restored' = {v \in restored : ~voice'[v].stop}
    /\ heard' = (IF gate'.shut THEN {} ELSE {Main}) \cup Ungated
    /\ UNCHANGED <<active, writes>>

(***************************************************************************)
(* load_state() of a snapshot taken of this machine: the voices go on, and *)
(* the gate is shut while any of them sounds.                              *)
(***************************************************************************)
RestoreVoices ==
    LET sounding == {v \in Voices : Running(v)}
    IN /\ writes < MaxWrites
       /\ gate' = [voices |-> sounding, quiet |-> 0, shut |-> sounding # {}]
       /\ restored' = sounding
       /\ heard' = {}
       /\ writes' = writes + 1
       /\ UNCHANGED <<voice, active, vector>>

VoicesNext == WriteRegister \/ ReadVector \/ Render \/ RestoreVoices

VoicesSpec == VoicesInit /\ [][VoicesNext]_voicesVars

-----------------------------------------------------------------------------
VoicesTypeOK ==
    /\ voice \in [Voices -> VoiceState]
    /\ active \in Voices
    /\ vector \in Voices \cup {NoVector}
    /\ gate \in [voices : SUBSET Voices, quiet : 0 .. QuietFrames, shut : BOOLEAN]
    /\ restored \subseteq Voices
    /\ heard \subseteq Buses
    /\ writes \in 0 .. MaxWrites

(***************************************************************************)
(* As long as a voice that sounded in the restored snapshot still sounds   *)
(* and the OS has keyed no new voice, the main output is shut: however the *)
(* voices end, are rewritten, change their bus or are taken out of the     *)
(* rendering, a restore brings back no note there that nobody plays.       *)
(* (plugin_render_audio(), eps16_probe_machine_load_state())               *)
(***************************************************************************)
RestoredNotesSilent == restored # {} => Main \notin heard

(***************************************************************************)
(* What the comment in plugin_capture_keyon() says, that audio resumes     *)
(* with the first new voice of the OS, on every output: no restored voice  *)
(* is heard before.  The code gates the main pair only.                    *)
(***************************************************************************)
RestoredHeardNowhere == restored # {} => heard = {}

Inside(x) == x.start <= x.accumulator /\ x.accumulator <= x.end

\* The ranges in which the unsigned accumulator cannot wrap round.
RoomToTurn(x) ==
    /\ x.frequency <= x.end - x.start
    /\ x.end + x.frequency <= Top
    /\ x.frequency <= x.start

(***************************************************************************)
(* A looping voice that is inside its range stays there in a frame, when   *)
(* the range is longer than a step and does not touch the ends of the      *)
(* memory.  (handle_end())                                                 *)
(***************************************************************************)
StaysInLoop ==
    [][Render => \A v \in Voices :
          (voice[v].loop # "once" /\ RoomToTurn(voice[v]) /\ Inside(voice[v])) => Inside(voice'[v])]_voicesVars

=============================================================================
