--------------------------- MODULE MCProcessorsPanel ---------------------------
(***************************************************************************)
(* Small instances of the slices of the main loop, of the keypad's         *)
(* processor and of the wires to panel, display and MIDI.  As in           *)
(* MCStorageSound the parts share no variable, and one behaviour works one *)
(* of them.                                                                *)
(***************************************************************************)
EXTENDS MachineSlices, LivePanel, KpcDevice, VfdDecoder, Hc11, MidiIn, MidiOut

VARIABLE unit     \* at work

\* Each mask and each command has something of both channels.
SomeMasks == {{"rxB", "timer"}, {"rxA", "txA", "txB"}}
SomeCommands == {{"rxOn", "txOn"}, {"rxOff", "rxReset", "txOff"}}

\* The firmware enables the receiver and transmitter of the serial line, or the
\* transfer; the timer runs with both.
LineOrTransfer == {<<{"RIE", "TIE", "OC4"}, "SCI">>, <<{"SPIE", "OC4", "TCIE"}, "none">>}

\* Bytes of every class the decoder tells apart: commands, addresses, levels,
\* markers, text, digits with and without a point.
EveryClass ==
    {0, 1, 2, 3, 18, 21, 33, 42, 65, 94, 96, 98, 99, 101, 102, 103, 105, 106,
     114, 115, 116, 117, 118, 247}
SomeStarts == {<<>>, <<21, 115, 0, 247>>, <<65, 98, 96, 3>>, <<98, 33, 99>>, <<0, 96, 1>>}

\* A clock, a note (3 bytes), a program change (2) and a SysEx; blocks that give
\* the wire more than it holds.
Event(at, message) == [at |-> at, message |-> message]
SomeLengths == [c |-> 1, n |-> 3, p |-> 2, x |-> 3]
SomeBlocks ==
    {[clock |-> <<>>, midi |-> <<>>],
     [clock |-> <<Event(1, "c")>>, midi |-> <<Event(0, "n"), Event(1, "p"), Event(2, "n")>>],
     [clock |-> <<Event(0, "c")>>,
      midi |-> <<Event(0, "p"), Event(0, "x"), Event(1, "n"), Event(1, "n")>>]}

\* One key of a track and ENTER; each is shown by one frame of the display.
OneFrame == [k \in Keys |-> 1]

ASSUME ProcessorsPanelAssumption == MidiInAssumption /\ MidiOutAssumption

\* Where a part may begin in several states, it rests in one of them.
Resting ==
    /\ unit # "cpu" => reg.a = 0 /\ reg.b = 0 /\ reg.x = 0 /\ ccr = {"C", "N"}
    /\ unit # "display" => coming.first = <<>>

PartsInit ==
    /\ unit \in {"slices", "cpu", "keypad", "display", "midiIn", "midiOut", "live"}
    /\ Init
    /\ Hc11Init /\ KpcInit /\ VfdInit /\ MidiInInit /\ MidiOutInit
    /\ LivePanelInit
    /\ Resting

SlicesStep ==
    /\ unit = "slices" /\ Next
    /\ UNCHANGED <<unit, hc11Vars, kpcVars, vfdVars, midiInVars, midiOutVars, livePanelVars>>
CpuStep ==
    /\ unit = "cpu" /\ Hc11Next
    /\ UNCHANGED <<unit, vars, kpcVars, vfdVars, midiInVars, midiOutVars, livePanelVars>>
KeypadStep ==
    /\ unit = "keypad" /\ KpcNext
    /\ UNCHANGED <<unit, vars, hc11Vars, vfdVars, midiInVars, midiOutVars, livePanelVars>>
DisplayStep ==
    /\ unit = "display" /\ VfdNext
    /\ UNCHANGED <<unit, vars, hc11Vars, kpcVars, midiInVars, midiOutVars, livePanelVars>>
MidiInStep ==
    /\ unit = "midiIn" /\ MidiInNext
    /\ UNCHANGED <<unit, vars, hc11Vars, kpcVars, vfdVars, midiOutVars, livePanelVars>>
MidiOutStep ==
    /\ unit = "midiOut" /\ MidiOutNext
    /\ UNCHANGED <<unit, vars, hc11Vars, kpcVars, vfdVars, midiInVars, livePanelVars>>
LiveStep ==
    /\ unit = "live" /\ LivePanelNext
    /\ UNCHANGED <<unit, vars, hc11Vars, kpcVars, vfdVars, midiInVars, midiOutVars>>

\* The other parts may come to the bound of their behaviours and stop.
Rest ==
    /\ unit # "slices"
    /\ UNCHANGED <<unit, vars, hc11Vars, kpcVars, vfdVars, midiInVars, midiOutVars, livePanelVars>>

PartsNext ==
    SlicesStep \/ CpuStep \/ KeypadStep \/ DisplayStep \/ MidiInStep \/ MidiOutStep
        \/ LiveStep \/ Rest

\* The fairness of MachineSlices; the other parts need none.
PartsSpec ==
    /\ PartsInit
    /\ [][PartsNext]_<<unit, vars, hc11Vars, kpcVars, vfdVars, midiInVars, midiOutVars, livePanelVars>>
    /\ WF_vars(unit = "slices" /\ (EndMain \/ EndDma \/ EndDuart \/ EndVoices))
===============================================================================
