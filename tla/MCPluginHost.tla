------------------------------ MODULE MCPluginHost ------------------------------
(***************************************************************************)
(* Small instances of what the plug-in does for its host: its lifecycle,   *)
(* with two projects whose machines were saved early and late in their     *)
(* lives so that rebasing moves the cycle counter both ways; the MIDI      *)
(* clock, with a tick every 7 units and tempos of 1 to 5 units a sample so *)
(* that ticks fall between samples and round into the next block; and the  *)
(* voices, with the gate a restore shuts.  The parts share no variable     *)
(* with each other, so one behaviour works one of them ("unit") and the    *)
(* others rest in an initial state.                                        *)
(***************************************************************************)
EXTENDS PluginHost, HostMidiClock, Voices

CONSTANTS early, late

VARIABLE unit     \* the part at work

MCSavedCycles == [project \in Project |-> IF project = early THEN 3 ELSE 11]
SomeRanges == {<<2, 4>>, <<0, 6>>}

PartsInit ==
    /\ unit \in {"lifecycle", "clock", "voices"}
    /\ Init /\ ClockInit /\ VoicesInit
    /\ unit # "lifecycle" => resources
    /\ unit # "voices" => active = 0

LifecycleStep ==
    /\ unit = "lifecycle" /\ Next
    /\ UNCHANGED <<unit, clockVars, voicesVars>>
ClockStep ==
    /\ unit = "clock" /\ ClockNext
    /\ UNCHANGED <<unit, vars, voicesVars>>
VoicesStep ==
    /\ unit = "voices" /\ VoicesNext
    /\ UNCHANGED <<unit, vars, clockVars>>

PartsNext == LifecycleStep \/ ClockStep \/ VoicesStep

PartsSpec == PartsInit /\ [][PartsNext]_<<unit, vars, clockVars, voicesVars>>
===============================================================================
