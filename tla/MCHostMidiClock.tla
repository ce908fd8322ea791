---------------------------- MODULE MCHostMidiClock ----------------------------
(* HostMidiClock where a stopped transport is moved: a tick every 7 units, *)
(* tempos of 1 and 3 units a sample.                                       *)
EXTENDS HostMidiClock

===============================================================================
