----------------------------- MODULE HostMidiClock -----------------------------
(***************************************************************************)
(* The MIDI clock the plug-in derives from the DAW's transport             *)
(* (HostMidiClock in EmulatorBridge.cpp): one call of generate() per audio *)
(* block turns the block's position, tempo and play state into Start,      *)
(* Continue, Stop and timing-clock bytes for the EPS.                      *)
(*                                                                         *)
(* Song positions are whole numbers of a unit of which UnitsPerTick make   *)
(* one clock tick (1/24 quarter note) and rate make one sample at the      *)
(* block's tempo; the code's doubles are exact at this grain, so its       *)
(* epsilons (1e-7, 1e-9) do not appear.                                    *)
(*                                                                         *)
(* eps is the sequencer that listens: it is started, stopped and stepped   *)
(* by the bytes alone, and shows whether they tell it the truth.           *)
(***************************************************************************)
EXTENDS Integers, FiniteSets

CONSTANTS
    UnitsPerTick,   \* song units in one timing-clock tick
    Rates,          \* song units per sample, one for each tempo
    Samples,        \* samples in a block
    Capacity,       \* room in the event array, 1024 in the plug-in
    MaxPosition,    \* bound: the host's blocks start in 0 .. MaxPosition
    MaxTick,        \* bound: no block plays once the EPS is beyond this tick
    HostMay         \* what else the host does: "relocate", "reprepare"

ASSUME UnitsAssumption == UnitsPerTick \in Nat \ {0}
ASSUME RatesAssumption == Rates \subseteq Nat \ {0} /\ Rates # {}
ASSUME SamplesAssumption == Samples \in Nat \ {0}
\* The event array has room for two commands and the ticks of a block at any
\* tempo, also when the block starts as far back as passes for no jump and the
\* block before it was rounded at another tempo.
ASSUME CapacityAssumption ==
    /\ Capacity \in Nat /\ Capacity >= 3
    /\ \A r, s \in Rates :
          r * (2 * Samples + 3) + s <= 2 * (Capacity - 2) * UnitsPerTick
ASSUME MaxPositionAssumption == MaxPosition \in Nat /\ MaxTick \in Nat
ASSUME HostMayAssumption == HostMay \subseteq {"relocate", "reprepare"}

VARIABLES
    expectedPpq,    \* where the next block should start if nothing jumps
    nextClockTick,  \* number of the next tick to send
    transportKnown, \* a block was seen since reset()
    wasPlaying,     \* the play state of that block
    eps,            \* the listening sequencer: is it running, where it is
    adrift          \* what the host did since the last Start that may have
                    \* put clock and EPS out of step, part of HostMay

clockVars == <<expectedPpq, nextClockTick, transportKnown, wasPlaying, eps, adrift>>

Distance(a, b) == IF a <= b THEN b - a ELSE a - b

CeilDiv(a, b) == -((-a) \div b)

ClockInit ==
    /\ expectedPpq = 0
    /\ nextClockTick = 0
    /\ transportKnown = FALSE
    /\ wasPlaying = FALSE
    /\ eps = [running |-> FALSE, tick |-> 0]
    /\ adrift = {}

\* Sample of the block on which a tick falls, to the nearest; before the
\* block it is negative.
TickOffset(tick, position, rate) ==
    (2 * (tick * UnitsPerTick - position) + rate) \div (2 * rate)

Discontinuity(playing, position, rate) ==
    /\ transportKnown /\ wasPlaying /\ playing
    /\ Distance(position, expectedPpq) > 2 * rate

\* Slip: Stop is only sent when the position jumps.
SendsStopOnJump(playing, position, rate) ==
    Discontinuity(playing, position, rate)

SendsStop(playing, position, rate) ==
    /\ transportKnown /\ wasPlaying
    /\ ~playing \/ Discontinuity(playing, position, rate)

SendsRun(playing, position, rate) ==
    /\ playing
    /\ \/ ~transportKnown
       \/ ~wasPlaying
       \/ Discontinuity(playing, position, rate)

\* The byte that starts the EPS is Continue rather than Start.
ContinuesFromStop(position, rate) ==
    /\ transportKnown /\ ~wasPlaying
    /\ Distance(position, expectedPpq) <= 2 * rate

\* Slip: every block counts its ticks from its own start.
FirstTickOfBlock(playing, position, rate) ==
    IF playing /\ ~ContinuesFromStop(position, rate)
    THEN CeilDiv(position, UnitsPerTick)
    ELSE nextClockTick

\* A Start tells the EPS anew where it is.
StartsAnew(playing, position, rate) ==
    SendsRun(playing, position, rate) /\ ~ContinuesFromStop(position, rate)

\* The tick counter after Start or Continue.
FirstTick(playing, position, rate) ==
    IF StartsAnew(playing, position, rate)
    THEN CeilDiv(position, UnitsPerTick)
    ELSE nextClockTick

\* The ticks of the block, from first on, as far as the array has room.
DueTicks(first, position, rate, room) ==
    {tick \in first .. first + room - 1 :
        TickOffset(tick, position, rate) < Samples}

CommandCount(playing, position, rate) ==
    (IF SendsStop(playing, position, rate) THEN 1 ELSE 0)
        + (IF SendsRun(playing, position, rate) THEN 1 ELSE 0)

\* What the bytes do to the EPS: Start rewinds it to the tick the DAW is at,
\* Continue resumes where it was, each timing clock advances it by one.
Hear(playing, position, rate, ticks) ==
    LET resumed ==
            IF SendsRun(playing, position, rate)
            THEN [running |-> TRUE,
                  tick |-> IF ContinuesFromStop(position, rate) THEN eps.tick
                           ELSE CeilDiv(position, UnitsPerTick)]
            ELSE [running |-> eps.running
                                /\ ~SendsStop(playing, position, rate),
                  tick |-> eps.tick]
    IN  [resumed EXCEPT !.tick = @ + ticks]

Generate(playing, position, rate) ==
    LET first == FirstTick(playing, position, rate)
        ticks == IF playing
                 THEN Cardinality(DueTicks(first, position, rate,
                          Capacity - CommandCount(playing, position, rate)))
                 ELSE 0
    IN  /\ nextClockTick' = first + ticks
        /\ transportKnown' = TRUE
        /\ wasPlaying' = playing
        /\ expectedPpq' = IF playing THEN position + rate * Samples
                          ELSE position
        /\ eps' = Hear(playing, position, rate, ticks)
-------------------------------------------------------------------------------
(* The DAW. *)

\* The transport runs on from the last block, or starts, or jumps.
PlayBlock ==
    /\ eps.tick <= MaxTick
    /\ \E position \in 0 .. MaxPosition, rate \in Rates :
           /\ Generate(TRUE, position, rate)
           /\ adrift' = IF StartsAnew(TRUE, position, rate) THEN {} ELSE adrift

\* The transport is halted at the place where it stopped.
StoppedBlock ==
    /\ \E rate \in Rates : Generate(FALSE, expectedPpq, rate)
    /\ UNCHANGED adrift

\* The transport is halted and the user, or the DAW's return-to-start, has
\* moved the play position.
RelocatedBlock ==
    /\ "relocate" \in HostMay
    /\ \E position \in 0 .. MaxPosition, rate \in Rates :
           Generate(FALSE, position, rate)
    /\ adrift' = adrift \cup {"relocate"}

\* prepareToPlay() while a project is open: prepare() calls reset(), and the
\* EPS hears nothing of it.
Reset ==
    /\ "reprepare" \in HostMay
    /\ expectedPpq' = 0
    /\ nextClockTick' = 0
    /\ transportKnown' = FALSE
    /\ wasPlaying' = FALSE
    /\ adrift' = adrift \cup {"reprepare"}
    /\ UNCHANGED eps

ClockNext == PlayBlock \/ StoppedBlock \/ RelocatedBlock \/ Reset

ClockSpec == ClockInit /\ [][ClockNext]_clockVars
-------------------------------------------------------------------------------
(* Properties. *)

ClockTypeOK ==
    /\ expectedPpq \in Nat
    /\ nextClockTick \in Nat
    /\ transportKnown \in BOOLEAN
    /\ wasPlaying \in BOOLEAN
    /\ eps \in [running : BOOLEAN, tick : Nat]
    /\ adrift \subseteq HostMay

TickInStep ==
    \E r \in Rates : Distance(eps.tick * UnitsPerTick, expectedPpq) <= UnitsPerTick + r

\* A running EPS is at most a tick and a rounded sample away from the DAW's
\* play position after every block: no tick at a block boundary is lost or
\* sent twice, whatever the tempo does and wherever the playing transport
\* jumps.  Where a stopped transport was moved or the host prepared again, it
\* holds again from the next Start on.
EpsInStep == eps.running /\ adrift = {} => TickInStep

\* The same without the exception: moving a stopped transport does not put
\* the EPS out of step.
EpsAlwaysInStep == eps.running => TickInStep

\* The EPS runs while the DAW plays, whatever the host relocates or prepares
\* again, and stops with it, unless the host prepared again since the Start.
EpsFollowsTransport ==
    /\ wasPlaying => eps.running
    /\ eps.running /\ transportKnown /\ "reprepare" \notin adrift => wasPlaying
===============================================================================
