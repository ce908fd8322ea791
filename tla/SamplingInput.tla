--------------------------- MODULE SamplingInput ---------------------------
(***************************************************************************)
(* The sampling input.  Each DAW sample is pushed into a history           *)
(* (HostInputResampler.c) before the machine runs for its time, and the OS *)
(* polls the board's converter (es5510_sampling_input()), which has an     *)
(* oscillator of its own: a poll sees the newest conversion completed, and *)
(* the input is reconstructed at the cycle of that conversion from the     *)
(* samples on both sides of a point 24 DAW samples back.  A slice of the   *)
(* machine can run past the time the input is there for; the conversion    *)
(* then takes the newest sample as it is.                                  *)
(***************************************************************************)
EXTENDS Integers

CONSTANTS HalfInputTaps,  \* EPS16_HOST_INPUT_TAPS / 2
          History,        \* EPS16_HOST_INPUT_HISTORY
          DawPeriod,      \* cycles per DAW sample
          Periods,        \* cycles per conversion, by the selector in GPR 81
          Overrun,        \* longest run past the end of a DAW sample
          MaxPushed       \* bound: DAW samples in one behaviour

ASSUME SamplingInputAssumption ==
    /\ HalfInputTaps \in Nat \ {0} /\ DawPeriod \in Nat \ {0}
    /\ Periods \subseteq Nat \ {0} /\ Periods # {}
    /\ Overrun \in Nat /\ MaxPushed \in Nat
    /\ History \in Nat
    /\ \A p \in Periods :
          History * DawPeriod >= 2 * HalfInputTaps * DawPeriod + Overrun + p

VARIABLES now,        \* plugin_executed, within a slice bus_cycle_now()
          pushed,     \* samples_pushed
          origin,     \* origin_cycle, the cycle of the first push
          nextEdge,   \* es5510_input_next_cycle, 0 before the first poll
          taken       \* the last conversion that was taken
samplingInputVars == <<now, pushed, origin, nextEdge, taken>>

NoConversion == [edge |-> -1, before |-> -1, polled |-> 0, period |-> 0, covered |-> 0,
                 source |-> "none"]

SamplingInputInit ==
    /\ now \in 0 .. Overrun + 1     \* the machine has run before the first sample
    /\ pushed = 0
    /\ origin = 0
    /\ nextEdge = 0
    /\ taken = NoConversion

\* The end of the time the pushed samples stand for.
Covered == origin + pushed * DawPeriod

\* eps16_probe_machine_sampling_input(), then the machine may run on.
PushSample ==
    /\ pushed < MaxPushed
    /\ pushed = 0 \/ now >= Covered
    /\ pushed' = pushed + 1
    /\ origin' = IF pushed = 0 THEN now ELSE origin
    /\ UNCHANGED <<now, nextEdge, taken>>

Run ==
    /\ pushed > 0
    /\ now < Covered + Overrun
    /\ now' = now + 1
    /\ UNCHANGED <<pushed, origin, nextEdge, taken>>

(***************************************************************************)
(* eps16_host_input_resampler_sample(): the taps around the point that is  *)
(* HalfInputTaps samples before the conversion must all be in the history. *)
(***************************************************************************)
Kept == IF pushed > History THEN History ELSE pushed

\* Slip: one sample less of delay.
CentreEarly(edge) == (edge - origin) \div DawPeriod - HalfInputTaps + 1

Centre(edge) == (edge - origin) \div DawPeriod - HalfInputTaps

Reconstructs(edge) ==
    /\ Kept >= 2 * HalfInputTaps
    /\ edge >= origin
    /\ Centre(edge) - (HalfInputTaps - 1) >= pushed - Kept
    /\ Centre(edge) + HalfInputTaps < pushed

(***************************************************************************)
(* es5510_sampling_input() with the deterministic clock: nothing before    *)
(* the next edge; else the newest edge, and the phase is kept.             *)
(***************************************************************************)
Poll(period) ==
    LET next == IF nextEdge = 0 THEN now ELSE nextEdge
        edge == next + ((now - next) \div period) * period
    IN /\ now > 0 /\ now >= next
       /\ nextEdge' = edge + period
       /\ taken' = [edge |-> edge, before |-> taken.edge, polled |-> now, period |-> period,
                    covered |-> Covered,
                    source |-> IF Reconstructs(edge) THEN "history" ELSE "newest"]
       /\ UNCHANGED <<now, pushed, origin>>

SamplingInputNext == PushSample \/ Run \/ \E period \in Periods : Poll(period)

SamplingInputSpec == SamplingInputInit /\ [][SamplingInputNext]_samplingInputVars

-----------------------------------------------------------------------------
SamplingInputTypeOK ==
    /\ now \in Nat /\ origin \in Nat /\ nextEdge \in Nat
    /\ pushed \in 0 .. MaxPushed
    /\ taken.source \in {"none", "history", "newest"}

\* The first samples fill the history.
WarmUp == taken.edge < origin + (2 * HalfInputTaps - 1) * DawPeriod

(***************************************************************************)
(* A poll takes the newest conversion that is complete and takes no        *)
(* conversion twice, also when the OS changes the period in between; and   *)
(* past the warm-up the conversion's input is reconstructed, unless the    *)
(* machine ran beyond the samples that were there.                         *)
(* (es5510_sampling_input(), eps16_host_input_resampler_sample())          *)
(***************************************************************************)
ConversionIsTimely ==
    taken.source # "none" =>
        /\ taken.before < taken.edge
        /\ taken.edge <= taken.polled /\ taken.polled < taken.edge + taken.period
        /\ taken.source = "newest" => WarmUp \/ taken.edge >= taken.covered
=============================================================================
