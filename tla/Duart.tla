--------------------------------- MODULE Duart ---------------------------------
(***************************************************************************)
(* The MC68681 as a source of interrupts: its five sources, the mask, and  *)
(* the line to the 68000, which is written only where the code calls       *)
(* duart_refresh_irq_line() or injects a level (MachineSlices).  What the  *)
(* wires bring and when is left open here: MidiIn and LivePanel have that. *)
(***************************************************************************)
EXTENDS Naturals

CONSTANTS
    Masks,          \* the interrupt masks the EPS writes
    Commands        \* the commands it gives the channels

Source == {"rxA", "rxB", "txA", "txB", "timer"}
Switch == {"rxA", "txA", "txB", "timer"}

ASSUME DuartAssumption ==
    /\ Masks \subseteq SUBSET Source
    /\ Commands \subseteq SUBSET {"rxOn", "rxOff", "rxReset", "txOn", "txOff"}

VARIABLES
    up,     \* a receiver with bytes, a transmitter that is ready, a timer
            \* that has expired
    on,     \* what is switched on; the receiver of the panel always is
    imr,    \* duart_registers[5]
    line    \* the level at the interrupt inputs of the 68000

duartVars == <<up, on, imr, line>>

DuartInit ==
    /\ up = {"txA", "txB"}
    /\ on = {}
    /\ imr = {}
    /\ line = 0

\* duart_interrupt_status()
Status(u, o) == {s \in u : s \in {"txA", "txB"} => s \in o}

Asserted(u, o, mask) == Status(u, o) \cap mask # {}

\* duart_refresh_irq_line()
Level(u, o, mask) == IF Asserted(u, o, mask) THEN 3 ELSE 0

Refresh(mask) == line' = Level(up', on', mask)

\* duart_service_time(): what the time that passed may have brought.
Served ==
    {up \cup new : new \in SUBSET ({"rxB", "txA", "txB"} \cup
                                   (on \cap {"rxA", "timer"}))}
-------------------------------------------------------------------------------
(* The registers.  A read advances the chip to the cycle of the access. *)

\* SRA, SRB, ISR and the input port leave the line as it is.
ReadStatus ==
    /\ up' \in Served
    /\ UNCHANGED <<on, imr, line>>

\* Slip: the last byte is read and the line stays up.
ReadHoldingKeepsLine(r) ==
    /\ \E u \in Served : up' \in {u, u \ {r}}
    /\ UNCHANGED <<on, imr, line>>

\* RHRA and RHRB: an empty receiver gives 0 and changes nothing; a byte that
\* is taken may have been the last.
ReadHolding(r) ==
    /\ \E u \in Served :
          IF r \in u
          THEN up' \in {u, u \ {r}} /\ line' = Level(up', on, imr)
          ELSE up' = u /\ UNCHANGED line
    /\ UNCHANGED <<on, imr>>

\* Reading the start register starts the timer.
StartTimer ==
    /\ up' \in Served
    /\ on' = on \cup {"timer"}
    /\ UNCHANGED <<imr, line>>

\* Reading the stop register: in timer mode it only clears the interrupt.
StopTimer ==
    /\ \E u \in Served : up' = u \ {"timer"}
    /\ on' \in {on, on \ {"timer"}}
    /\ Refresh(imr)
    /\ UNCHANGED imr

\* ACR: selecting timer mode starts it.
SelectTimerMode ==
    /\ on' = on \cup {"timer"}
    /\ UNCHANGED <<up, imr, line>>

Switched(name, command, turnOn, turnOff) ==
    IF turnOff \in command THEN on \ {name}
    ELSE IF turnOn \in command THEN on \cup {name} ELSE on

\* CRA: receiver on, off or reset, transmitter on or off; off wins.
CommandA(command) ==
    /\ on' = {s \in Switched("rxA", command, "rxOn", "rxOff") : s # "txA"} \cup
             (Switched("txA", command, "txOn", "txOff") \cap {"txA"})
    /\ up' = IF "rxReset" \in command THEN up \ {"rxA"} ELSE up
    /\ Refresh(imr)
    /\ UNCHANGED imr

\* CRB switches the transmitter only.
CommandB(command) ==
    /\ on' = Switched("txB", command, "txOn", "txOff")
    /\ UNCHANGED <<up, imr>>
    /\ Refresh(imr)

\* THRA and THRB: the transmitter is busy for a byte time.
WriteHolding(t) ==
    /\ up' = up \ {t}
    /\ on' = on
    /\ Refresh(imr)
    /\ UNCHANGED imr

WriteMask(mask) ==
    /\ imr' = mask
    /\ UNCHANGED <<up, on>>
    /\ Refresh(mask)

Register ==
    \/ ReadStatus
    \/ \E r \in {"rxA", "rxB"} : ReadHolding(r)
    \/ StartTimer
    \/ StopTimer
    \/ SelectTimerMode
    \/ \E command \in Commands : CommandA(command) \/ CommandB(command)
    \/ \E t \in {"txA", "txB"} : WriteHolding(t)
    \/ \E mask \in Masks : WriteMask(mask)
================================================================================
