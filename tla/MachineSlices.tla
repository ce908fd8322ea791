------------------------------ MODULE MachineSlices ------------------------------
(***************************************************************************)
(* The loop of eps16_probe_machine_run_until(): the 68000 runs a slice,    *)
(* and then up to three short ones in which the DMA controller, the DUART  *)
(* and the voices have their interrupt level on the line.  Within a slice  *)
(* the program of the EPS uses the registers of the DUART, which writes    *)
(* the same line.                                                          *)
(***************************************************************************)
EXTENDS Duart

VARIABLES
    slice,          \* whose slice the 68000 is running
    dmaPending,     \* dmac_irq_channel >= 0
    voicesPending   \* es5505_core_irq_pending()

vars == <<duartVars, slice, dmaPending, voicesPending>>

Init ==
    /\ DuartInit
    /\ slice = "main"
    /\ dmaPending = FALSE
    /\ voicesPending = FALSE
-------------------------------------------------------------------------------
(* The loop.  level is what the line holds when the code comes to a test. *)

ToVoices(level) ==
    /\ voicesPending' \in {voicesPending, TRUE}
    /\ IF voicesPending'
       THEN slice' = "voices" /\ line' = 1
       ELSE slice' = "main" /\ line' = level

ToDuart(level) ==
    IF Asserted(up', on, imr)
    THEN slice' = "duart" /\ line' = 3 /\ UNCHANGED voicesPending
    ELSE ToVoices(level)

\* Slip: a request of the DMA controller is put on the line once.
EndMainOffersOnce ==
    /\ slice = "main"
    /\ up' \in Served
    /\ dmaPending' \in {dmaPending, TRUE}
    /\ IF dmaPending' /\ ~dmaPending
       THEN slice' = "dma" /\ line' = 2 /\ UNCHANGED voicesPending
       ELSE ToDuart(line)
    /\ UNCHANGED <<on, imr>>

\* The slice is over; dmac_service() may have made a channel interrupt.
EndMain ==
    /\ slice = "main"
    /\ up' \in Served
    /\ dmaPending' \in {dmaPending, TRUE}
    /\ IF dmaPending'
       THEN slice' = "dma" /\ line' = 2 /\ UNCHANGED voicesPending
       ELSE ToDuart(line)
    /\ UNCHANGED <<on, imr>>

EndDma ==
    /\ slice = "dma"
    /\ up' \in Served
    /\ ToDuart(0)
    /\ UNCHANGED <<on, imr, dmaPending>>

EndDuart ==
    /\ slice = "duart"
    /\ up' \in Served
    /\ ToVoices(0)
    /\ UNCHANGED <<on, imr, dmaPending>>

EndVoices ==
    /\ slice = "voices"
    /\ up' \in Served
    /\ slice' = "main"
    /\ line' = 0
    /\ UNCHANGED <<on, imr, dmaPending, voicesPending>>
-------------------------------------------------------------------------------
(* The 68000. *)

UseDuart ==
    /\ Register
    /\ UNCHANGED <<slice, dmaPending, voicesPending>>

\* The handlers clear the status of the channel and read the voice's vector.
ClearDma ==
    /\ dmaPending
    /\ dmaPending' = FALSE
    /\ UNCHANGED <<duartVars, slice, voicesPending>>

ReadVoiceVector ==
    /\ voicesPending
    /\ voicesPending' = FALSE
    /\ UNCHANGED <<duartVars, slice, dmaPending>>

Next ==
    \/ EndMain
    \/ EndDma
    \/ EndDuart
    \/ EndVoices
    \/ UseDuart
    \/ ClearDma
    \/ ReadVoiceVector

Spec == Init /\ [][Next]_vars

\* m68k_execute() returns when its cycles are used up.
FairSpec == Spec /\ WF_vars(EndMain \/ EndDma \/ EndDuart \/ EndVoices)
-------------------------------------------------------------------------------
(* Properties. *)

TypeOK ==
    /\ up \subseteq Source
    /\ on \subseteq Switch
    /\ imr \in Masks \cup {{}}
    /\ line \in 0 .. 3
    /\ slice \in {"main", "dma", "duart", "voices"}
    /\ dmaPending \in BOOLEAN
    /\ voicesPending \in BOOLEAN

\* The EPS is never sent into its level 3 handler with an empty interrupt
\* status, where its sampling handler would report ERROR 145: whatever the
\* registers and the slices did to the line, at level 3 a source asks.
NoSpuriousIrq == line = 3 => Asserted(up, on, imr)

\* Registers of the DUART take the level of another chip off the line, and
\* the end of a slice takes off all; a level is put there again for as long
\* as its chip asks, whatever the others do.
RequestsReturn ==
    /\ Asserted(up, on, imr) ~> line = 3 \/ ~Asserted(up, on, imr)
    /\ dmaPending ~> line = 2 \/ ~dmaPending
    /\ voicesPending ~> line = 1 \/ ~voicesPending
================================================================================
