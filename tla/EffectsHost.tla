---------------------------- MODULE EffectsHost ----------------------------
(***************************************************************************)
(* The ES5510 effects processor as the 68000 loads it: es5510_read() and   *)
(* es5510_write() in rom_probe.c, and its release in                       *)
(* plugin_render_audio().  The processor shares its program memory with    *)
(* the 68000, which may write it while frames are due.  The data latches,  *)
(* the delay memory and the serial ports are left out.                     *)
(***************************************************************************)
EXTENDS Naturals

CONSTANTS Slots,      \* instruction addresses, 0 .. 159
          Hold,       \* access hold after a host access (250000 cycles)
          MaxWait     \* longest time between two frames

ASSUME EffectsHostAssumption ==
    Slots # {} /\ Hold \in Nat \ {0} /\ MaxWait \in Nat \ {0}

VARIABLES
    instructions,  \* slots that hold the program now being uploaded
    halted, upload,
    hold,          \* es5510_host_access_until, from now on
    waited,        \* cycles since the host last touched the program
    ran,           \* the last frame: "none", "whole" or "part"
    excused        \* the host paused too long or ended its transfer early

effectsHostVars == <<instructions, halted, upload, hold, waited, ran, excused>>

EffectsHostInit ==                                    \* es5510_core_init()
    /\ instructions = Slots
    /\ halted = TRUE
    /\ upload = FALSE
    /\ hold = 0
    /\ waited = 0
    /\ ran = "none"
    /\ excused = FALSE

\* Slip: the hold runs from the start of the transfer.
HeldOnce == /\ hold' = IF upload THEN hold ELSE Hold
            /\ waited' = 0

Held == /\ hold' = Hold
        /\ waited' = 0

(***************************************************************************)
(* es5510_write(): a transfer is announced at 1f, and each instruction     *)
(* (c0, e0) halts the processor and takes the hold again.  The host is     *)
(* taken to replace the whole program; a new program begins with its first *)
(* slot.                                                                   *)
(***************************************************************************)
BeginTransfer ==
    /\ Held
    /\ halted' = TRUE
    /\ upload' = TRUE
    /\ UNCHANGED <<instructions, ran, excused>>

WriteInstruction(slot) ==
    /\ Held
    /\ instructions' = IF instructions = Slots THEN {slot} ELSE instructions \cup {slot}
    /\ excused' = IF instructions = Slots THEN FALSE ELSE excused
    /\ halted' = TRUE
    /\ upload' = TRUE
    /\ ran' = "none"

\* Reading back the latches of a transfer (offsets 0 to 8).
ReadLatch ==
    /\ upload
    /\ Held
    /\ UNCHANGED <<instructions, halted, upload, ran, excused>>

\* Host control, bit 0.
EndTransfer ==
    /\ upload' = FALSE
    /\ halted' = FALSE
    /\ excused' = (instructions # Slots)
    /\ UNCHANGED <<instructions, hold, waited, ran>>

(***************************************************************************)
(* A frame of plugin_render_audio() after "t" cycles: a hold that has run  *)
(* out releases the processor, and it runs unless it is halted.            *)
(***************************************************************************)
Released(h) == upload /\ h = 0

Frame(t) ==
    LET h == IF hold > t THEN hold - t ELSE 0
        w == IF waited + t > Hold THEN Hold ELSE waited + t
    IN /\ hold' = h
       /\ waited' = w
       /\ upload' = (upload /\ ~Released(h))
       /\ halted' = (halted /\ ~Released(h))
       /\ excused' = (excused \/ (w >= Hold /\ instructions # Slots))
       /\ ran' = IF halted' THEN "none" ELSE IF instructions = Slots THEN "whole" ELSE "part"
       /\ UNCHANGED <<instructions>>

EffectsHostNext ==
    \/ BeginTransfer
    \/ \E slot \in Slots : WriteInstruction(slot)
    \/ ReadLatch
    \/ EndTransfer
    \/ \E t \in 1 .. MaxWait : Frame(t)

EffectsHostSpec == EffectsHostInit /\ [][EffectsHostNext]_effectsHostVars

-----------------------------------------------------------------------------
EffectsHostTypeOK ==
    /\ instructions \subseteq Slots
    /\ halted \in BOOLEAN /\ upload \in BOOLEAN /\ excused \in BOOLEAN
    /\ hold \in 0 .. Hold /\ waited \in 0 .. Hold
    /\ ran \in {"none", "whole", "part"}

(***************************************************************************)
(* A frame runs a program that is only partly written when the host itself *)
(* ended the transfer early or paused for the whole hold, and not because  *)
(* a long transfer outlived it.  (es5510_write(), plugin_render_audio())   *)
(***************************************************************************)
NoHalfProgram == ran = "part" => excused
=============================================================================
