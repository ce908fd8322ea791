----------------------------- MODULE BoundedFifo -----------------------------
(***************************************************************************)
(* What the control queue of EmulatorBridge promises the message thread    *)
(* and the audio thread: a first-in first-out queue of at most Limit       *)
(* controls, which refuses a control only when Limit are waiting and can   *)
(* be emptied as a whole.  ControlQueue implements it.                     *)
(***************************************************************************)
EXTENDS Naturals, Sequences

CONSTANTS
    Control,    \* the control events a caller can queue
    Limit       \* how many controls can wait at once

VARIABLES
    queue,      \* the waiting controls, oldest first
    taken,      \* the control handed out last
    refused     \* calls refused since the queue was last emptied

fifoVars == <<queue, taken, refused>>

Init ==
    /\ queue = <<>>
    /\ taken \in Control
    /\ refused = 0

Put ==
    /\ Len(queue) < Limit
    /\ \E control \in Control : queue' = Append(queue, control)
    /\ UNCHANGED <<taken, refused>>

Refuse ==
    /\ Len(queue) = Limit
    /\ refused' = refused + 1
    /\ UNCHANGED <<queue, taken>>

Take ==
    /\ queue # <<>>
    /\ taken' = Head(queue)
    /\ queue' = Tail(queue)
    /\ UNCHANGED refused

Clear ==
    /\ queue' = <<>>
    /\ refused' = 0
    /\ UNCHANGED taken

Next == Put \/ Refuse \/ Take \/ Clear

Spec == Init /\ [][Next]_fifoVars
===============================================================================
