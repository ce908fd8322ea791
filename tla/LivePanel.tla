------------------------------- MODULE LivePanel --------------------------------
(***************************************************************************)
(* The front panel of the development host without the KPC firmware: the   *)
(* commands of the browser (live_command), the wire of the panel, and the  *)
(* responder of kpc_legacy.c, which answers what the EPS sends and adds    *)
(* the readiness bytes (FF) the EPS waits for.  Time is left out: a slice  *)
(* may bring any of the bytes on the wire, and a poll may be due whenever  *)
(* the line is idle.                                                       *)
(***************************************************************************)
EXTENDS Naturals, SequencesExt

CONSTANTS
    Keys, Track, Enter,     \* the keys; those of the tracks; the ENTER key
    Frames,         \* panel_display_drain_frames() of each key
    WireSize, RxSize,       \* PANEL_WIRE_SIZE, PANEL_RX_SIZE
    FrameLimit,     \* KPC_DISPLAY_FRAME_LIMIT
    SearchBytes,    \* KPC_READY_SEARCH_BYTES
    LoadFrames,     \* the frames of a load
    LoadPolls       \* KPC_LOAD_READY_POLLS

ASSUME LivePanelAssumption ==
    /\ Track \subseteq Keys /\ Enter \in Keys
    /\ Frames \in [Keys -> Nat]
    /\ {WireSize, RxSize, FrameLimit, SearchBytes, LoadFrames, LoadPolls} \subseteq Nat \ {0}

VARIABLES
    panelWire,      \* bytes to the EPS
    panelRx,        \* the receiver of the DUART
    kpc,            \* KpcLegacy: frames, search, burst, budget, periodic
    enterPending,   \* sampling_enter_pending
    recording,      \* sampling_recording_active
    entered,        \* the EPS has read the ENTER key
    quiet           \* history: since RECORD was entered there was no command,
                    \* and the EPS asked for no FF

livePanelVars == <<panelWire, panelRx, kpc, enterPending, recording,
                   entered, quiet>>

\* Bytes on the wire are told apart as far as it matters: readiness (FF), the
\* code of the ENTER key going down, and all others.
Ready == "ready"
Other == "other"
Press(key) == IF key = Enter THEN "enter" ELSE Other

LivePanelInit ==
    /\ panelWire = <<>>
    /\ panelRx = <<>>
    /\ kpc = [frames |-> 0, search |-> 0, burst |-> 0, budget |-> 0,
              periodic |-> TRUE]
    /\ enterPending = FALSE
    /\ recording = FALSE
    /\ entered = FALSE
    /\ quiet = FALSE
-------------------------------------------------------------------------------
(* The wire. *)

\* panel_schedule_at()
Scheduled(wire, byte) ==
    IF Len(wire) = WireSize THEN wire ELSE Append(wire, byte)

Pair(wire, first, second) == Scheduled(Scheduled(wire, first), second)

\* A key is let go no sooner than it was held, and the KPC is ready a byte
\* later.
LetGo(wire) == Scheduled(Pair(wire, Other, Other), Ready)
-------------------------------------------------------------------------------
(* kpc_legacy.c *)

ArmDisplay(k, frames) ==
    [k EXCEPT !.frames = frames, !.burst = 0,
              !.search = IF frames > 0 THEN SearchBytes ELSE 0]

ArmLoad(k) == ArmDisplay([k EXCEPT !.budget = LoadPolls], LoadFrames)

\* Slip: the display drain of the load stays armed.
CancelLoadOnly(k) == [k EXCEPT !.budget = 0]

CancelLoad(k) == ArmDisplay([k EXCEPT !.budget = 0], 0)

\* kpc_legacy_reply(): calibration and status requests get a readiness byte,
\* everything else comes back as it is.
Reply(byte) == IF byte = "request" THEN Ready ELSE Other

\* kpc_legacy_observe_tx(): what a byte the EPS sends does to the drain ...
Delimited(k, byte) ==
    IF k.frames = 0 THEN k
    ELSE IF byte = "f7"
    THEN [k EXCEPT !.frames = @ - 1, !.burst = 0,
                   !.search = IF k.frames > 1 THEN SearchBytes ELSE 0]
    ELSE IF byte # "f" THEN k
    ELSE IF k.burst > 0
    THEN [k EXCEPT !.frames = @ - 1, !.search = 0,
                   !.burst = IF k.frames > 1 THEN FrameLimit ELSE 0]
    ELSE [k EXCEPT !.burst = FrameLimit, !.search = 0]

\* ... and the result: [kpc, ready].
Observed(k, byte) ==
    LET d == Delimited(k, byte)
        left == IF byte = "f" THEN d.burst ELSE d.burst - 1
    IN  IF byte = "f7" /\ k.frames > 0
        THEN [kpc |-> d, ready |-> d.frames > 0]
        ELSE IF d.burst > 0
        THEN [kpc |-> [d EXCEPT !.burst = left,
                  !.search = IF left = 0 /\ d.frames > 0 THEN SearchBytes ELSE @],
              ready |-> left > 0 \/ d.frames > 0]
        ELSE IF d.frames > 0 /\ d.search > 0
        THEN [kpc |-> [d EXCEPT !.search = @ - 1], ready |-> TRUE]
        ELSE [kpc |-> d, ready |-> FALSE]

\* kpc_legacy_service(): readiness while a load is on, or while nobody has
\* touched the panel; only on an idle line.
CanPoll ==
    /\ panelWire = <<>> /\ panelRx = <<>>
    /\ kpc.budget > 0 \/ kpc.periodic

Poll ==
    /\ CanPoll
    /\ panelWire' = Scheduled(panelWire, Ready)
    /\ kpc' = [kpc EXCEPT !.budget = IF @ > 0 THEN @ - 1 ELSE 0]
    /\ UNCHANGED <<panelRx, enterPending, recording, entered, quiet>>
-------------------------------------------------------------------------------
(* The browser.  Each is one line of live_command(). *)

Touched(key) == ArmDisplay([kpc EXCEPT !.periodic = FALSE], Frames[key])
Released(k, key) == IF key \in Track THEN ArmLoad(k) ELSE k

\* sampling is sampling_adc_is_active().
Click(key, sampling) ==
    /\ kpc' = Released(Touched(key), key)
    /\ panelWire' = LetGo(Pair(panelWire, Press(key), Other))
    /\ quiet' = FALSE
    /\ IF key = Enter /\ sampling
       THEN enterPending' = ~recording /\ recording' = FALSE
       ELSE UNCHANGED <<enterPending, recording>>
    /\ UNCHANGED <<panelRx, entered>>

PressKey(key) ==
    /\ kpc' = Touched(key)
    /\ panelWire' = Pair(panelWire, Press(key), Other)
    /\ quiet' = FALSE
    /\ UNCHANGED <<panelRx, enterPending, recording, entered>>

ReleaseKey(key) ==
    /\ panelWire' = LetGo(panelWire)
    /\ kpc' = Released(kpc, key)
    /\ quiet' = FALSE
    /\ UNCHANGED <<panelRx, enterPending, recording, entered>>

PlayNote ==
    /\ kpc' = ArmDisplay(kpc, Frames[Enter])
    /\ panelWire' = Pair(panelWire, Other, Other)
    /\ quiet' = FALSE
    /\ UNCHANGED <<panelRx, enterPending, recording, entered>>

\* A note of the MIDI port of the host, live_performance_midi(): a pair as well.
PlayMidi ==
    /\ panelWire' = Pair(panelWire, Other, Other)
    /\ UNCHANGED <<panelRx, kpc, enterPending, recording, entered, quiet>>

\* disk:os and disk:instrument; the drive is in FloppyDrive.
MountDisk(os) ==
    /\ kpc' = CancelLoad([kpc EXCEPT !.periodic = os])
    /\ quiet' = FALSE
    /\ UNCHANGED <<panelWire, panelRx, enterPending, recording, entered>>
-------------------------------------------------------------------------------
(* The EPS. *)

\* THRB: the reply is on its way before the drain's readiness.
Transmit(byte) ==
    LET o == Observed(kpc, byte)
        replied == Scheduled(panelWire, Reply(byte))
    IN  /\ panelWire' = IF o.ready THEN Scheduled(replied, Ready) ELSE replied
        /\ kpc' = o.kpc
        /\ quiet' = (quiet /\ byte # "request")
        /\ UNCHANGED <<panelRx, enterPending, recording, entered>>

\* The display says FILE LOADED.
FileLoaded ==
    /\ kpc.budget > 0
    /\ kpc' = CancelLoad(kpc)
    /\ UNCHANGED <<panelWire, panelRx, enterPending, recording,
                   entered, quiet>>

ReadPanel ==
    /\ panelRx # <<>>
    /\ panelRx' = Tail(panelRx)
    /\ entered' = (entered \/ Head(panelRx) = Press(Enter))
    /\ UNCHANGED <<panelWire, kpc, enterPending, recording, quiet>>

\* panel_drop_pending_ready(): the other bytes keep their order.  The loop is a
\* function, which the provers can look into, and not SelectSeq.
DroppedReady(bytes) ==
    LET kept[n \in 0 .. Len(bytes)] ==
            IF n = 0 THEN <<>>
            ELSE IF bytes[n] = Ready THEN kept[n - 1]
            ELSE Append(kept[n - 1], bytes[n])
    IN  kept[Len(bytes)]

\* instruction_hook() at the entry of RECORD.
EnterRecord ==
    /\ entered
    /\ entered' = FALSE
    /\ enterPending' = FALSE
    /\ recording' = TRUE
    /\ kpc' = CancelLoad(kpc)
    /\ panelWire' = DroppedReady(panelWire)
    /\ panelRx' = DroppedReady(panelRx)
    /\ quiet' = TRUE

\* A slice of the main loop: panel_service_wire() brings what is due, as far
\* as the receiver has room; the rest waits on the wire.
RunSlice ==
    /\ \E n \in 1 .. Len(panelWire) :
          /\ n <= RxSize - Len(panelRx)
          /\ panelRx' = panelRx \o SubSeq(panelWire, 1, n)
          /\ panelWire' = SubSeq(panelWire, n + 1, Len(panelWire))
    /\ UNCHANGED <<kpc, enterPending, recording, entered, quiet>>

LivePanelNext ==
    \/ \E k \in Keys, sampling \in BOOLEAN : Click(k, sampling)
    \/ \E k \in Keys : PressKey(k) \/ ReleaseKey(k)
    \/ PlayNote \/ PlayMidi
    \/ \E os \in BOOLEAN : MountDisk(os)
    \/ \E b \in {"f7", "f", "request", "data"} : Transmit(b)
    \/ FileLoaded
    \/ ReadPanel
    \/ EnterRecord
    \/ RunSlice
    \/ Poll
-------------------------------------------------------------------------------
(* Properties. *)

LivePanelTypeOK ==
    /\ Len(panelWire) <= WireSize /\ Len(panelRx) <= RxSize
    /\ kpc.frames \in Nat /\ kpc.search \in 0 .. SearchBytes
    /\ kpc.burst \in 0 .. FrameLimit /\ kpc.budget \in 0 .. LoadPolls
    /\ {kpc.periodic, enterPending, recording, entered, quiet} \subseteq BOOLEAN

\* A readiness byte would stop a recording that has just begun.  Whatever the
\* panel and the display had started before, none is waiting or comes after
\* the EPS has entered RECORD, until the user does something or the EPS asks;
\* only the poll of an untouched panel, which mounting the OS disk turns on
\* again, is not held back.
RecordingUndisturbed ==
    recording /\ quiet /\ ~kpc.periodic =>
        /\ Ready \notin ToSet(panelRx)
        /\ Ready \notin ToSet(panelWire)
================================================================================
