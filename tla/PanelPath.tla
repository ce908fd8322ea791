------------------------------- MODULE PanelPath -------------------------------
(***************************************************************************)
(* A front-panel key on its way from the editor to the EPS operating       *)
(* system: the control queue and dispatchControls() of EmulatorBridge,     *)
(* which spaces transitions; the queue of the emulated keypad board in     *)
(* rom_probe.c, which holds each one for a while; and the KPC firmware,    *)
(* which reports it to the main CPU as a code byte followed by 00.         *)
(*                                                                         *)
(* The control queue is the first-in first-out queue ControlQueue          *)
(* implements.  Cycle stamps are kept as what is left of them, in ticks of *)
(* the DAW's cycle clock: a due stamp is zero.                             *)
(***************************************************************************)
EXTENDS Naturals, Sequences

CONSTANTS
    Key,            \* panel keys, raw matrix codes 0 .. 3f
    ControlLimit,   \* controls the queue holds: controlQueueCapacity - 1
    PhysicalLimit,  \* KPC_PHYSICAL_QUEUE_SIZE, 256
    Spacing,        \* ticks in panelTransitionSpacingCycles, 500000
    Hold            \* ticks in hold_cycles, 1000000

ASSUME KeyAssumption == Key # {}
ASSUME LimitsAssumption ==
    /\ ControlLimit \in Nat \ {0}
    /\ PhysicalLimit \in Nat \ {0}
ASSUME TimesAssumption == Spacing \in Nat /\ Hold \in Nat

\* A key went down or up; an analog or keyboard control that never waits.
Transition == [key : Key, down : BOOLEAN]
Immediate == [analog : {TRUE}]
Nothing == [none |-> TRUE]

VARIABLES
    held,           \* keys the user holds down
    controls,       \* the control queue
    pending,        \* pendingControl, Nothing unless hasPendingControl
    untilPanel,     \* ticks to nextPanelTransitionCycle
    physical,       \* kpc_physical_queue
    expected,       \* kpc_physical_expected, Nothing unless active
    sawCode,        \* kpc_physical_saw_code
    untilPhysical,  \* ticks to kpc_physical_next_cycle
    heard,          \* keys the EPS was told are down
    lost            \* a transition was refused or thrown away

bridgeVars == <<controls, pending, untilPanel>>
kpcVars == <<physical, expected, sawCode, untilPhysical>>
vars == <<held, bridgeVars, kpcVars, heard, lost>>

Init ==
    /\ held = {}
    /\ controls = <<>>
    /\ pending = Nothing
    /\ untilPanel = 0
    /\ physical = <<>>
    /\ expected = Nothing
    /\ sawCode = FALSE
    /\ untilPhysical = 0
    /\ heard = {}
    /\ lost = FALSE
-------------------------------------------------------------------------------
(* The editor. *)

CanEnqueue == Len(controls) < ControlLimit

\* enqueuePanelTransition(), whose answer the editor does not look at.
Enqueue(transition) ==
    /\ controls' = IF CanEnqueue THEN Append(controls, transition) ELSE controls
    /\ lost' = (lost \/ ~CanEnqueue)
    /\ UNCHANGED <<pending, untilPanel, kpcVars, heard>>

Press(key) ==
    /\ key \notin held
    /\ held' = held \cup {key}
    /\ Enqueue([key |-> key, down |-> TRUE])

Release(key) ==
    /\ key \in held
    /\ held' = held \ {key}
    /\ Enqueue([key |-> key, down |-> FALSE])

\* enqueueAnalog() or enqueueKeyboardTransition().
MoveControl ==
    /\ CanEnqueue
    /\ controls' = Append(controls, [analog |-> TRUE])
    /\ UNCHANGED <<held, pending, untilPanel, kpcVars, heard, lost>>
-------------------------------------------------------------------------------
(* The audio callback: one turn of the loop in dispatchControls(). *)

\* kpc_execution_panel_packet(): a full queue drops the packet, unnoticed.
Deliver(transition) ==
    /\ physical' = IF Len(physical) < PhysicalLimit
                   THEN Append(physical, transition) ELSE physical
    /\ lost' = (lost \/ Len(physical) = PhysicalLimit)
    /\ untilPanel' = Spacing
    /\ UNCHANGED <<held, expected, sawCode, untilPhysical, heard>>

DispatchPending ==
    /\ pending # Nothing
    /\ untilPanel = 0
    /\ pending' = Nothing
    /\ Deliver(pending)
    /\ UNCHANGED controls

\* Slip: the queue is served although an event is held.
DispatchPanelOvertakes ==
    /\ controls # <<>> /\ Head(controls) \in Transition
    /\ untilPanel = 0
    /\ controls' = Tail(controls)
    /\ Deliver(Head(controls))
    /\ UNCHANGED pending

DispatchPanel ==
    /\ pending = Nothing
    /\ controls # <<>> /\ Head(controls) \in Transition
    /\ untilPanel = 0
    /\ controls' = Tail(controls)
    /\ Deliver(Head(controls))
    /\ UNCHANGED pending

\* Too early: the event is held and everything behind it waits.
HoldPanel ==
    /\ pending = Nothing
    /\ controls # <<>> /\ Head(controls) \in Transition
    /\ untilPanel > 0
    /\ controls' = Tail(controls)
    /\ pending' = Head(controls)
    /\ UNCHANGED <<held, untilPanel, kpcVars, heard, lost>>

DispatchImmediate ==
    /\ pending = Nothing
    /\ controls # <<>> /\ Head(controls) \in Immediate
    /\ controls' = Tail(controls)
    /\ UNCHANGED <<held, pending, untilPanel, kpcVars, heard, lost>>

Dispatch ==
    DispatchPending \/ DispatchPanel \/ HoldPanel \/ DispatchImmediate

-------------------------------------------------------------------------------
(* The keypad board: kpc_execution_start_physical(),                       *)
(* kpc_execution_drain_transmit().                                         *)

CanStart == expected = Nothing /\ physical # <<>> /\ untilPhysical = 0

\* Slip: the transition stays in the queue.
StartPhysicalKeeps ==
    /\ CanStart
    /\ expected' = Head(physical)
    /\ sawCode' = FALSE
    /\ UNCHANGED <<held, bridgeVars, physical, untilPhysical, heard, lost>>

StartPhysical ==
    /\ CanStart
    /\ expected' = Head(physical)
    /\ physical' = Tail(physical)
    /\ sawCode' = FALSE
    /\ UNCHANGED <<held, bridgeVars, untilPhysical, heard, lost>>

\* The firmware sees the edge and sends the code byte; so does the EPS.
ReportCode ==
    /\ expected # Nothing
    /\ ~sawCode
    /\ sawCode' = TRUE
    /\ heard' = IF expected.down THEN heard \cup {expected.key}
                ELSE heard \ {expected.key}
    /\ UNCHANGED <<held, bridgeVars, physical, expected, untilPhysical,
                   lost>>

\* Slip: the transition is not over when the 00 comes.
ReportEndStaysActive ==
    /\ expected # Nothing
    /\ sawCode
    /\ untilPhysical' = Hold
    /\ UNCHANGED <<held, bridgeVars, physical, expected, sawCode, heard, lost>>

\* The 00 after the code: the transition is over.
ReportEnd ==
    /\ expected # Nothing
    /\ sawCode
    /\ expected' = Nothing
    /\ sawCode' = FALSE
    /\ untilPhysical' = Hold
    /\ UNCHANGED <<held, bridgeVars, physical, heard, lost>>
-------------------------------------------------------------------------------
(* Emulated time. *)

LessOne(n) == IF n > 0 THEN n - 1 ELSE 0

\* The clocks of the bridge and of the machine go on by a tick; the machine
\* does not leave a transition in its queue that it can start.
Tick ==
    /\ untilPanel > 0 \/ untilPhysical > 0
    /\ ~CanStart
    /\ untilPanel' = LessOne(untilPanel)
    /\ untilPhysical' = LessOne(untilPhysical)
    /\ UNCHANGED <<held, controls, pending, physical, expected, sawCode, heard,
                   lost>>
-------------------------------------------------------------------------------
\* prepareToPlay() while a project is open: prepare() empties the bridge and
\* the machine goes on with what it has.
Prepare ==
    /\ lost' = (lost \/ pending # Nothing
                    \/ \E i \in DOMAIN controls : controls[i] \in Transition)
    /\ controls' = <<>>
    /\ pending' = Nothing
    /\ untilPanel' = 0
    /\ UNCHANGED <<held, kpcVars, heard>>

Next ==
    \/ \E key \in Key : Press(key) \/ Release(key)
    \/ MoveControl
    \/ Dispatch
    \/ Tick
    \/ StartPhysical
    \/ ReportCode
    \/ ReportEnd
    \/ Prepare

\* The host keeps calling the audio callback, which runs the dispatch loop,
\* the clocks and the KPC; the firmware answers every edge it is shown.
Fairness ==
    /\ WF_vars(Dispatch)
    /\ WF_vars(Tick)
    /\ WF_vars(StartPhysical)
    /\ WF_vars(ReportCode)
    /\ WF_vars(ReportEnd)

Spec == Init /\ [][Next]_vars /\ Fairness
-------------------------------------------------------------------------------
(* Properties. *)

TypeOK ==
    /\ held \subseteq Key
    /\ controls \in Seq(Transition \cup Immediate)
    /\ Len(controls) <= ControlLimit
    /\ pending \in Transition \cup {Nothing}
    /\ untilPanel \in 0 .. Spacing
    /\ physical \in Seq(Transition)
    /\ Len(physical) <= PhysicalLimit
    /\ expected \in Transition \cup {Nothing}
    /\ sawCode \in BOOLEAN
    /\ untilPhysical \in 0 .. Hold
    /\ heard \subseteq Key
    /\ lost \in BOOLEAN

\* What is still on its way, oldest first, and the places in it at which a
\* key moves.
OnTheWay ==
    (IF expected = Nothing \/ sawCode THEN <<>> ELSE <<expected>>)
        \o physical
        \o (IF pending = Nothing THEN <<>> ELSE <<pending>>)
        \o controls

Moves(way, key) ==
    {i \in DOMAIN way : way[i] \in Transition /\ way[i].key = key}

\* As long as nothing was refused or thrown away, the EPS will know the keys
\* as the user holds them once all that is on its way has arrived: the last
\* move of a key is the user's, and a key without one is as the EPS knows it.
\* None is overtaken, doubled or forgotten in the held event, the queues or
\* the KPC.
KeysWillAgree ==
    ~lost => \A key \in Key :
        LET moves == Moves(OnTheWay, key) IN
        /\ moves = {} => (key \in heard <=> key \in held)
        /\ \A i \in moves :
              (\A j \in moves : j <= i) => (OnTheWay[i].down <=> key \in held)

\* The EPS never gets a key twice in the same direction.
ReportsAlternate ==
    ~lost /\ expected # Nothing /\ ~sawCode =>
        (expected.down <=> expected.key \notin heard)

\* A key the user lets go of, or holds down, gets to the EPS as such, unless
\* the user changes it again or something is lost.
KeyArrives ==
    \A key \in Key :
        /\ key \notin held ~> (key \notin heard \/ key \in held \/ lost)
        /\ key \in held ~> (key \in heard \/ key \notin held \/ lost)
===============================================================================
