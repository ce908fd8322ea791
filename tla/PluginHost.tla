------------------------------ MODULE PluginHost ------------------------------
(***************************************************************************)
(* One plug-in instance between the DAW and the emulated machine:          *)
(* PluginProcessor (what the host calls), the cycle clock of               *)
(* EmulatorBridge and the rebasing done by ProbeMachineSink.  The bridge   *)
(* counts CPU cycles from zero, the machine has a cycle counter of its     *)
(* own, and cycleBase ties the two together; every path that moves one of  *)
(* them has to move the others.                                            *)
(*                                                                         *)
(* The callback lock (or the host's contract, for prepareToPlay) makes     *)
(* each call one step.  A snapshot is abstracted to the project it came    *)
(* from; Damaged stands for any that load_state() refuses.                 *)
(***************************************************************************)
EXTENDS Naturals

CONSTANTS
    Project,        \* projects with a machine snapshot that can be restored
    Damaged,        \* a snapshot load_state() refuses: version, checksum
    Empty,          \* no snapshot at all
    Boot,           \* the machine as it powers up, without any project
    SavedCycles,    \* the machine's cycle counter in a project's snapshot
    BlockCycles,    \* CPU cycles in one audio block
    Overshoot,      \* bound: cycles the last instruction runs past a target
    MaxCycle        \* bound: no block starts beyond this machine cycle

Snapshot == Project \cup {Damaged, Empty}

ASSUME DistinctAssumption ==
    /\ Damaged \notin Project /\ Empty \notin Project /\ Boot \notin Project
    /\ Damaged # Empty /\ Boot # Empty /\ Boot # Damaged
ASSUME CyclesAssumption ==
    /\ SavedCycles \in [Project -> Nat]
    /\ BlockCycles \in Nat \ {0}
    /\ Overshoot \in Nat
    /\ MaxCycle \in Nat

VARIABLES
    resources,      \* the ROM, KPC and disk files can be found
    ready,          \* ProbeMachineSink::ready
    machine,        \* what the machine holds: Empty until initialised
    executed,       \* its cycle counter, plugin_executed
    cycleBase,      \* ProbeMachineSink::cycleBase
    clock,          \* DawClock::totalCycles
    pending,        \* pendingMachineState
    opened,         \* the snapshot in the state the host set last
    saved,          \* the last getStateInformation(), and what was open then
    stranded        \* the timeline was reset and the machine not rebased

vars == <<resources, ready, machine, executed, cycleBase, clock, pending,
          opened, saved, stranded>>

Init ==
    /\ resources \in BOOLEAN
    /\ ready = FALSE
    /\ machine = Empty
    /\ executed = 0
    /\ cycleBase = 0
    /\ clock = 0
    /\ pending = Empty
    /\ opened = Empty
    /\ saved = [machine |-> Empty, opened |-> Empty]
    /\ stranded = FALSE

\* A successful restoreState() followed by resetTimeline(), or preceded by it.
Restore(project) ==
    /\ machine' = project
    /\ executed' = SavedCycles[project]
    /\ cycleBase' = SavedCycles[project]
    /\ clock' = 0
    /\ stranded' = FALSE
-------------------------------------------------------------------------------
(* prepareToPlay() *)

\* The machine was never initialised and its files are missing.
PrepareUnready ==
    /\ machine = Empty
    /\ ~resources
    /\ ready' = FALSE
    /\ clock' = 0
    /\ UNCHANGED <<resources, machine, executed, cycleBase, pending, opened,
                   saved, stranded>>

\* initialize() does nothing the second time, so the files no longer matter.
CanInitialize == machine # Empty \/ resources

\* Slip: the timeline starts at zero, the machine is not rebased.
PrepareKeepsBase ==
    /\ CanInitialize
    /\ pending \in {Empty, Damaged}
    /\ ready' = TRUE
    /\ machine' = IF machine = Empty THEN Boot ELSE machine
    /\ clock' = 0
    /\ stranded' = FALSE
    /\ UNCHANGED <<resources, executed, cycleBase, pending, opened, saved>>

\* The machine is there and no snapshot is waiting, or load_state() refuses
\* the one that is: the machine goes on from where it stands.
PrepareKeepsMachine ==
    /\ CanInitialize
    /\ pending \in {Empty, Damaged}
    /\ ready' = TRUE
    /\ machine' = IF machine = Empty THEN Boot ELSE machine
    /\ cycleBase' = executed
    /\ clock' = 0
    /\ stranded' = FALSE
    /\ UNCHANGED <<resources, executed, pending, opened, saved>>

\* Slip: the snapshot is restored and stays pending.
PrepareRestoresAgain ==
    /\ CanInitialize
    /\ pending \in Project
    /\ ready' = TRUE
    /\ Restore(pending)
    /\ UNCHANGED <<resources, pending, opened, saved>>

PrepareRestores ==
    /\ CanInitialize
    /\ pending \in Project
    /\ ready' = TRUE
    /\ Restore(pending)
    /\ pending' = Empty
    /\ UNCHANGED <<resources, opened, saved>>
-------------------------------------------------------------------------------
(* processBlock() *)

\* The machine runs whole instructions until it has come to the target, and
\* not at all if it is beyond.
RunUntil(target) ==
    \E excess \in 0 .. Overshoot :
        executed' = IF executed < target THEN target + excess ELSE executed

\* The machine runs to the cycle the DAW's clock has come to.
ProcessBlock ==
    /\ ready
    /\ cycleBase + clock < MaxCycle
    /\ clock' = clock + BlockCycles
    /\ RunUntil(cycleBase + clock')
    /\ UNCHANGED <<resources, ready, machine, cycleBase, pending, opened,
                   saved, stranded>>
-------------------------------------------------------------------------------
(* The host's state calls. *)

\* Slip: a snapshot that waits is saved as if it were a machine's.
GetStateOfPending ==
    /\ saved' = [machine |-> IF ready THEN machine ELSE pending,
                 opened  |-> opened]
    /\ UNCHANGED <<resources, ready, machine, executed, cycleBase, clock,
                   pending, opened, stranded>>

GetStateInformation ==
    /\ saved' = [machine |-> IF ready THEN machine ELSE Empty,
                 opened  |-> opened]
    /\ UNCHANGED <<resources, ready, machine, executed, cycleBase, clock,
                   pending, opened, stranded>>

\* Slip: the snapshot is dropped because there is no machine yet.
SetStateForgets(snapshot) ==
    /\ ~ready \/ snapshot = Empty
    /\ pending' = Empty
    /\ opened' = snapshot
    /\ UNCHANGED <<resources, ready, machine, executed, cycleBase, clock,
                   saved, stranded>>

\* Slip: a machine that runs is left as it is, too.
SetStateAlwaysDefers(snapshot) ==
    /\ pending' = snapshot
    /\ opened' = snapshot
    /\ UNCHANGED <<resources, ready, machine, executed, cycleBase, clock,
                   saved, stranded>>

\* Nothing to restore yet: the snapshot, if any, is kept for prepareToPlay().
SetStateDeferred(snapshot) ==
    /\ ~ready \/ snapshot = Empty
    /\ pending' = snapshot
    /\ opened' = snapshot
    /\ UNCHANGED <<resources, ready, machine, executed, cycleBase, clock,
                   saved, stranded>>

SetStateRestores(snapshot) ==
    /\ ready
    /\ snapshot \in Project
    /\ Restore(snapshot)
    /\ pending' = Empty
    /\ opened' = snapshot
    /\ UNCHANGED <<resources, ready, saved>>

\* resetTimeline() came first, then load_state() refused.
SetStateRefused(snapshot) ==
    /\ ready
    /\ snapshot = Damaged
    /\ clock' = 0
    /\ stranded' = TRUE
    /\ pending' = snapshot
    /\ opened' = snapshot
    /\ UNCHANGED <<resources, ready, machine, executed, cycleBase, saved>>

SetStateInformation ==
    \E snapshot \in Snapshot :
        \/ SetStateDeferred(snapshot)
        \/ SetStateRestores(snapshot)
        \/ SetStateRefused(snapshot)

\* restoreMachineSnapshot(): the timeline is only reset after a success.
RestoreMachineSnapshot ==
    \E project \in Project :
        /\ ready
        /\ Restore(project)
        /\ opened' = project
        /\ UNCHANGED <<resources, ready, pending, saved>>

\* The user adds or removes the files of EPS_files.
ResourcesChange ==
    /\ resources' \in BOOLEAN
    /\ UNCHANGED <<ready, machine, executed, cycleBase, clock, pending, opened,
                   saved, stranded>>
-------------------------------------------------------------------------------
PrepareToPlay == PrepareUnready \/ PrepareKeepsMachine \/ PrepareRestores

Next ==
    \/ PrepareToPlay
    \/ ProcessBlock
    \/ GetStateInformation
    \/ SetStateInformation
    \/ RestoreMachineSnapshot
    \/ ResourcesChange

Spec == Init /\ [][Next]_vars
-------------------------------------------------------------------------------
(* Properties. *)

TypeOK ==
    /\ resources \in BOOLEAN
    /\ ready \in BOOLEAN
    /\ machine \in Project \cup {Boot, Empty}
    /\ executed \in Nat
    /\ cycleBase \in Nat
    /\ clock \in Nat
    /\ pending \in Snapshot
    /\ opened \in Snapshot
    /\ saved \in [machine : Project \cup {Boot, Empty}, opened : Snapshot]
    /\ stranded \in BOOLEAN

\* The machine has run to the cycle the DAW's timeline has come to.
OnTimeline ==
    /\ cycleBase + clock <= executed
    /\ executed <= cycleBase + clock + Overshoot

\* Whatever the host prepared, opened, restored or saved, and in what order,
\* the machine is where the DAW's timeline puts it, except after a snapshot
\* that setStateInformation() could not restore.
InStepUnlessStranded == ready /\ ~stranded => OnTimeline

\* The same without the exception: every reset of the timeline comes with a
\* rebasing of the machine.
InStep == ready => OnTimeline

\* The project the host opened last is in the machine or still waiting to be
\* restored: no order of prepare, restore and failing calls loses it.
OpenedProjectHeld ==
    opened \in Project => opened \in {machine, pending}

\* A running machine never waits for a snapshot that could be restored.
ReadyIsRestored == ready => pending \notin Project

\* No project is saved with the machine of another.
SavedNotMixed ==
    saved.opened \in Project => saved.machine \in {saved.opened, Empty}

\* A project that was opened is saved with its own machine.
SavedKeepsOpened ==
    saved.opened \in Project => saved.machine = saved.opened
===============================================================================
