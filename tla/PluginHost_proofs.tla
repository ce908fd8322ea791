--------------------------- MODULE PluginHost_proofs ---------------------------
(***************************************************************************)
(* Proofs about PluginHost for any set of projects, any snapshot cycles,   *)
(* block length and overshoot.  Snapshots can only wait while there is no  *)
(* machine, which is what ties the project opened last to the machine; and *)
(* whoever resets the DAW's timeline moves cycleBase in the same call.     *)
(***************************************************************************)
EXTENDS PluginHost, TLAPS

\* The plug-in is ready exactly when its machine was initialised.
ReadyIffMachine == ready <=> machine # Empty

IInv ==
    /\ TypeOK
    /\ ReadyIffMachine
    /\ ReadyIsRestored
    /\ OpenedProjectHeld
    /\ SavedNotMixed
    /\ InStepUnlessStranded

\* A new instance satisfies the invariant.
LEMMA InitIInv == Init => IInv
<1> SUFFICES ASSUME Init PROVE IInv
  OBVIOUS
<1> USE DistinctAssumption DEF Init, Snapshot
<1>1. saved \in [machine : Project \cup {Boot, Empty}, opened : Snapshot]
  OBVIOUS
<1>2. TypeOK
  BY <1>1 DEF TypeOK
<1>3. ReadyIffMachine /\ ReadyIsRestored /\ OpenedProjectHeld
  BY DEF ReadyIffMachine, ReadyIsRestored, OpenedProjectHeld
<1>4. SavedNotMixed
  BY DEF SavedNotMixed
<1>5. InStepUnlessStranded
  BY DEF InStepUnlessStranded
<1>6. QED BY <1>2, <1>3, <1>4, <1>5 DEF IInv

\* The machine cycle a restore goes to is a number.
LEMMA SavedCyclesType == \A project \in Project : SavedCycles[project] \in Nat
  BY CyclesAssumption

\* The three outcomes of setStateInformation(), one snapshot at a time.
LEMMA SetStateCases ==
    ASSUME SetStateInformation
    PROVE  \/ \E snapshot \in Snapshot : SetStateDeferred(snapshot)
           \/ \E project \in Project : SetStateRestores(project)
           \/ SetStateRefused(Damaged)
  BY DEF SetStateInformation, SetStateRestores, SetStateRefused

\* Every call of the host keeps the types.
LEMMA NextTypeOK == TypeOK /\ [Next]_vars => TypeOK'
<1> SUFFICES ASSUME TypeOK, [Next]_vars PROVE TypeOK'
  OBVIOUS
<1> USE CyclesAssumption DEF TypeOK, Snapshot
<1>1. CASE PrepareUnready
  BY <1>1 DEF PrepareUnready
<1>2. CASE PrepareKeepsMachine
  BY <1>2 DEF PrepareKeepsMachine
<1>3. CASE PrepareRestores
  BY <1>3 DEF PrepareRestores, Restore
<1>4. CASE ProcessBlock
  <2>1. PICK excess \in 0 .. Overshoot :
            executed' = IF executed < cycleBase + clock'
                        THEN cycleBase + clock' + excess
                        ELSE executed
    BY <1>4 DEF ProcessBlock, RunUntil
  <2>2. clock' \in Nat /\ executed' \in Nat
    BY <1>4, <2>1 DEF ProcessBlock, RunUntil
  <2>3. QED BY <1>4, <2>2 DEF ProcessBlock, RunUntil
<1>5. CASE GetStateInformation
  <2>1. (IF ready THEN machine ELSE Empty) \in Project \cup {Boot, Empty}
    OBVIOUS
  <2>2. saved' \in [machine : Project \cup {Boot, Empty}, opened : Snapshot]
    BY <1>5, <2>1 DEF GetStateInformation
  <2>3. QED BY <1>5, <2>2 DEF GetStateInformation
<1>6. CASE SetStateInformation
  <2>1. CASE \E snapshot \in Snapshot : SetStateDeferred(snapshot)
    BY <2>1 DEF SetStateDeferred
  <2>2. CASE \E project \in Project : SetStateRestores(project)
    <3>1. PICK project \in Project : SetStateRestores(project)
      BY <2>2
    <3>2. SavedCycles[project] \in Nat
      BY SavedCyclesType
    <3>3. QED BY <3>1, <3>2 DEF SetStateRestores, Restore
  <2>3. CASE SetStateRefused(Damaged)
    BY <2>3 DEF SetStateRefused
  <2>4. QED BY <1>6, <2>1, <2>2, <2>3, SetStateCases
<1>7. CASE RestoreMachineSnapshot
  <2>1. PICK project \in Project :
            /\ Restore(project)
            /\ opened' = project
            /\ UNCHANGED <<resources, ready, pending, saved>>
    BY <1>7 DEF RestoreMachineSnapshot
  <2>2. SavedCycles[project] \in Nat
    BY SavedCyclesType
  <2>3. QED BY <2>1, <2>2 DEF Restore
<1>8. CASE ResourcesChange
  BY <1>8 DEF ResourcesChange
<1>9. CASE UNCHANGED vars
  BY <1>9 DEF vars
<1>10. QED
  BY <1>1, <1>2, <1>3, <1>4, <1>5, <1>6, <1>7, <1>8, <1>9
     DEF Next, PrepareToPlay

\* Every call of the host keeps the machine on the timeline.
LEMMA NextInStep ==
    TypeOK /\ InStepUnlessStranded /\ [Next]_vars => InStepUnlessStranded'
<1> SUFFICES ASSUME TypeOK, InStepUnlessStranded, [Next]_vars
             PROVE  InStepUnlessStranded'
  OBVIOUS
<1> USE CyclesAssumption DEF TypeOK, Snapshot, InStepUnlessStranded, OnTimeline
<1>1. CASE PrepareUnready
  BY <1>1 DEF PrepareUnready
<1>2. CASE PrepareKeepsMachine
  BY <1>2 DEF PrepareKeepsMachine
<1>3. CASE PrepareRestores
  BY <1>3 DEF PrepareRestores, Restore
<1>4. CASE ProcessBlock
  <2>1. PICK excess \in 0 .. Overshoot :
            executed' = IF executed < cycleBase + clock'
                        THEN cycleBase + clock' + excess
                        ELSE executed
    BY <1>4 DEF ProcessBlock, RunUntil
  <2>2. clock' = clock + BlockCycles /\ UNCHANGED <<ready, stranded, cycleBase>>
    BY <1>4 DEF ProcessBlock, RunUntil
  <2>3. SUFFICES ASSUME ready, ~stranded PROVE OnTimeline'
    BY <2>2
  <2>4. /\ cycleBase + clock <= executed
        /\ executed <= cycleBase + clock + Overshoot
    BY <2>3
  <2>5. cycleBase' + clock' <= executed' /\
        executed' <= cycleBase' + clock' + Overshoot
    BY <2>1, <2>2, <2>4
  <2>6. QED BY <2>5
<1>5. CASE GetStateInformation
  BY <1>5 DEF GetStateInformation
<1>6. CASE SetStateInformation
  <2>1. CASE \E snapshot \in Snapshot : SetStateDeferred(snapshot)
    BY <2>1 DEF SetStateDeferred
  <2>2. CASE \E project \in Project : SetStateRestores(project)
    BY <2>2, SavedCyclesType DEF SetStateRestores, Restore
  <2>3. CASE SetStateRefused(Damaged)
    BY <2>3 DEF SetStateRefused
  <2>4. QED BY <1>6, <2>1, <2>2, <2>3, SetStateCases
<1>7. CASE RestoreMachineSnapshot
  BY <1>7, SavedCyclesType DEF RestoreMachineSnapshot, Restore
<1>8. CASE ResourcesChange
  BY <1>8 DEF ResourcesChange
<1>9. CASE UNCHANGED vars
  BY <1>9 DEF vars
<1>10. QED
  BY <1>1, <1>2, <1>3, <1>4, <1>5, <1>6, <1>7, <1>8, <1>9
     DEF Next, PrepareToPlay

Held ==
    ReadyIffMachine /\ ReadyIsRestored /\ OpenedProjectHeld /\ SavedNotMixed

\* Every call of the host keeps the opened project and saves no other's.
LEMMA NextHeld == TypeOK /\ Held /\ [Next]_vars => Held'
<1> SUFFICES ASSUME TypeOK, Held, [Next]_vars PROVE Held'
  OBVIOUS
<1> USE DistinctAssumption
    DEF TypeOK, Snapshot, Held, ReadyIffMachine, ReadyIsRestored,
        OpenedProjectHeld, SavedNotMixed
<1>1. CASE PrepareUnready
  BY <1>1 DEF PrepareUnready
<1>2. CASE PrepareKeepsMachine
  BY <1>2 DEF PrepareKeepsMachine
<1>3. CASE PrepareRestores
  BY <1>3 DEF PrepareRestores, Restore
<1>4. CASE ProcessBlock
  BY <1>4 DEF ProcessBlock, RunUntil
<1>5. CASE GetStateInformation
  BY <1>5 DEF GetStateInformation
<1>6. CASE SetStateInformation
  <2>1. CASE \E snapshot \in Snapshot : SetStateDeferred(snapshot)
    BY <2>1 DEF SetStateDeferred
  <2>2. CASE \E project \in Project : SetStateRestores(project)
    BY <2>2, SavedCyclesType DEF SetStateRestores, Restore
  <2>3. CASE SetStateRefused(Damaged)
    BY <2>3 DEF SetStateRefused
  <2>4. QED BY <1>6, <2>1, <2>2, <2>3, SetStateCases
<1>7. CASE RestoreMachineSnapshot
  BY <1>7, SavedCyclesType DEF RestoreMachineSnapshot, Restore
<1>8. CASE ResourcesChange
  BY <1>8 DEF ResourcesChange
<1>9. CASE UNCHANGED vars
  BY <1>9 DEF vars
<1>10. QED
  BY <1>1, <1>2, <1>3, <1>4, <1>5, <1>6, <1>7, <1>8, <1>9
     DEF Next, PrepareToPlay

\* The invariant holds throughout.
THEOREM HostInvariant == Spec => []IInv
<1>1. Init => IInv
  BY InitIInv
<1>2. IInv /\ [Next]_vars => IInv'
  BY NextTypeOK, NextInStep, NextHeld DEF IInv, Held
<1>3. QED BY <1>1, <1>2, PTL DEF Spec

\* A plug-in that was not left stranded by a refused snapshot has run its
\* machine to the DAW's cycle, for every order of the host's calls.
THEOREM MachineInStep == Spec => []InStepUnlessStranded
<1>1. IInv => InStepUnlessStranded
  BY DEF IInv
<1>2. QED BY <1>1, HostInvariant, PTL

\* The project opened last is never lost: no order of prepareToPlay(), the
\* state calls and failing restores leaves it neither in the machine nor
\* waiting for one.
THEOREM ProjectKept == Spec => []OpenedProjectHeld
<1>1. IInv => OpenedProjectHeld
  BY DEF IInv
<1>2. QED BY <1>1, HostInvariant, PTL

\* What getStateInformation() saves for a project is that project's machine
\* or none, never the machine of another.
THEOREM SavedWithOwnMachine == Spec => []SavedNotMixed
<1>1. IInv => SavedNotMixed
  BY DEF IInv
<1>2. QED BY <1>1, HostInvariant, PTL

\* A plug-in that plays has no restorable snapshot waiting: every path that
\* makes it ready restores first.
THEOREM PlaysTheRestoredMachine == Spec => []ReadyIsRestored
<1>1. IInv => ReadyIsRestored
  BY DEF IInv
<1>2. QED BY <1>1, HostInvariant, PTL

\* The instance's state keeps its types; the machine is never Damaged.
THEOREM HostTypeCorrect == Spec => []TypeOK
<1>1. IInv => TypeOK
  BY DEF IInv
<1>2. QED BY <1>1, HostInvariant, PTL
===============================================================================
