----------------------------- MODULE ControlQueue -----------------------------
(***************************************************************************)
(* The single-producer single-consumer ring that carries panel, keyboard   *)
(* and analog controls from the editor's message thread to the audio       *)
(* callback (EmulatorBridge::enqueue, dequeue).  Each action is one access *)
(* to shared memory, so the steps of the two threads interleave as the     *)
(* atomics of the code allow; release/acquire on the two indices orders    *)
(* the plain accesses to the slots, which is what a step at a time models. *)
(*                                                                         *)
(* A third thread, the host's, empties the ring in prepare() and           *)
(* resetTimeline() with plain stores of zero.  The callback lock keeps the *)
(* consumer out of the way; nothing in the code keeps the producer out.    *)
(* QuietReset says whether the host does.                                  *)
(***************************************************************************)
EXTENDS Naturals, Sequences

CONSTANTS
    Control,    \* the control events, ControlEvent in the code
    Capacity,   \* slots in the ring: controlQueueCapacity, 512
    MaxDrops,   \* bound: no call starts once this many were refused
    QuietReset  \* TRUE: the ring is only reset while no enqueue is running

ASSUME ControlAssumption == Control # {}
ASSUME CapacityAssumption == Capacity \in Nat /\ Capacity > 1
ASSUME MaxDropsAssumption == MaxDrops \in Nat
ASSUME QuietResetAssumption == QuietReset \in BOOLEAN

VARIABLES
    controls,       \* the slots
    controlRead,    \* index of the oldest unread slot, stored by the consumer
    controlWrite,   \* index of the next free slot, stored by the producer
    controlDrops,   \* refused calls
    producer,       \* where enqueue() is, with its local copies
    consumer,       \* where dequeue() is, with its local copies
    dispatched,     \* the event dequeue() last returned to dispatchControls
    reset           \* where the host thread's reset is

vars == <<controls, controlRead, controlWrite, controlDrops,
          producer, consumer, dispatched, reset>>

Index == 0 .. Capacity - 1

\* Slip: the index runs off the end of the ring.
SuccessorUnwrapped(index) == index + 1

Successor(index) == (index + 1) % Capacity

\* Every event starts value-initialised, so as one and the same event.
Init ==
    \E blank \in Control :
        /\ controls = [index \in Index |-> blank]
        /\ controlRead = 0
        /\ controlWrite = 0
        /\ controlDrops = 0
        /\ producer = [at |-> "idle", slot |-> 0, event |-> blank]
        /\ consumer = [at |-> "idle", slot |-> 0, event |-> blank]
        /\ dispatched = blank
        /\ reset = "idle"
-------------------------------------------------------------------------------
(* The message thread: enqueue(event). *)

EnqueueLoadWrite(event) ==
    /\ producer.at = "idle"
    /\ QuietReset => reset = "idle"
    /\ controlDrops < MaxDrops
    /\ producer' = [at |-> "check", slot |-> controlWrite, event |-> event]
    /\ UNCHANGED <<controls, controlRead, controlWrite, controlDrops,
                   consumer, dispatched, reset>>

EnqueueRefuse ==
    /\ producer.at = "check"
    /\ Successor(producer.slot) = controlRead
    /\ controlDrops' = controlDrops + 1
    /\ producer' = [producer EXCEPT !.at = "idle"]
    /\ UNCHANGED <<controls, controlRead, controlWrite, consumer, dispatched,
                   reset>>

\* Slip: the ring is not looked at before the slot is filled.
EnqueueAcceptUnchecked ==
    /\ producer.at = "check"
    /\ producer' = [producer EXCEPT !.at = "fill"]
    /\ UNCHANGED <<controls, controlRead, controlWrite, controlDrops,
                   consumer, dispatched, reset>>

\* Slip: the index is published before the slot is filled.
EnqueueAcceptPublishes ==
    /\ producer.at = "check"
    /\ Successor(producer.slot) # controlRead
    /\ controlWrite' = Successor(producer.slot)
    /\ producer' = [producer EXCEPT !.at = "fill"]
    /\ UNCHANGED <<controls, controlRead, controlDrops, consumer, dispatched,
                   reset>>

EnqueueAccept ==
    /\ producer.at = "check"
    /\ Successor(producer.slot) # controlRead
    /\ producer' = [producer EXCEPT !.at = "fill"]
    /\ UNCHANGED <<controls, controlRead, controlWrite, controlDrops,
                   consumer, dispatched, reset>>

EnqueueFillSlot ==
    /\ producer.at = "fill"
    /\ controls' = [controls EXCEPT ![producer.slot] = producer.event]
    /\ producer' = [producer EXCEPT !.at = "publish"]
    /\ UNCHANGED <<controlRead, controlWrite, controlDrops, consumer,
                   dispatched, reset>>

EnqueuePublish ==
    /\ producer.at = "publish"
    /\ controlWrite' = Successor(producer.slot)
    /\ producer' = [producer EXCEPT !.at = "idle"]
    /\ UNCHANGED <<controls, controlRead, controlDrops, consumer, dispatched,
                   reset>>
-------------------------------------------------------------------------------
(* The audio thread: dequeue(event). *)

\* The queue looks empty, dequeue() returns false: nothing changes, so only
\* the load that finds a control is a step.
DequeueLoad ==
    /\ consumer.at = "idle"
    /\ reset = "idle"
    /\ controlRead # controlWrite
    /\ consumer' = [consumer EXCEPT !.at = "copy", !.slot = controlRead]
    /\ UNCHANGED <<controls, controlRead, controlWrite, controlDrops,
                   producer, dispatched, reset>>

DequeueCopySlot ==
    /\ consumer.at = "copy"
    /\ consumer' = [consumer EXCEPT !.at = "release",
                                    !.event = controls[consumer.slot]]
    /\ UNCHANGED <<controls, controlRead, controlWrite, controlDrops,
                   producer, dispatched, reset>>

DequeueRelease ==
    /\ consumer.at = "release"
    /\ controlRead' = Successor(consumer.slot)
    /\ consumer' = [consumer EXCEPT !.at = "idle"]
    /\ dispatched' = consumer.event
    /\ UNCHANGED <<controls, controlWrite, controlDrops, producer, reset>>
-------------------------------------------------------------------------------
(* The host thread: prepare() and resetTimeline(), outside the callback. *)

ResetRead ==
    /\ reset = "idle"
    /\ consumer.at = "idle"
    /\ QuietReset => producer.at = "idle"
    /\ controlRead' = 0
    /\ reset' = "write"
    /\ UNCHANGED <<controls, controlWrite, controlDrops, producer, consumer,
                   dispatched>>

ResetWrite ==
    /\ reset = "write"
    /\ controlWrite' = 0
    /\ reset' = "drops"
    /\ UNCHANGED <<controls, controlRead, controlDrops, producer, consumer,
                   dispatched>>

ResetDrops ==
    /\ reset = "drops"
    /\ controlDrops' = 0
    /\ reset' = "idle"
    /\ UNCHANGED <<controls, controlRead, controlWrite, producer, consumer,
                   dispatched>>
-------------------------------------------------------------------------------
Enqueue ==
    \/ \E event \in Control : EnqueueLoadWrite(event)
    \/ EnqueueRefuse
    \/ EnqueueAccept
    \/ EnqueueFillSlot
    \/ EnqueuePublish

Dequeue == DequeueLoad \/ DequeueCopySlot \/ DequeueRelease

Reset == ResetRead \/ ResetWrite \/ ResetDrops

Next == Enqueue \/ Dequeue \/ Reset

Spec == Init /\ [][Next]_vars
-------------------------------------------------------------------------------
(* Properties. *)

TypeOK ==
    /\ controls \in [Index -> Control]
    /\ controlRead \in Index
    /\ controlWrite \in Index
    /\ controlDrops \in Nat
    /\ producer \in [at : {"idle", "check", "fill", "publish"},
                     slot : Index, event : Control]
    /\ consumer \in [at : {"idle", "copy", "release"},
                     slot : Index, event : Control]
    /\ dispatched \in Control
    /\ reset \in {"idle", "write", "drops"}

\* How many slots are filled and unread, and the k-th oldest of them.
Waiting ==
    IF controlRead <= controlWrite
    THEN controlWrite - controlRead
    ELSE controlWrite + Capacity - controlRead

SlotOf(k) ==
    IF controlRead + k < Capacity
    THEN controlRead + k
    ELSE controlRead + k - Capacity

Contents ==
    IF reset = "idle"
    THEN [k \in 1 .. Waiting |-> controls[SlotOf(k - 1)]]
    ELSE <<>>

\* The message thread never writes a slot the audio thread is copying: the
\* plain accesses to controls[] in enqueue() and dequeue() do not race.
NoSlotRace ==
    ~ /\ producer.at = "fill"
      /\ consumer.at = "copy"
      /\ producer.slot = consumer.slot

\* While the audio thread is inside dequeue(), the slot it took its copy from
\* still holds that copy: what it hands on is what was queued.
CopyStillValid ==
    consumer.at = "release" => consumer.event = controls[consumer.slot]

\* The ring is a first-in first-out queue of Capacity - 1 controls: a control
\* is taken in the order it was accepted, exactly once, and a call is refused
\* only when the ring is full.
Refused == IF reset = "idle" THEN controlDrops ELSE 0

Fifo == INSTANCE BoundedFifo WITH
            Limit   <- Capacity - 1,
            queue   <- Contents,
            taken   <- dispatched,
            refused <- Refused

ImplementsFifo == Fifo!Spec
===============================================================================
