-------------------------- MODULE ControlQueue_proofs --------------------------
(***************************************************************************)
(* Proofs about ControlQueue for every set of controls, every capacity and *)
(* every bound.  The argument: while a reset and an enqueue exclude each   *)
(* other, each side's local copy of its own index stays current and the    *)
(* one slot the producer owns is never among those the consumer may read.  *)
(***************************************************************************)
EXTENDS ControlQueue, SequenceTheorems, TLAPS

\* Successor wraps at the end of the ring; the rest of the proof is linear.
LEMMA SuccessorWraps ==
    ASSUME NEW index \in Index
    PROVE  /\ Successor(index) \in Index
           /\ index + 1 = Capacity => Successor(index) = 0
           /\ index + 1 # Capacity => Successor(index) = index + 1
<1>1. index \in Nat /\ index + 1 <= Capacity /\ Capacity \in Nat /\ Capacity > 1
  BY CapacityAssumption DEF Index
<1>2. CASE index + 1 = Capacity
  <2>1. Capacity % Capacity = 0
    BY <1>1
  <2>2. QED BY <1>1, <1>2, <2>1 DEF Successor, Index
<1>3. CASE index + 1 # Capacity
  <2>1. (index + 1) % Capacity = index + 1
    BY <1>1, <1>3
  <2>2. QED BY <1>1, <1>3, <2>1 DEF Successor, Index
<1>4. QED BY <1>2, <1>3
\* No two slots have one successor.
LEMMA SuccessorInjective ==
    ASSUME NEW index \in Index, NEW other \in Index,
           Successor(index) = Successor(other)
    PROVE  index = other
<1>1. /\ Successor(index) = IF index + 1 = Capacity THEN 0 ELSE index + 1
      /\ Successor(other) = IF other + 1 = Capacity THEN 0 ELSE other + 1
  BY SuccessorWraps
<1>2. index \in Nat /\ other \in Nat
  BY CapacityAssumption DEF Index
<1>3. (IF index + 1 = Capacity THEN 0 ELSE index + 1)
        = (IF other + 1 = Capacity THEN 0 ELSE other + 1)
  BY <1>1
<1>4. QED BY <1>2, <1>3, CapacityAssumption
-------------------------------------------------------------------------------
(* The inductive invariant. *)

\* A reset runs alone.
ResetAlone ==
    reset # "idle" => producer.at = "idle" /\ consumer.at = "idle"

\* The indices that a reset in progress has already stored.
ResetProgress ==
    /\ reset = "write" => controlRead = 0
    /\ reset = "drops" => controlRead = 0 /\ controlWrite = 0

\* The producer's copy of its index is current, and the slot it was granted
\* is free: the consumer's index can only move away from it.
ProducerOwnsSlot ==
    /\ producer.at # "idle" => producer.slot = controlWrite
    /\ producer.at \in {"fill", "publish"} =>
           Successor(producer.slot) # controlRead
    /\ producer.at = "publish" => controls[producer.slot] = producer.event

\* The consumer's copy of its index is current, its slot is filled, and the
\* copy it made is the slot's content.
ConsumerOwnsSlot ==
    /\ consumer.at # "idle" => /\ consumer.slot = controlRead
                               /\ controlRead # controlWrite
    /\ CopyStillValid

IInv ==
    /\ TypeOK
    /\ ResetAlone
    /\ ResetProgress
    /\ ProducerOwnsSlot
    /\ ConsumerOwnsSlot

\* The empty ring with both threads idle satisfies the invariant.
LEMMA InitIInv == Init => IInv
<1>1. 0 \in Index /\ 0 \in Nat
  BY CapacityAssumption DEF Index
<1>2. QED
  BY <1>1 DEF Init, IInv, TypeOK, ResetAlone, ResetProgress, ProducerOwnsSlot,
              ConsumerOwnsSlot, CopyStillValid

\* Every access of every thread preserves the invariant when a reset waits
\* for the running enqueue.
LEMMA NextIInv == QuietReset /\ IInv /\ [Next]_vars => IInv'
<1> SUFFICES ASSUME QuietReset, IInv, [Next]_vars
             PROVE  IInv'
  OBVIOUS
<1> USE DEF IInv, TypeOK
<1>0. 0 \in Index
  BY CapacityAssumption DEF Index
<1>1. ASSUME NEW event \in Control, EnqueueLoadWrite(event)
      PROVE  IInv'
  BY <1>1 DEF EnqueueLoadWrite, ResetAlone, ResetProgress, ProducerOwnsSlot,
              ConsumerOwnsSlot, CopyStillValid
<1>2. CASE EnqueueRefuse
  BY <1>2 DEF EnqueueRefuse, ResetAlone, ResetProgress, ProducerOwnsSlot,
              ConsumerOwnsSlot, CopyStillValid
<1>3. CASE EnqueueAccept
  BY <1>3 DEF EnqueueAccept, ResetAlone, ResetProgress, ProducerOwnsSlot,
              ConsumerOwnsSlot, CopyStillValid
<1>4. CASE EnqueueFillSlot
  <2>1. consumer.at # "idle" => consumer.slot # producer.slot
    BY <1>4 DEF EnqueueFillSlot, ProducerOwnsSlot, ConsumerOwnsSlot
  <2>2. CopyStillValid'
    BY <1>4, <2>1 DEF EnqueueFillSlot, ConsumerOwnsSlot, CopyStillValid
  <2>3. QED
    BY <1>4, <2>2 DEF EnqueueFillSlot, ResetAlone, ResetProgress,
                      ProducerOwnsSlot, ConsumerOwnsSlot
<1>5. CASE EnqueuePublish
  <2>1. controlWrite' = Successor(producer.slot) /\ controlWrite' \in Index
    BY <1>5, SuccessorWraps DEF EnqueuePublish
  <2>2. controlWrite' # controlRead
    BY <1>5, <2>1 DEF EnqueuePublish, ProducerOwnsSlot
  <2>3. QED
    BY <1>5, <2>1, <2>2 DEF EnqueuePublish, ResetAlone, ResetProgress,
                            ProducerOwnsSlot, ConsumerOwnsSlot, CopyStillValid
<1>6. CASE DequeueLoad
  BY <1>6 DEF DequeueLoad, ResetAlone, ResetProgress, ProducerOwnsSlot,
              ConsumerOwnsSlot, CopyStillValid
<1>7. CASE DequeueCopySlot
  BY <1>7 DEF DequeueCopySlot, ResetAlone, ResetProgress, ProducerOwnsSlot,
              ConsumerOwnsSlot, CopyStillValid
<1>8. CASE DequeueRelease
  <2>1. /\ controlRead' = Successor(controlRead)
        /\ controlRead' \in Index
        /\ controlRead # controlWrite
    BY <1>8, SuccessorWraps DEF DequeueRelease, ConsumerOwnsSlot
  <2>2. producer.at \in {"fill", "publish"} =>
            Successor(producer.slot) # controlRead'
    BY <2>1, SuccessorInjective DEF ProducerOwnsSlot
  <2>3. reset = "idle"
    BY <1>8 DEF DequeueRelease, ResetAlone
  <2>4. QED
    BY <1>8, <2>1, <2>2, <2>3 DEF DequeueRelease, ResetAlone, ResetProgress,
                            ProducerOwnsSlot, ConsumerOwnsSlot, CopyStillValid
<1>9. CASE Reset
  BY <1>0, <1>9 DEF Reset, ResetRead, ResetWrite, ResetDrops, ResetAlone,
              ResetProgress, ProducerOwnsSlot, ConsumerOwnsSlot, CopyStillValid
<1>10. CASE UNCHANGED vars
  BY <1>10 DEF vars, ResetAlone, ResetProgress, ProducerOwnsSlot,
               ConsumerOwnsSlot, CopyStillValid, Successor
<1>11. QED
  BY <1>1, <1>2, <1>3, <1>4, <1>5, <1>6, <1>7, <1>8, <1>9, <1>10
     DEF Next, Enqueue, Dequeue

\* The invariant holds throughout when resets wait for the running enqueue.
THEOREM QueueInvariant == QuietReset => (Spec => []IInv)
<1> SUFFICES ASSUME QuietReset PROVE Spec => []IInv
  OBVIOUS
<1>1. IInv /\ [Next]_vars => IInv'
  BY NextIInv
<1>2. Init => IInv
  BY InitIInv
<1>3. QED BY <1>1, <1>2, PTL DEF Spec

\* The editor and the audio callback never touch one slot at the same time,
\* for every capacity of the ring (EmulatorBridge.cpp:125-144).
THEOREM NoRaceOnSlots == QuietReset => (Spec => []NoSlotRace)
<1>1. IInv => NoSlotRace
  BY DEF IInv, ProducerOwnsSlot, ConsumerOwnsSlot, NoSlotRace
<1>2. QED BY <1>1, QueueInvariant, PTL

\* The event dequeue() copied is still in its slot when the slot is released:
\* what the audio callback dispatches is what the editor queued.
THEOREM CopiesStayValid == QuietReset => (Spec => []CopyStillValid)
<1>1. IInv => CopyStillValid
  BY DEF IInv, ConsumerOwnsSlot
<1>2. QED BY <1>1, QueueInvariant, PTL

\* The ring's variables keep their types: both indices stay inside the ring.
THEOREM QueueTypeCorrect == QuietReset => (Spec => []TypeOK)
<1>1. IInv => TypeOK
  BY DEF IInv
<1>2. QED BY <1>1, QueueInvariant, PTL
-------------------------------------------------------------------------------
(* The ring implements the bounded queue. *)

\* The window of unread slots lies inside the ring and never fills it.
LEMMA WindowBounds ==
    ASSUME TypeOK
    PROVE  /\ Waiting \in 0 .. Capacity - 1
           /\ \A k \in 0 .. Capacity - 1 : SlotOf(k) \in Index
  BY CapacityAssumption DEF TypeOK, Index, Waiting, SlotOf

\* The abstract queue is a sequence of controls, one for each unread slot.
ContentsAreWindow ==
    /\ Contents \in Seq(Control)
    /\ Len(Contents) = IF reset = "idle" THEN Waiting ELSE 0
    /\ reset = "idle" =>
           \A k \in 1 .. Waiting : Contents[k] = controls[SlotOf(k - 1)]

LEMMA ContentsSequence == TypeOK => ContentsAreWindow
<1> SUFFICES ASSUME TypeOK PROVE ContentsAreWindow
  OBVIOUS
<1> USE DEF ContentsAreWindow
<1>1. CASE reset = "idle"
  <2>1. Waiting \in Nat
    BY WindowBounds, CapacityAssumption
  <2>2. \A k \in 1 .. Waiting : controls[SlotOf(k - 1)] \in Control
    BY WindowBounds, CapacityAssumption DEF TypeOK
  <2>3. Contents = [k \in 1 .. Waiting |-> controls[SlotOf(k - 1)]]
    BY <1>1 DEF Contents
  <2>4. Contents \in [1 .. Waiting -> Control]
    BY <2>2, <2>3
  <2>5. Contents \in Seq(Control)
    BY <2>1, <2>4, SeqDef
  <2>6. Len(Contents) = Waiting
    BY <2>1, <2>4, <2>5, LenProperties
  <2>7. QED BY <1>1, <2>3, <2>5, <2>6
<1>2. CASE reset # "idle"
  BY <1>2, EmptySeq DEF Contents
<1>3. QED BY <1>1, <1>2

\* A step that leaves the indices, the reset and every unread slot alone
\* leaves the abstract queue alone.
LEMMA ContentsUntouched ==
    ASSUME TypeOK, UNCHANGED <<controlRead, controlWrite, reset>>,
           reset = "idle" => \A k \in 1 .. Waiting :
               controls'[SlotOf(k - 1)] = controls[SlotOf(k - 1)]
    PROVE  Contents' = Contents
<1>1. Waiting' = Waiting /\ \A k \in 1 .. Waiting : SlotOf(k - 1)' = SlotOf(k - 1)
  BY DEF Waiting, SlotOf
<1>2. CASE reset = "idle"
  <2>1. Contents = [k \in 1 .. Waiting |-> controls[SlotOf(k - 1)]]
    BY <1>2 DEF Contents
  <2>2. Contents' = [k \in 1 .. Waiting |-> controls'[SlotOf(k - 1)]]
    BY <1>1, <1>2 DEF Contents, Waiting, SlotOf
  <2>3. QED BY <1>2, <2>1, <2>2
<1>3. CASE reset # "idle"
  BY <1>3 DEF Contents
<1>4. QED BY <1>2, <1>3

\* Publishing a slot appends its event to a queue that has room.
LEMMA PublishIsPut ==
    ASSUME IInv, TypeOK', EnqueuePublish
    PROVE  /\ Len(Contents) < Capacity - 1
           /\ Contents' = Append(Contents, producer.event)
<1> USE DEF IInv
<1>1. /\ reset = "idle" /\ reset' = "idle"
      /\ controlRead' = controlRead /\ controls' = controls
      /\ controlWrite' = Successor(controlWrite)
      /\ Successor(controlWrite) # controlRead
      /\ controls[controlWrite] = producer.event
      /\ controlRead \in Index /\ controlWrite \in Index
      /\ producer.event \in Control
  BY DEF EnqueuePublish, ResetAlone, ProducerOwnsSlot, TypeOK
<1>2. Successor(controlWrite)
        = IF controlWrite + 1 = Capacity THEN 0 ELSE controlWrite + 1
  BY <1>1, SuccessorWraps
<1>3. /\ Waiting + 1 < Capacity
      /\ Waiting' = Waiting + 1
      /\ SlotOf(Waiting) = controlWrite
  BY <1>1, <1>2, CapacityAssumption DEF Waiting, SlotOf, Index
<1>4. \A k \in Nat : SlotOf(k)' = SlotOf(k)
  BY <1>1 DEF SlotOf
<1> DEFINE longer == Append(Contents, producer.event)
<1>5. /\ Contents \in Seq(Control) /\ Len(Contents) = Waiting
      /\ \A k \in 1 .. Waiting : Contents[k] = controls[SlotOf(k - 1)]
  BY <1>1, ContentsSequence DEF ContentsAreWindow
<1>6. ContentsAreWindow'
  BY ContentsSequence, PTL
<1>7. /\ Contents' \in Seq(Control) /\ Len(Contents') = Waiting'
      /\ \A k \in 1 .. Waiting' : Contents'[k] = controls'[SlotOf(k - 1)']
  BY <1>1, <1>6 DEF ContentsAreWindow
<1>8. /\ longer \in Seq(Control) /\ Len(longer) = Waiting + 1
      /\ \A k \in 1 .. Waiting : longer[k] = Contents[k]
      /\ longer[Waiting + 1] = producer.event
  BY <1>1, <1>5, AppendProperties
<1>9. Waiting \in Nat
  BY WindowBounds, CapacityAssumption
<1>10. ASSUME NEW k \in 1 .. Waiting + 1
       PROVE  Contents'[k] = longer[k]
  <2>1. Contents'[k] = controls[SlotOf(k - 1)]
    BY <1>1, <1>3, <1>4, <1>7, <1>9
  <2>2. CASE k = Waiting + 1
    BY <1>1, <1>3, <1>8, <1>9, <2>1, <2>2
  <2>3. CASE k # Waiting + 1
    BY <1>5, <1>8, <1>9, <2>1, <2>3
  <2>4. QED BY <2>2, <2>3
<1>11. Contents' = longer
  BY <1>3, <1>7, <1>8, <1>10, SeqEqual
<1>12. QED BY <1>3, <1>5, <1>9, <1>11, CapacityAssumption

\* Storing the consumer's index hands out and removes the oldest control.
LEMMA ReleaseIsTake ==
    ASSUME IInv, TypeOK', DequeueRelease
    PROVE  /\ Contents # <<>>
           /\ dispatched' = Head(Contents)
           /\ Contents' = Tail(Contents)
<1> USE DEF IInv
<1>1. /\ reset = "idle" /\ reset' = "idle"
      /\ controlWrite' = controlWrite /\ controls' = controls
      /\ controlRead' = Successor(controlRead)
      /\ controlRead # controlWrite
      /\ dispatched' = controls[controlRead]
      /\ controlRead \in Index /\ controlWrite \in Index
  BY DEF DequeueRelease, ResetAlone, ConsumerOwnsSlot, CopyStillValid, TypeOK
<1>2. Successor(controlRead)
        = IF controlRead + 1 = Capacity THEN 0 ELSE controlRead + 1
  BY <1>1, SuccessorWraps
<1>3. /\ Waiting \in Nat /\ Waiting > 0
      /\ Waiting' = Waiting - 1
      /\ SlotOf(0) = controlRead
  BY <1>1, <1>2, CapacityAssumption DEF Waiting, SlotOf, Index
<1>4. \A k \in 0 .. Waiting - 2 : SlotOf(k)' = SlotOf(k + 1)
  BY <1>1, <1>2, CapacityAssumption DEF Waiting, SlotOf, Index
<1>5. /\ Contents \in Seq(Control) /\ Len(Contents) = Waiting
      /\ \A k \in 1 .. Waiting : Contents[k] = controls[SlotOf(k - 1)]
  BY <1>1, ContentsSequence DEF ContentsAreWindow
<1>6. ContentsAreWindow'
  BY ContentsSequence, PTL
<1>7. /\ Contents' \in Seq(Control) /\ Len(Contents') = Waiting'
      /\ \A k \in 1 .. Waiting' : Contents'[k] = controls'[SlotOf(k - 1)']
  BY <1>1, <1>6 DEF ContentsAreWindow
<1>8. Contents # <<>>
  BY <1>3, <1>5, EmptySeq
<1>9. /\ Tail(Contents) \in Seq(Control)
      /\ Len(Tail(Contents)) = Waiting - 1
      /\ \A k \in 1 .. Waiting - 1 : Tail(Contents)[k] = Contents[k + 1]
  BY <1>5, <1>8, HeadTailProperties
<1>10. ASSUME NEW k \in 1 .. Waiting - 1
       PROVE  Contents'[k] = Tail(Contents)[k]
  <2>1. Contents'[k] = controls[SlotOf(k - 1)']
    BY <1>1, <1>3, <1>7
  <2>2. SlotOf(k - 1)' = SlotOf(k)
    BY <1>3, <1>4
  <2>3. Contents[k + 1] = controls[SlotOf(k)]
    BY <1>3, <1>5
  <2>4. QED BY <1>9, <2>1, <2>2, <2>3
<1>11. Contents' = Tail(Contents)
  BY <1>3, <1>7, <1>9, <1>10, SeqEqual
<1>12. Head(Contents) = Contents[1]
  BY <1>5, <1>8
<1>13. Head(Contents) = controls[controlRead]
  BY <1>3, <1>5, <1>12
<1>14. QED BY <1>1, <1>8, <1>11, <1>13

\* Every step of the ring is a step of the bounded queue or leaves it alone.
LEMMA StepImplementsFifo ==
    ASSUME QuietReset, IInv, TypeOK', [Next]_vars
    PROVE  [Fifo!Next]_Fifo!fifoVars
<1> USE DEF IInv
<1> DEFINE Untouched == UNCHANGED <<Contents, dispatched, Refused>>
<1>0. Untouched => [Fifo!Next]_Fifo!fifoVars
  BY DEF Fifo!fifoVars
<1>1. ASSUME NEW event \in Control, EnqueueLoadWrite(event)
      PROVE  Untouched
  BY <1>1, ContentsUntouched DEF EnqueueLoadWrite, Refused
<1>2. CASE EnqueueRefuse
  <2>1. reset = "idle" /\ producer.slot = controlWrite
    BY <1>2 DEF EnqueueRefuse, ResetAlone, ProducerOwnsSlot
  <2>2. controlWrite \in Index /\ controlRead \in Index
    BY DEF TypeOK
  <2>3. controlRead = IF controlWrite + 1 = Capacity THEN 0 ELSE controlWrite + 1
    BY <1>2, <2>1, <2>2, SuccessorWraps DEF EnqueueRefuse
  <2>4. Waiting = Capacity - 1
    BY <2>2, <2>3, CapacityAssumption DEF Waiting, Index
  <2>5. Len(Contents) = Capacity - 1
    BY <2>1, <2>4, ContentsSequence DEF ContentsAreWindow
  <2>6. Contents' = Contents
    BY <1>2, ContentsUntouched DEF EnqueueRefuse
  <2>7. Refused' = Refused + 1 /\ dispatched' = dispatched
    BY <1>2, <2>1 DEF EnqueueRefuse, Refused
  <2>8. QED BY <2>5, <2>6, <2>7 DEF Fifo!Next, Fifo!Refuse
<1>3. CASE EnqueueAccept
  BY <1>0, <1>3, ContentsUntouched DEF EnqueueAccept, Refused
<1>4. CASE EnqueueFillSlot
  <2>1. reset = "idle" => \A k \in 1 .. Waiting : SlotOf(k - 1) # producer.slot
    <3>1. /\ producer.slot = controlWrite
          /\ controlWrite \in Index /\ controlRead \in Index
      BY <1>4 DEF EnqueueFillSlot, ProducerOwnsSlot, TypeOK
    <3>2. QED BY <3>1, CapacityAssumption DEF Waiting, SlotOf, Index
  <2>2. \A k \in 1 .. Waiting : SlotOf(k - 1) \in Index
    BY WindowBounds, CapacityAssumption
  <2>3. reset = "idle" => \A k \in 1 .. Waiting :
            controls'[SlotOf(k - 1)] = controls[SlotOf(k - 1)]
    BY <1>4, <2>1, <2>2 DEF EnqueueFillSlot, TypeOK
  <2>4. Contents' = Contents
    BY <1>4, <2>3, ContentsUntouched DEF EnqueueFillSlot
  <2>5. QED BY <1>0, <1>4, <2>4 DEF EnqueueFillSlot, Refused
<1>5. CASE EnqueuePublish
  <2>1. producer.event \in Control
    BY DEF TypeOK
  <2>2. Fifo!Put
    BY <1>5, <2>1, PublishIsPut DEF Fifo!Put, EnqueuePublish, Refused
  <2>3. QED BY <2>2 DEF Fifo!Next
<1>6. CASE DequeueLoad
  BY <1>0, <1>6, ContentsUntouched DEF DequeueLoad, Refused
<1>7. CASE DequeueCopySlot
  BY <1>0, <1>7, ContentsUntouched DEF DequeueCopySlot, Refused
<1>8. CASE DequeueRelease
  <2>1. Fifo!Take
    BY <1>8, ReleaseIsTake DEF Fifo!Take, DequeueRelease, Refused
  <2>2. QED BY <2>1 DEF Fifo!Next
<1>9. CASE ResetRead
  <2>1. Fifo!Clear
    BY <1>9 DEF ResetRead, Fifo!Clear, Contents, Refused
  <2>2. QED BY <2>1 DEF Fifo!Next
<1>10. CASE ResetWrite
  BY <1>0, <1>10 DEF ResetWrite, Contents, Refused
<1>11. CASE ResetDrops
  <2>1. controlRead' = 0 /\ controlWrite' = 0 /\ reset' = "idle"
    BY <1>11 DEF ResetDrops, ResetProgress
  <2>2. Waiting' = 0
    BY <2>1 DEF Waiting
  <2>3. ContentsAreWindow'
    BY ContentsSequence, PTL
  <2>4. Contents' = <<>>
    BY <2>1, <2>2, <2>3, EmptySeq DEF ContentsAreWindow
  <2>5. Contents = <<>> /\ Refused = 0 /\ Refused' = 0
    BY <1>11 DEF ResetDrops, Contents, Refused
  <2>6. QED BY <1>0, <1>11, <2>4, <2>5 DEF ResetDrops
<1>12. CASE UNCHANGED vars
  BY <1>0, <1>12, ContentsUntouched DEF vars, Refused
<1>13. QED
  BY <1>0, <1>1, <1>2, <1>3, <1>4, <1>5, <1>6, <1>7, <1>8, <1>9, <1>10, <1>11,
     <1>12 DEF Next, Enqueue, Dequeue, Reset

\* The lock-free ring is a bounded first-in first-out queue for every set of
\* controls and every capacity, as long as no reset overlaps an enqueue.
THEOREM QueueImplementsFifo == QuietReset => (Spec => ImplementsFifo)
<1> SUFFICES ASSUME QuietReset PROVE Spec => ImplementsFifo
  OBVIOUS
<1>1. Init => Fifo!Init
  <2> SUFFICES ASSUME Init PROVE Fifo!Init
    OBVIOUS
  <2>1. IInv
    BY InitIInv
  <2>2. reset = "idle" /\ Waiting = 0 /\ Refused = 0 /\ dispatched \in Control
    BY DEF Init, Waiting, Refused
  <2>3. Contents = <<>>
    BY <2>1, <2>2, ContentsSequence, EmptySeq DEF IInv, ContentsAreWindow
  <2>4. QED BY <2>2, <2>3 DEF Fifo!Init
<1>2. IInv /\ TypeOK' /\ [Next]_vars => [Fifo!Next]_Fifo!fifoVars
  BY StepImplementsFifo
<1>3. IInv => TypeOK
  BY DEF IInv
<1>4. QED
  BY <1>1, <1>2, <1>3, QueueInvariant, PTL DEF Spec, ImplementsFifo, Fifo!Spec
===============================================================================
