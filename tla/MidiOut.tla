--------------------------------- MODULE MidiOut --------------------------------
(***************************************************************************)
(* SysEx from the EPS to the DAW: the bytes written to THRA wait in a      *)
(* buffer, and EmulatorBridge::collectMidiOutput() puts messages together  *)
(* again after each sample.  The bytes the buffer took are numbered in     *)
(* their order; a byte is its number, and sent[n] is what it was.          *)
(***************************************************************************)
EXTENDS Naturals, Sequences, FiniteSets

CONSTANTS
    TxSize,         \* of midi_tx
    MessageSize,    \* SysExOutputEvent::capacity
    Room,           \* for messages of one block
    MaxSent         \* bound on the bytes the EPS sends

OutByte == {"F0", "F7", "data", "clock"}

MidiOutAssumption ==
    {TxSize, MessageSize, Room, MaxSent} \subseteq Nat /\ MessageSize > 0

VARIABLES
    midiTx,         \* bytes the bridge has not drained
    collecting,     \* in the loop of collectMidiOutput()
    outputSysEx,    \* the message being put together
    outputInSysEx,
    count,          \* messages given to the host in this block
    sent,           \* history: what the EPS has sent
    since,          \* history: bytes drained when the bridge was last prepared
    delivered,      \* history: the messages given to the host since then
    refused         \* history: the host had no room for one of them

midiOutVars ==
    <<midiTx, collecting, outputSysEx, outputInSysEx, count, sent, since, delivered,
      refused>>

MidiOutInit ==
    /\ midiTx = <<>>
    /\ collecting = FALSE
    /\ outputSysEx = <<>>
    /\ outputInSysEx = FALSE
    /\ count = 0
    /\ sent = <<>>
    /\ since = 0
    /\ delivered = <<>>
    /\ refused = FALSE

\* THRA; a full buffer takes no byte.
WriteThra(byte) ==
    /\ ~collecting
    /\ Len(sent) < MaxSent
    /\ Len(midiTx) < TxSize
    /\ sent' = Append(sent, byte)
    /\ midiTx' = Append(midiTx, Len(sent) + 1)
    /\ UNCHANGED <<collecting, outputSysEx, outputInSysEx, count, since, delivered,
                   refused>>

\* After each sample all that waits is drained.
BeginCollect ==
    /\ ~collecting
    /\ midiTx # <<>>
    /\ collecting' = TRUE
    /\ UNCHANGED <<midiTx, outputSysEx, outputInSysEx, count, sent, since, delivered,
                   refused>>
-------------------------------------------------------------------------------
(* One byte of collectMidiOutput(): what it leaves of the message being put *)
(* together, and the message it completes, if any.                          *)

Assembly(in, bytes, complete) == [in |-> in, bytes |-> bytes, complete |-> complete]

\* Slip: a message that grows too long is forgotten, and then goes on.
CollectedTooLong(in, bytes, n) ==
    LET begins == sent[n] = "F0"
        before == IF begins THEN <<>> ELSE bytes
    IN
    IF sent[n] = "clock" \/ (~in /\ ~begins) THEN Assembly(in, bytes, FALSE)
    ELSE IF Len(before) = MessageSize THEN Assembly(TRUE, <<>>, FALSE)
    ELSE Assembly(sent[n] # "F7", Append(before, n), sent[n] = "F7")

\* Slip: the test for a full message is one too late.
CollectedOneMore(in, bytes, n) ==
    LET begins == sent[n] = "F0"
        before == IF begins THEN <<>> ELSE bytes
    IN
    IF sent[n] = "clock" \/ (~in /\ ~begins) THEN Assembly(in, bytes, FALSE)
    ELSE IF Len(before) > MessageSize THEN Assembly(FALSE, <<>>, FALSE)
    ELSE Assembly(sent[n] # "F7", Append(before, n), sent[n] = "F7")

Collected(in, bytes, n) ==
    LET begins == sent[n] = "F0"
        before == IF begins THEN <<>> ELSE bytes
    IN
    IF sent[n] = "clock" \/ (~in /\ ~begins) THEN Assembly(in, bytes, FALSE)
    ELSE IF Len(before) = MessageSize THEN Assembly(FALSE, <<>>, FALSE)
    ELSE Assembly(sent[n] # "F7", Append(before, n), sent[n] = "F7")

\* A message for which the host has no room is lost.
CollectByte ==
    /\ collecting
    /\ midiTx' = Tail(midiTx)
    /\ collecting' = (Tail(midiTx) # <<>>)
    /\ LET a == Collected(outputInSysEx, outputSysEx, Head(midiTx))
           given == a.complete /\ count < Room
       IN  /\ outputInSysEx' = a.in
           /\ outputSysEx' = IF a.complete THEN <<>> ELSE a.bytes
           /\ delivered' = IF given THEN Append(delivered, a.bytes) ELSE delivered
           /\ count' = IF given THEN count + 1 ELSE count
           /\ refused' = (refused \/ (a.complete /\ ~given))
    /\ UNCHANGED <<sent, since>>

\* process() starts the host's list anew.
NextBlock ==
    /\ ~collecting
    /\ midiTx = <<>>
    /\ count' = 0
    /\ UNCHANGED <<midiTx, collecting, outputSysEx, outputInSysEx, sent, since,
                   delivered, refused>>

\* prepare() and resetTimeline() forget a message half put together, while the
\* bytes that follow still wait in the machine.
PrepareOutput ==
    /\ ~collecting
    /\ outputSysEx' = <<>>
    /\ outputInSysEx' = FALSE
    /\ since' = Len(sent) - Len(midiTx)
    /\ delivered' = <<>>
    /\ refused' = FALSE
    /\ UNCHANGED <<midiTx, collecting, count, sent>>

MidiOutNext ==
    \/ \E b \in OutByte : WriteThra(b)
    \/ BeginCollect
    \/ CollectByte
    \/ NextBlock
    \/ PrepareOutput

MidiOutSpec == MidiOutInit /\ [][MidiOutNext]_midiOutVars
-------------------------------------------------------------------------------
(* Properties. *)

MidiOutTypeOK ==
    /\ midiTx \in Seq(Nat) /\ Len(midiTx) <= TxSize
    /\ collecting \in BOOLEAN
    /\ outputSysEx \in Seq(Nat) /\ Len(outputSysEx) <= MessageSize
    /\ outputInSysEx \in BOOLEAN
    /\ count \in 0 .. Room
    /\ sent \in Seq(OutByte)
    /\ since \in 0 .. Len(sent)
    /\ delivered \in Seq(Seq(Nat))
    /\ refused \in BOOLEAN

\* The bytes from one to another without the real-time bytes between them.
Line(i, j) == {k \in i .. j : sent[k] # "clock"}

\* Since the bridge was prepared, a message of the EPS from byte i to byte j: from
\* an F0 to the next F7 with no other F0 between, no longer than may be.
IsMessage(i, j) ==
    /\ since < i /\ i < j /\ j <= Len(sent)
    /\ sent[i] = "F0" /\ sent[j] = "F7"
    /\ \A k \in i + 1 .. j - 1 : sent[k] \in {"data", "clock"}
    /\ Cardinality(Line(i, j)) <= MessageSize

\* The bytes of a set in their order.
InOrder(bytes, set) ==
    /\ \A a, b \in DOMAIN bytes : a < b => bytes[a] < bytes[b]
    /\ \A a \in DOMAIN bytes : bytes[a] \in set
    /\ \A k \in set : \E a \in DOMAIN bytes : bytes[a] = k

First(message) == message[1]
Final(message) == message[Len(message)]

\* The host gets each SysEx message of the EPS once, whole and in order, with
\* no byte of another, however its bytes fall into samples and blocks, with
\* clocks between them, with messages too long or broken off before it, and
\* after the bridge was prepared in the middle of one.
DeliveredAsSent ==
    /\ \A n \in DOMAIN delivered :
          LET message == delivered[n] IN
          /\ message # <<>>
          /\ IsMessage(First(message), Final(message))
          /\ InOrder(message, Line(First(message), Final(message)))
    /\ \A m, n \in DOMAIN delivered : m < n => Final(delivered[m]) < First(delivered[n])
    /\ midiTx = <<>> /\ ~refused =>
          \A i, j \in DOMAIN sent : IsMessage(i, j) =>
              \E n \in DOMAIN delivered : First(delivered[n]) = i
================================================================================
