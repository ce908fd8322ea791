------------------------------ MODULE Snapshot ------------------------------
(***************************************************************************)
(* The machine snapshot of the plug-in's project state                     *)
(* (eps16_probe_machine_save_state and _load_state).  The format grew      *)
(* through eight versions.  A snapshot of an older version lacks the       *)
(* fields of the later ones, and a restore must give them a value all the  *)
(* same: a constant, or one derived from fields that are there.            *)
(*                                                                         *)
(* A group of fields that is saved together is one field of the record     *)
(* "machine", with content "off" (what the code resets it to) or "on"      *)
(* (anything else).                                                        *)
(***************************************************************************)
EXTENDS Naturals, FiniteSets

CONSTANTS Rates,          \* DAW sample rates
          PanelWireSize,  \* PANEL_WIRE_SIZE
          Releases,       \* bytes of the note-offs a restore sends
          MaxChanges      \* bound: what the machine does in one behaviour

ASSUME SnapshotAssumption ==
    /\ PanelWireSize \in Nat /\ Releases \in Nat /\ MaxChanges \in Nat
    /\ Rates # {}

VARIABLES machine,   \* the restorable state, group by group
          held,      \* the snapshot in the project file, or NoSnapshot
          outcomes,  \* the machines its restores have led to
          answer,    \* what the last load_state() returned
          changes
snapshotVars == <<machine, held, outcomes, answer, changes>>

Contents == {"off", "on"}
NoSnapshot == [version |-> 0]
Versions == 1 .. 8

\* Groups with the version that first saved them.
Since == [core |-> 1, display |-> 1, indicators |-> 2, circuit |-> 3,
          published |-> 4, segments |-> 4, level |-> 5, edit |-> 6, damage |-> 7]

\* Parts of the machine no snapshot holds.  load_state() empties them, but
\* for the SCSI chip, which it leaves as it is.
Emptied == {"midiWire", "audioQueue", "inputHistory"}

Groups == DOMAIN Since
Parts == Groups \cup Emptied \cup {"scsi"}

\* DUART channel A: the last receiver command, the receive interrupt's
\* mask bit, and the receiver itself.
Commands == {"none", "enable", "disable"}

Machines == [part : [Parts -> Contents], command : Commands, masked : BOOLEAN,
             receiver : BOOLEAN, position : {"null", "inside"},
             wire : 0 .. PanelWireSize, rate : Rates]

(***************************************************************************)
(* plugin_initialize_loaded_rom() and the first prepare(): nothing is      *)
(* saved and nothing has happened yet.                                     *)
(***************************************************************************)
SnapshotInit ==
    /\ \E rate \in Rates :
          machine = [part |-> [p \in Parts |-> "off"], command |-> "none",
                     masked |-> TRUE, receiver |-> FALSE, position |-> "null",
                     wire |-> 0, rate |-> rate]
    /\ held = NoSnapshot
    /\ outcomes = {}
    /\ answer = "none"
    /\ changes = 0

\* The machine at work: one of its parts takes another content.
Works ==
    \/ \E p \in Parts : \E c \in Contents \ {machine.part[p]} :
          machine' = [machine EXCEPT !.part[p] = c]
    \/ \E c \in Commands \ {"none"} :         \* duart_write(), command A
          machine' = [machine EXCEPT !.command = c, !.receiver = (c = "enable")]
    \/ machine' = [machine EXCEPT !.masked = ~@]
    \/ \E where \in {"null", "inside"} \ {machine.position} :   \* fdc_data
          machine' = [machine EXCEPT !.position = where]
    \/ \E n \in 1 .. PanelWireSize :
          machine' = [machine EXCEPT !.wire = n]
    \/ \E rate \in Rates \ {machine.rate} :   \* sampling_input_rate()
          machine' = [machine EXCEPT !.rate = rate, !.part["circuit"] = "off",
                                     !.part["inputHistory"] = "off"]

Work ==
    /\ changes < MaxChanges
    /\ Works
    /\ changes' = changes + 1
    /\ UNCHANGED <<held, outcomes, answer>>

(***************************************************************************)
(* save_state() of the program that wrote that version: the groups it      *)
(* knows, and the position of fdc_data in the disk image.                  *)
(***************************************************************************)
Saved(version) ==
    [version |-> version,
     part |-> [g \in {g \in Groups : Since[g] <= version} |-> machine.part[g]],
     command |-> machine.command, masked |-> machine.masked,
     receiver |-> IF version >= 8 THEN machine.receiver ELSE FALSE,
     position |-> machine.position, wire |-> machine.wire, rate |-> machine.rate]

SaveState(version) ==
    /\ held = NoSnapshot
    /\ held' = Saved(version)
    /\ UNCHANGED <<machine, outcomes, answer, changes>>

\* Slip: the sector status of a snapshot older than version 7 is not reset.
RestoredGroupKeepsDamage(s, g) ==
    CASE g = "published" /\ s.version < 4 -> s.part["display"]
      [] g = "circuit" /\ s.rate # machine.rate -> "off"
      [] g = "damage" /\ s.version < 7 -> machine.part[g]
      [] s.version < Since[g] -> "off"
      [] OTHER -> s.part[g]

(***************************************************************************)
(* What load_state() makes of a group.  The filter of the sampling input   *)
(* is set up again, and so cleared, when the DAW now runs at another rate. *)
(***************************************************************************)
RestoredGroup(s, g) ==
    CASE g = "published" /\ s.version < 4 -> s.part["display"]
      [] g = "circuit" /\ s.rate # machine.rate -> "off"
      [] s.version < Since[g] -> "off"
      [] OTHER -> s.part[g]

RestoredPart(s, p) ==
    IF p \in Groups THEN RestoredGroup(s, p)
    ELSE IF p \in Emptied THEN "off" ELSE machine.part[p]

\* Before version 8 the receiver is inferred from the registers.
RestoredReceiver(s) ==
    IF s.version >= 8 THEN s.receiver
    ELSE s.command # "disable" /\ (s.command = "enable" \/ ~s.masked)

\* The note-offs are sent to the keyboard as far as they find room.
WithReleases(wire) ==
    IF wire + Releases > PanelWireSize THEN PanelWireSize ELSE wire + Releases

Restored(s) ==
    [part |-> [p \in Parts |-> RestoredPart(s, p)],
     command |-> s.command, masked |-> s.masked, receiver |-> RestoredReceiver(s),
     position |-> s.position, wire |-> WithReleases(s.wire), rate |-> machine.rate]

LoadState ==
    /\ held # NoSnapshot
    /\ machine' = Restored(held)
    /\ outcomes' = outcomes \cup {machine'}
    /\ answer' = "restored"
    /\ UNCHANGED <<held, changes>>

\* A snapshot that is too short, or whose magic, version, sizes, checksum or
\* disk position is wrong: every check comes before the first field is read.
RefuseState ==
    /\ held # NoSnapshot
    /\ answer' = "refused"
    /\ UNCHANGED <<machine, held, outcomes, changes>>

SnapshotNext ==
    \/ Work
    \/ \E version \in Versions : SaveState(version)
    \/ LoadState
    \/ RefuseState

SnapshotSpec == SnapshotInit /\ [][SnapshotNext]_snapshotVars

-----------------------------------------------------------------------------
SnapshotTypeOK ==
    /\ machine \in Machines
    /\ held.version \in 0 .. 8
    /\ outcomes \subseteq Machines
    /\ answer \in {"none", "restored", "refused"}
    /\ changes \in 0 .. MaxChanges

\* Two restores may differ in the SCSI chip, and at two DAW rates in the
\* filter of the sampling input.
MayDiffer(a, b) == {"scsi"} \cup (IF a.rate = b.rate THEN {} ELSE {"circuit"})

(***************************************************************************)
(* A snapshot of any version restores the same machine whatever the        *)
(* plug-in did before the restore: no group that the version lacks keeps   *)
(* what it happened to hold.  Only the SCSI chip is left as it was, and at *)
(* another DAW rate the filter of the sampling input starts again.         *)
(* (eps16_probe_machine_load_state)                                        *)
(***************************************************************************)
RestoreIsRepeatable ==
    \A a, b \in outcomes :
        /\ \A p \in Parts \ MayDiffer(a, b) : a.part[p] = b.part[p]
        /\ <<a.command, a.masked, a.receiver, a.position, a.wire>> =
           <<b.command, b.masked, b.receiver, b.position, b.wire>>

=============================================================================
