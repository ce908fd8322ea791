------------------------------- MODULE VfdDecoder -------------------------------
(***************************************************************************)
(* The decoder of the display bytes the EPS writes to register 11 of the   *)
(* DUART: text, fields with a cursor, cursor motion, direct addresses,     *)
(* dotted digits, indicators, the level meter with its marker, and when a  *)
(* page is published to the editor.  One action is one byte; the handler   *)
(* is a chain of steps on the state of the decoder, in the order of the    *)
(* code.  A character is abstracted to what the code tells apart.          *)
(***************************************************************************)
EXTENDS Integers, Sequences, FiniteSets

CONSTANTS
    Cells,        \* 22 cells; an address is 0 to Cells - 1 (0x15)
    LevelTop,     \* 0x0e, the highest level
    DisplayBytes, \* the bytes the EPS sends
    Starts,       \* the sequences of bytes it may begin with
    MaxBytes      \* bound of the model: bytes after those

ASSUME VfdAssumption ==
    /\ Cells \in 2 .. 22 /\ LevelTop \in 1 .. 14 /\ MaxBytes \in Nat
    /\ DisplayBytes \subseteq 0 .. 255 /\ Starts \subseteq Seq(0 .. 255)

Cell == 0 .. Cells - 1
Char == {"blank", "text", "digit", "bar", "mark"}
Dotted == {33, 35, 37, 40, 41, 58, 59, 91, 92, 93}   \* panel_dotted_digit()
Printable(v) == v \in 32 .. 95
CharOf(v) == IF v = 32 THEN "blank" ELSE IF v = 42 THEN "mark"
             ELSE IF v \in 48 .. 57 THEN "digit" ELSE "text"

VARIABLES
    d,          \* the state of the decoder
    shown,      \* plugin_published_*: the page the editor gets
    coming      \* what is left of the start, and the bytes after it

vfdVars == <<d, shown, coming>>

None == -1

\* The cursor, the field under it and the commands that wait for a byte.
NoField ==
    [cursor |-> 0, start |-> None, end |-> None, active |-> FALSE,
     width |-> FALSE, known |-> FALSE, full |-> FALSE, segments |-> {},
     edit |-> None, command |-> 0, positioned |-> FALSE, textMode |-> FALSE,
     address |-> None, noncell |-> FALSE]

Fresh ==
    [cells |-> [i \in Cell |-> "blank"], dots |-> {}, f |-> NoField,
     indicator |-> None, on |-> [b \in 0 .. 2 |-> {}], flash |-> [b \in 0 .. 2 |-> {}],
     metering |-> FALSE, setup |-> 0, pending |-> None, level |-> 0,
     marker |-> None, last |-> 0, dirty |-> FALSE]

Page(s) == [cells |-> s.cells, dots |-> s.dots, start |-> s.f.start,
            end |-> s.f.end, segments |-> s.f.segments]

\* A step of the handler takes the decoder and the page, and gives them back.
Publish(p) == [p EXCEPT !.page = Page(p.d), !.d.dirty = FALSE]

\* The command took the byte; complete says that it ended a motion.
Consumed(p, complete) == [p EXCEPT !.consumed = TRUE, !.complete = complete]

WithField(p, f) == [p EXCEPT !.d.f = f]

\* Cells or points have changed, and are to be published.
WithText(p, cells, dots) ==
    [p EXCEPT !.d.cells = cells, !.d.dots = dots, !.d.dirty = TRUE]

EditSegment(f) == IF f.edit = None THEN {} ELSE {f.edit}
-------------------------------------------------------------------------------
(* 63: cursor motion, or the first byte of a replacement.                  *)

Motion(p, by) ==
    LET f == p.d.f
        e == IF f.edit = None THEN None
             ELSE IF by > 0 THEN (IF f.edit < Cells - 1 THEN f.edit + 1 ELSE f.edit)
             ELSE (IF f.edit > 0 THEN f.edit - 1 ELSE f.edit)
    IN  Consumed(WithField(p, [f EXCEPT !.edit = e,
                                     !.cursor = IF e = None THEN @ ELSE e,
                                     !.segments = IF e = None THEN {} ELSE {e},
                                     !.positioned = TRUE, !.command = 0]),
              TRUE)

Replacement(p) ==
    LET f == p.d.f
    IN  WithField(p, [f EXCEPT !.cursor = IF f.start = None THEN @ ELSE f.start,
                               !.active = f.start # None,
                               !.width = FALSE, !.known = TRUE,
                               !.full = f.start # None /\ f.start \in f.segments,
                               !.command = 0])

\* The command goes on with the byte after this one; 0: it is over.
Awaiting(p, n) == Consumed(WithField(p, [p.d.f EXCEPT !.command = n]), p.complete)

\* The character under edit alone is underlined.
Underlined(p) ==
    Consumed(WithField(p, [p.d.f EXCEPT !.segments = EditSegment(p.d.f), !.command = 0]),
             TRUE)

CommandStep(p, v) ==
    LET state == p.d.f.command
    IN  CASE state = 0                -> p
          [] state = 1 /\ v = 106     -> Awaiting(p, 2)              \* 6a
          [] state = 1 /\ v = 105     -> Awaiting(p, 3)              \* 69
          [] state = 1 /\ v = 114     -> Awaiting(p, 5)              \* 72
          [] state = 1 /\ v \notin {105, 106, 114} -> Replacement(p)
          [] state = 2 /\ v = 103     -> Motion(p, 1)                \* 67
          [] state = 3 /\ v = 101     -> Awaiting(p, 4)              \* 65
          [] state = 4 /\ v = 103     -> Motion(p, -1)
          [] state = 5 /\ v = 103     -> Awaiting(p, 6)
          [] state = 6 /\ v = 114     -> Underlined(p)
          [] OTHER                    -> Awaiting(p, 0)

\* A low byte may have been the address of the field that begins now.
AddressStep(p, v) ==
    LET f == p.d.f
        addressed == Printable(v) \/ (v = 98 /\ p.d.last = 1)
        waits == v = 96 \/ f.textMode
    IN  IF f.address = None THEN p
        ELSE WithField(p, [f EXCEPT !.cursor = IF addressed THEN f.address ELSE @,
                                    !.address = IF waits THEN @ ELSE None])
-------------------------------------------------------------------------------
(* The level meter. *)

\* panel_render_level_meter() publishes at once.
RenderMeter(p, value) ==
    LET bars == IF value > LevelTop THEN LevelTop ELSE value
        meter == [i \in Cell |-> IF i = p.d.marker THEN "mark"
                                 ELSE IF i < bars THEN "bar" ELSE "blank"]
        f == [p.d.f EXCEPT !.start = None, !.end = None, !.active = FALSE,
                           !.segments = {}]
    IN  Publish([WithField(WithText(p, meter, {}), f) EXCEPT !.d.level = bars])

\* A level is held until the next byte shows that it was no marker address.
LevelStep(p, v) ==
    LET held == p.d.pending
        marks == v \in {42, 94} /\ p.d.last = held /\ held \in 1 .. Cells
        q == IF held = None \/ marks THEN p ELSE RenderMeter(p, held)
    IN  [q EXCEPT !.d.pending = None]

\* 15 73 00 f7 begins metering, f ends it.
MeterSetup(p, n, active, known) ==
    [p EXCEPT !.d.setup = n, !.d.metering = active, !.setupByte = known]

MeterOff(p) ==
    [MeterSetup(p, 0, FALSE, FALSE) EXCEPT !.d.pending = None, !.d.level = 0]

SetupStep(p, v) ==
    LET n == p.d.setup
        active == p.d.metering
    IN  CASE v = 102 -> MeterOff(p)
          [] n = 0 /\ v = 21  -> MeterSetup(p, 1, active, TRUE)
          [] n = 1 /\ v = 115 -> MeterSetup(p, 2, active, TRUE)
          [] n = 2 /\ v = 0   -> MeterSetup(p, 3, active, TRUE)
          [] n = 3 /\ v = 247 -> MeterSetup(p, 0, TRUE, TRUE)
          [] OTHER -> IF n = 0 THEN p
                      ELSE IF v = 21 THEN MeterSetup(p, 1, active, TRUE)
                      ELSE MeterSetup(p, 0, active, FALSE)

HoldStep(p, v) ==
    LET other == \/ p.d.indicator # None \/ p.d.f.width \/ p.d.f.noncell
                 \/ v = 0 /\ p.d.last = 114
    IN  IF p.d.metering /\ ~p.setupByte /\ ~other /\ v <= LevelTop
        THEN [p EXCEPT !.d.pending = v] ELSE p

\* <cell> 2a puts the marker, <cell> 5e takes it off.
UnderMarker(p, i) == IF i < p.d.level THEN "bar" ELSE "blank"

MarkerStep(p, v) ==
    LET at == p.d.last - 1
        old == p.d.marker
        moved == old # None /\ old # at /\ p.d.cells[old] = "mark"
        bare == [p.d.cells EXCEPT ![at] = UnderMarker(p, at)]
        marked == [i \in Cell |-> IF i = at THEN "mark"
                                  ELSE IF moved /\ i = old THEN UnderMarker(p, i)
                                  ELSE p.d.cells[i]]
    IN  IF v = 94
        THEN [WithText(p, bare, p.d.dots \ {at}) EXCEPT
                 !.d.marker = IF old = at THEN None ELSE old]
        ELSE [WithText(p, marked, p.d.dots \ ({at} \cup IF moved THEN {old} ELSE {}))
                 EXCEPT !.d.marker = at]
-------------------------------------------------------------------------------
(* What is left of the byte. *)

\* f: the page that was being built is published, and a new one begins.
Clear(p) ==
    LET q == IF p.d.dirty THEN Publish(p) ELSE p
    IN  [WithField(WithText(q, [i \in Cell |-> "blank"], {}), NoField) EXCEPT
            !.d.marker = None]

IndicatorStep(p, v) ==
    LET bank == (p.d.indicator - 116) \div 3
        op == (p.d.indicator - 116) % 3
        bit == v % 16
        off == IF bank = 0 THEN op = 0 ELSE op = 1
        on == IF bank = 0 THEN op = 1 ELSE op = 0
        lit == IF off THEN p.d.on[bank] \ {bit} ELSE p.d.on[bank] \cup {bit}
        flashing == IF off \/ on THEN p.d.flash[bank] \ {bit}
                    ELSE p.d.flash[bank] \cup {bit}
    IN  [p EXCEPT !.d.on = [@ EXCEPT ![bank] = lit],
                  !.d.flash = [@ EXCEPT ![bank] = flashing],
                  !.d.indicator = None]

BeginField(p) ==
    LET f == p.d.f
        e == IF f.edit = None THEN f.cursor ELSE f.edit
    IN  WithField(p, [f EXCEPT !.start = f.cursor, !.end = f.cursor,
                               !.active = TRUE, !.width = FALSE, !.known = FALSE,
                               !.full = FALSE, !.edit = e, !.positioned = FALSE,
                               !.segments = IF f.positioned THEN {e} ELSE {}])

\* The field after a character at its cursor, which takes or loses the underline.
Advanced(f) ==
    [f EXCEPT !.segments = IF ~f.active THEN @ ELSE
                           IF f.full THEN @ \cup {f.cursor} ELSE @ \ {f.cursor},
              !.cursor = @ + 1,
              !.end = IF f.active /\ ~f.known THEN f.cursor + 1 ELSE @]

\* Slip: a character that replaces a dotted digit leaves its point on.
TypeKeepsDot(p, char, dotted) ==
    LET at == p.d.f.cursor
        cells == [p.d.cells EXCEPT ![at] = char]
        dots == IF dotted THEN p.d.dots \cup {at} ELSE p.d.dots
    IN  WithField(WithText(p, cells, dots), Advanced(p.d.f))

\* A character goes to the cell at the cursor, with its point.
Type(p, char, dotted) ==
    LET at == p.d.f.cursor
        cells == [p.d.cells EXCEPT ![at] = char]
        dots == IF dotted THEN p.d.dots \cup {at} ELSE p.d.dots \ {at}
    IN  WithField(WithText(p, cells, dots), Advanced(p.d.f))

\* The chain of else if, in its order: what comes first takes the byte.
Dispatch(p, v) ==
    LET f == p.d.f
        last == p.d.last
    IN  IF v = 0 /\ last = 114
        THEN [WithField(p, NoField) EXCEPT !.d.indicator = None]
        ELSE IF v = 102 THEN Clear(p)
        ELSE IF p.consumed THEN p
        ELSE IF f.textMode THEN WithField(p, [f EXCEPT !.textMode = FALSE])
        ELSE IF p.d.indicator # None THEN IndicatorStep(p, v)
        ELSE IF ~f.active /\ v \in 116 .. 124 THEN [p EXCEPT !.d.indicator = v]
        ELSE IF f.noncell THEN WithField(p, [f EXCEPT !.noncell = FALSE])
        ELSE IF ~f.active /\ v \in {18, 21} THEN WithField(p, [f EXCEPT !.noncell = TRUE])
        ELSE IF v = 98 THEN BeginField(p)
        ELSE IF v = 99 /\ f.start # None
             THEN WithField(p, [f EXCEPT !.command = 1, !.active = FALSE, !.width = FALSE])
        ELSE IF v = 96 /\ f.active /\ last = 98 THEN WithField(p, [f EXCEPT !.width = TRUE])
        ELSE IF v = 96 /\ ~f.active THEN WithField(p, [f EXCEPT !.textMode = TRUE])
        ELSE IF f.width /\ v < 32
             THEN WithField(p, [f EXCEPT !.width = FALSE, !.known = FALSE,
                                    !.full = v = 3, !.segments = {}])
        ELSE IF v = 114 /\ f.active
             THEN WithField(p, [f EXCEPT !.active = FALSE, !.width = FALSE])
        ELSE IF f.active
             THEN IF v \in Dotted THEN Type(p, "digit", TRUE)
                  ELSE IF Printable(v) THEN Type(p, CharOf(v), FALSE) ELSE p
        ELSE IF v \in {42, 94} /\ last \in 1 .. Cells THEN MarkerStep(p, v)
        ELSE IF ~p.d.metering /\ v < Cells THEN WithField(p, [f EXCEPT !.address = v])
        ELSE IF Printable(v) THEN Type(p, CharOf(v), FALSE) ELSE p

\* The cursor behind the last cell goes on in the first.
Wrapped(p) ==
    WithField(p, [p.d.f EXCEPT !.cursor = IF @ >= Cells THEN 0 ELSE @])

\* Slip: the cursor goes past the last cell without a publication.
PublishStepOnCommand(p) ==
    LET q == IF p.complete THEN Publish(p) ELSE p
    IN  [Wrapped(q) EXCEPT !.d.dirty = FALSE]

\* A full page and a cursor motion are published at once.
PublishStep(p) ==
    IF p.d.f.cursor >= Cells \/ p.complete
    THEN Wrapped(Publish(p))
    ELSE p

Handled(v) ==
    LET begin == [d |-> d, page |-> shown, consumed |-> FALSE, complete |-> FALSE,
                  setupByte |-> FALSE]
        step1 == LevelStep(AddressStep(CommandStep(begin, v), v), v)
        step2 == HoldStep(SetupStep(step1, v), v)
        step3 == PublishStep(Dispatch(step2, v))
    IN  [step3 EXCEPT !.d.last = v]
-------------------------------------------------------------------------------
VfdInit ==
    /\ d = Fresh
    /\ shown = Page(Fresh)
    /\ coming \in {[first |-> s, more |-> MaxBytes] : s \in Starts}

ByteFromEps(v) ==
    /\ LET p == Handled(v) IN d' = p.d /\ shown' = p.page
    /\ coming' = IF coming.first # <<>>
                 THEN [coming EXCEPT !.first = Tail(@)]
                 ELSE [coming EXCEPT !.more = @ - 1]

\* The line is silent for 10 ms, and run_until() publishes what is new.
Idle ==
    /\ coming.first = <<>>
    /\ d.dirty
    /\ shown' = Page(d)
    /\ d' = [d EXCEPT !.dirty = FALSE]
    /\ UNCHANGED coming

VfdNext ==
    \/ coming.first # <<>> /\ ByteFromEps(Head(coming.first))
    \/ coming.first = <<>> /\ coming.more > 0 /\ \E v \in DisplayBytes : ByteFromEps(v)
    \/ Idle

VfdSpec == VfdInit /\ [][VfdNext]_vfdVars
-------------------------------------------------------------------------------
(* Properties. *)

VfdTypeOK ==
    /\ d.cells \in [Cell -> Char] /\ d.dots \subseteq Cell
    /\ d.f.cursor \in Cell /\ d.f.segments \subseteq Cell
    /\ {d.f.start, d.f.edit, d.f.address, d.marker} \subseteq Cell \cup {None}
    /\ d.f.end \in 0 .. Cells \cup {None}
    /\ d.f.command \in 0 .. 6 /\ d.setup \in 0 .. 3
    /\ d.level \in 0 .. LevelTop

\* A point is lit at digits only, whatever wrote over the cell since.
PointsAtDigits == \A i \in d.dots : d.cells[i] = "digit"

\* An indicator that flashes is on: no order of commands leaves one half off.
FlashingIsOn == \A b \in 0 .. 2 : d.flash[b] \subseteq d.on[b]

\* The editor has the text of the EPS, or is going to get it: no sequence of
\* commands changes a cell or a point and leaves the old page up for good, puts
\* a point where there is no digit, or makes a lamp flash that is off.
TextIsPublished ==
    /\ ~d.dirty => shown.cells = d.cells /\ shown.dots = d.dots
    /\ PointsAtDigits
    /\ FlashingIsOn
================================================================================
