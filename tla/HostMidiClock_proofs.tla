-------------------------- MODULE HostMidiClock_proofs --------------------------
(***************************************************************************)
(* The MIDI clock keeps the EPS with the DAW, for any tick length, any     *)
(* tempos and any block of two samples or more: whether the EPS runs, and  *)
(* where it is.                                                            *)
(***************************************************************************)
EXTENDS HostMidiClock, FiniteSetTheorems, TLAPS

LEMMA ClockNumbers ==
    /\ UnitsPerTick \in Nat \ {0} /\ Samples \in Nat \ {0}
    /\ Capacity \in Nat /\ Capacity >= 3
    /\ Rates \subseteq Nat \ {0} /\ MaxPosition \in Nat
  BY UnitsAssumption, SamplesAssumption, CapacityAssumption, RatesAssumption,
     MaxPositionAssumption

-------------------------------------------------------------------------------
(* Arithmetic of ticks and samples. *)

LEMMA FloorDivision ==
    ASSUME NEW x \in Int, NEW n \in Nat \ {0}
    PROVE  /\ x \div n \in Int
           /\ n * (x \div n) <= x /\ x < n * (x \div n) + n
  OBVIOUS

\* A quotient is below k exactly when the dividend is below k divisors.
LEMMA QuotientBelow ==
    ASSUME NEW x \in Int, NEW k \in Int, NEW n \in Nat \ {0}
    PROVE  x \div n < k <=> x < n * k
<1> DEFINE q == x \div n
<1>1. q \in Int /\ n * q <= x /\ x < n * q + n
  BY FloorDivision
<1> HIDE DEF q
<1>2. ASSUME q < k
      PROVE  x < n * k
  <2>1. n * (q + 1) <= n * k
    BY <1>1, <1>2
  <2>2. n * (q + 1) = n * q + n /\ n * q \in Int /\ n * k \in Int
    BY <1>1
  <2>3. QED
    BY <1>1, <2>1, <2>2
<1>3. ASSUME x < n * k
      PROVE  q < k
  <2>1. n * q < n * k
    BY <1>1, <1>3
  <2>2. QED
    BY <1>1, <2>1
<1>4. QED
  BY <1>2, <1>3 DEF q

\* The first tick at or after a position.
LEMMA CeilType ==
    ASSUME NEW p \in Nat
    PROVE  /\ CeilDiv(p, UnitsPerTick) \in Nat
           /\ p <= CeilDiv(p, UnitsPerTick) * UnitsPerTick
           /\ CeilDiv(p, UnitsPerTick) * UnitsPerTick < p + UnitsPerTick
<1> DEFINE x == -p
           q == x \div UnitsPerTick
<1>1. UnitsPerTick \in Nat \ {0} /\ x \in Int
  BY ClockNumbers
<1>2. /\ q \in Int /\ UnitsPerTick * q <= x
      /\ x < UnitsPerTick * q + UnitsPerTick
  <2> HIDE DEF x
  <2>1. QED
    BY <1>1, FloorDivision
<1>3. CeilDiv(p, UnitsPerTick) = -q
  BY DEF CeilDiv
<1> HIDE DEF q
<1>4. (-q) * UnitsPerTick = -(UnitsPerTick * q) /\ UnitsPerTick * q \in Int
  BY <1>1, <1>2
<1>5. p <= (-q) * UnitsPerTick /\ (-q) * UnitsPerTick < p + UnitsPerTick
  BY <1>1, <1>2, <1>4
<1>6. q <= 0
  <2>1. CASE q >= 1
    <3>1. UnitsPerTick * q >= UnitsPerTick
      BY <1>1, <1>2, <2>1
    <3>2. QED
      BY <1>1, <1>2, <3>1
  <2>2. QED
    BY <1>2, <2>1
<1>7. QED
  BY <1>2, <1>3, <1>5, <1>6

\* What a playing block at a position and a rate is due: the ticks up to Last.
Bound(position, rate) == 2 * (rate * Samples) + 2 * position - rate

Last(position, rate) == (Bound(position, rate) - 1) \div (2 * UnitsPerTick)

LEMMA LastType ==
    ASSUME NEW position \in Nat, NEW rate \in Rates
    PROVE  /\ Last(position, rate) \in Int
           /\ 2 * (Last(position, rate) * UnitsPerTick) < Bound(position, rate)
           /\ Bound(position, rate)
                <= 2 * (Last(position, rate) * UnitsPerTick) + 2 * UnitsPerTick
           /\ Bound(position, rate) \in Int
<1> DEFINE x == Bound(position, rate) - 1
           n == 2 * UnitsPerTick
           l == x \div n
<1>1. UnitsPerTick \in Nat \ {0} /\ rate \in Nat \ {0} /\ Samples \in Nat \ {0}
  BY ClockNumbers
<1>2. Bound(position, rate) \in Int /\ x \in Int /\ n \in Nat \ {0}
  BY <1>1 DEF Bound
<1>3. x = Bound(position, rate) - 1 /\ n = 2 * UnitsPerTick
  OBVIOUS
<1>4. l \in Int /\ n * l <= x /\ x < n * l + n
  <2> HIDE DEF x, n
  <2>1. QED
    BY <1>2, FloorDivision
<1>5. Last(position, rate) = l
  BY DEF Last
<1> HIDE DEF x, n, l
<1>6. n * l = 2 * (l * UnitsPerTick) /\ l * UnitsPerTick \in Int
  BY <1>1, <1>3, <1>4
<1>7. QED
  BY <1>2, <1>3, <1>4, <1>5, <1>6

LEMMA OffsetInBlock ==
    ASSUME NEW position \in Nat, NEW rate \in Rates, NEW tick \in Int
    PROVE  TickOffset(tick, position, rate) < Samples <=> tick <= Last(position, rate)
<1> DEFINE u == tick * UnitsPerTick
           x == 2 * (u - position) + rate
           n == 2 * rate
           l == Last(position, rate)
<1>1. UnitsPerTick \in Nat \ {0} /\ rate \in Nat \ {0} /\ Samples \in Nat \ {0}
  BY ClockNumbers
<1>2. u \in Int /\ x \in Int /\ n \in Nat \ {0} /\ n * Samples = 2 * (rate * Samples)
  BY <1>1
<1>3. x = 2 * (u - position) + rate
  OBVIOUS
<1>4. TickOffset(tick, position, rate) < Samples <=> x < n * Samples
  <2>1. TickOffset(tick, position, rate) = x \div n
    BY DEF TickOffset
  <2> HIDE DEF x, n
  <2>2. x \div n < Samples <=> x < n * Samples
    BY <1>1, <1>2, QuotientBelow
  <2>3. QED
    BY <2>1, <2>2
<1>5. /\ l \in Int /\ 2 * (l * UnitsPerTick) < Bound(position, rate)
      /\ Bound(position, rate) <= 2 * (l * UnitsPerTick) + 2 * UnitsPerTick
      /\ Bound(position, rate) \in Int
  BY LastType
<1>6. rate * Samples \in Nat
  BY <1>1
<1> HIDE DEF x, n, l
<1>7. x < n * Samples <=> 2 * u < Bound(position, rate)
  BY <1>1, <1>2, <1>3, <1>6 DEF Bound
<1>8. ASSUME tick <= l
      PROVE  2 * u < Bound(position, rate)
  <2>1. tick * UnitsPerTick <= l * UnitsPerTick
    BY <1>1, <1>5, <1>8
  <2>2. l * UnitsPerTick \in Int
    BY <1>1, <1>5
  <2>3. QED
    BY <1>2, <1>5, <2>1, <2>2
<1>9. ASSUME ~(tick <= l)
      PROVE  ~(2 * u < Bound(position, rate))
  <2>1. (l + 1) * UnitsPerTick <= tick * UnitsPerTick
    BY <1>1, <1>5, <1>9
  <2>2. (l + 1) * UnitsPerTick = l * UnitsPerTick + UnitsPerTick /\ l * UnitsPerTick \in Int
    BY <1>1, <1>5
  <2>3. QED
    BY <1>1, <1>2, <1>5, <2>1, <2>2
<1>10. QED
  BY <1>4, <1>7, <1>8, <1>9 DEF l

\* The ticks of a block are an interval that ends at Last or where the room does.
LEMMA DueCount ==
    ASSUME NEW first \in Nat, NEW position \in Nat, NEW rate \in Rates,
           NEW room \in Nat \ {0}
    PROVE  LET m == IF first + room - 1 <= Last(position, rate) THEN first + room - 1
                    ELSE Last(position, rate)
               count == Cardinality(DueTicks(first, position, rate, room))
           IN  /\ count \in Nat
               /\ count = IF first > m THEN 0 ELSE m - first + 1
<1> DEFINE l == Last(position, rate)
           m == IF first + room - 1 <= l THEN first + room - 1 ELSE l
<1>1. l \in Int
  BY LastType
<1>2. DueTicks(first, position, rate, room) = {tick \in first .. first + room - 1 : tick <= l}
  <2>1. \A tick \in first .. first + room - 1 :
            TickOffset(tick, position, rate) < Samples <=> tick <= l
    BY OffsetInBlock
  <2> HIDE DEF l
  <2>2. QED
    BY <2>1, Zenon DEF DueTicks
<1> HIDE DEF l
<1>3. {tick \in first .. first + room - 1 : tick <= l} = first .. m
  BY <1>1
<1>4. m \in Int
  BY <1>1
<1> HIDE DEF m
<1>5. Cardinality(first .. m) = IF first > m THEN 0 ELSE m - first + 1
  BY <1>4, FS_Interval
<1>6. (IF first > m THEN 0 ELSE m - first + 1) \in Nat
  BY <1>4
<1>7. QED
  BY <1>2, <1>3, <1>5, <1>6 DEF l, m
-------------------------------------------------------------------------------
(* Whether the EPS runs. *)

\* Nothing but preparing again leaves the EPS running beside a halted clock,
\* also before the first block.
FollowInv ==
    /\ ClockTypeOK
    /\ wasPlaying => transportKnown /\ eps.running
    /\ eps.running /\ "reprepare" \notin adrift => wasPlaying

Room(playing, position, rate) == Capacity - CommandCount(playing, position, rate)

LEMMA RoomType ==
    ASSUME NEW playing, NEW position, NEW rate
    PROVE  /\ Room(playing, position, rate) \in Nat \ {0}
           /\ Room(playing, position, rate) >= Capacity - 2
<1> DEFINE stop == IF SendsStop(playing, position, rate) THEN 1 ELSE 0
           run == IF SendsRun(playing, position, rate) THEN 1 ELSE 0
<1>1. stop \in {0, 1} /\ run \in {0, 1}
  OBVIOUS
<1>2. Room(playing, position, rate) = Capacity - (stop + run)
  BY DEF Room, CommandCount
<1> HIDE DEF stop, run
<1>3. QED
  BY <1>1, <1>2, ClockNumbers

\* The ticks a block sends.
Sent(playing, position, rate) ==
    IF playing
    THEN Cardinality(DueTicks(FirstTick(playing, position, rate), position, rate,
                         Room(playing, position, rate)))
    ELSE 0

LEMMA FirstType ==
    ASSUME ClockTypeOK, NEW playing, NEW position \in Nat, NEW rate
    PROVE  FirstTick(playing, position, rate) \in Nat
  BY CeilType DEF FirstTick, ClockTypeOK

LEMMA SentType ==
    ASSUME ClockTypeOK, NEW playing \in BOOLEAN, NEW position \in Nat, NEW rate \in Rates
    PROVE  Sent(playing, position, rate) \in Nat
<1> DEFINE first == FirstTick(playing, position, rate)
           room == Room(playing, position, rate)
<1>1. first \in Nat /\ room \in Nat \ {0}
  BY FirstType, RoomType
<1> HIDE DEF first, room
<1>2. Cardinality(DueTicks(first, position, rate, room)) \in Nat
  BY <1>1, DueCount
<1>3. QED
  BY <1>2 DEF Sent, first, room

\* What a block leaves, for the clock and for the EPS.
LEMMA GenerateIs ==
    ASSUME ClockTypeOK, NEW playing \in BOOLEAN, NEW position \in Nat, NEW rate \in Rates,
           Generate(playing, position, rate)
    PROVE  /\ nextClockTick' = FirstTick(playing, position, rate)
                                   + Sent(playing, position, rate)
           /\ transportKnown' = TRUE /\ wasPlaying' = playing
           /\ expectedPpq' = IF playing THEN position + rate * Samples ELSE position
           /\ eps'.running = IF SendsRun(playing, position, rate) THEN TRUE
                             ELSE eps.running /\ ~SendsStop(playing, position, rate)
           /\ eps'.tick = (IF StartsAnew(playing, position, rate)
                           THEN CeilDiv(position, UnitsPerTick) ELSE eps.tick)
                              + Sent(playing, position, rate)
           /\ eps' \in [running : BOOLEAN, tick : Nat]
           /\ nextClockTick' \in Nat /\ expectedPpq' \in Nat
<1> DEFINE ticks == Sent(playing, position, rate)
           stop == SendsStop(playing, position, rate)
           run == SendsRun(playing, position, rate)
           base == IF run THEN IF ContinuesFromStop(position, rate) THEN eps.tick
                               ELSE CeilDiv(position, UnitsPerTick)
                   ELSE eps.tick
           on == IF run THEN TRUE ELSE eps.running /\ ~stop
<1>1. ticks \in Nat /\ FirstTick(playing, position, rate) \in Nat
  BY SentType, FirstType
<1>2. /\ nextClockTick' = FirstTick(playing, position, rate) + ticks
      /\ transportKnown' = TRUE /\ wasPlaying' = playing
      /\ expectedPpq' = IF playing THEN position + rate * Samples ELSE position
      /\ eps' = Hear(playing, position, rate, ticks)
  BY Zenon DEF Generate, Sent, Room
<1> HIDE DEF ticks
<1>3. eps.tick \in Nat /\ eps.running \in BOOLEAN
  BY DEF ClockTypeOK
<1>4. base \in Nat
  BY <1>3, CeilType
<1>5. on \in BOOLEAN
  BY <1>3, Zenon
<1>6. Hear(playing, position, rate, ticks) = [running |-> on, tick |-> base + ticks]
  <2> DEFINE resumed == [running |-> on, tick |-> base]
  <2>1. CASE run
    <3>1. on = TRUE /\ base = IF ContinuesFromStop(position, rate) THEN eps.tick
                             ELSE CeilDiv(position, UnitsPerTick)
      BY <2>1, Zenon
    <3>2. Hear(playing, position, rate, ticks) = [resumed EXCEPT !.tick = base + ticks]
      BY <2>1, <3>1, Zenon DEF Hear
    <3> HIDE DEF on, base
    <3>3. QED
      BY <3>2
  <2>2. CASE ~run
    <3>1. on = (eps.running /\ ~stop) /\ base = eps.tick
      BY <2>2, Zenon
    <3>2. Hear(playing, position, rate, ticks) = [resumed EXCEPT !.tick = base + ticks]
      BY <2>2, <3>1, Zenon DEF Hear
    <3> HIDE DEF on, base
    <3>3. QED
      BY <3>2
  <2>3. QED
    BY <2>1, <2>2
<1>7. base = IF StartsAnew(playing, position, rate)
             THEN CeilDiv(position, UnitsPerTick) ELSE eps.tick
  BY Zenon DEF StartsAnew
<1> HIDE DEF base, on
<1>8. eps'.running = on /\ eps'.tick = base + ticks
  BY <1>2, <1>6
<1>9. base + ticks \in Nat
  BY <1>1, <1>4
<1>10. eps' \in [running : BOOLEAN, tick : Nat]
  <2>1. [running |-> on, tick |-> base + ticks] \in [running : BOOLEAN, tick : Nat]
    BY <1>5, <1>9, Zenon
  <2>2. QED
    BY <1>2, <1>6, <2>1, Zenon
<1>11. nextClockTick' \in Nat
  BY <1>1, <1>2
<1>12. expectedPpq' \in Nat
  <2>1. rate * Samples \in Nat
    BY ClockNumbers
  <2>2. position + rate * Samples \in Nat
    BY <2>1
  <2>3. QED
    BY <1>2, <2>2, Zenon
<1>13. eps'.running = IF run THEN TRUE ELSE eps.running /\ ~stop
  BY <1>8 DEF on
<1>14. eps'.tick = (IF StartsAnew(playing, position, rate)
                    THEN CeilDiv(position, UnitsPerTick) ELSE eps.tick) + ticks
  BY <1>7, <1>8, Zenon
<1>15. QED
  BY <1>2, <1>10, <1>11, <1>12, <1>13, <1>14, Zenon DEF ticks

LEMMA FollowInvInit == ClockInit => FollowInv
<1> SUFFICES ASSUME ClockInit
             PROVE  FollowInv
  OBVIOUS
<1>1. expectedPpq \in Nat /\ nextClockTick \in Nat
  BY DEF ClockInit
<1>2. transportKnown \in BOOLEAN /\ wasPlaying \in BOOLEAN /\ ~wasPlaying /\ ~eps.running
  BY DEF ClockInit
<1>3. 0 \in Nat
  OBVIOUS
<1>4. eps \in [running : BOOLEAN, tick : Nat] /\ adrift \subseteq HostMay
  BY <1>3, Zenon DEF ClockInit
<1>5. QED
  BY <1>1, <1>2, <1>4, Zenon DEF FollowInv, ClockTypeOK

\* A playing block starts the EPS or finds it running.
LEMMA PlayFollows ==
    ASSUME FollowInv, PlayBlock
    PROVE  FollowInv'
<1>1. PICK position \in 0 .. MaxPosition, rate \in Rates :
        /\ Generate(TRUE, position, rate)
        /\ adrift' = IF StartsAnew(TRUE, position, rate) THEN {} ELSE adrift
  BY Zenon DEF PlayBlock
<1>2. position \in Nat /\ ClockTypeOK
  BY ClockNumbers DEF FollowInv
<1>3. /\ transportKnown' = TRUE /\ wasPlaying' = TRUE
      /\ eps'.running = IF SendsRun(TRUE, position, rate) THEN TRUE
                        ELSE eps.running /\ ~SendsStop(TRUE, position, rate)
      /\ eps' \in [running : BOOLEAN, tick : Nat]
      /\ nextClockTick' \in Nat /\ expectedPpq' \in Nat
  BY <1>1, <1>2, GenerateIs
<1>4. eps'.running
  <2>1. CASE SendsRun(TRUE, position, rate)
    BY <1>3, <2>1, Zenon
  <2>2. CASE ~SendsRun(TRUE, position, rate)
    <3>1. transportKnown /\ wasPlaying /\ ~Discontinuity(TRUE, position, rate)
      BY <2>2, Zenon DEF SendsRun
    <3>2. eps.running /\ ~SendsStop(TRUE, position, rate)
      BY <3>1, Zenon DEF FollowInv, SendsStop
    <3>3. QED
      BY <1>3, <2>2, <3>2, Zenon
  <2>3. QED
    BY <2>1, <2>2
<1>5. adrift' \subseteq HostMay
  BY <1>1, Zenon DEF FollowInv, ClockTypeOK
<1>6. QED
  BY <1>3, <1>4, <1>5, Zenon DEF FollowInv, ClockTypeOK

\* A halted block stops the EPS, or finds it stopped.
LEMMA HaltFollows ==
    ASSUME FollowInv, NEW position \in Nat, NEW rate \in Rates,
           Generate(FALSE, position, rate), adrift \subseteq adrift',
           adrift' \subseteq HostMay
    PROVE  FollowInv'
<1>1. /\ transportKnown' = TRUE /\ wasPlaying' = FALSE
      /\ eps'.running = IF SendsRun(FALSE, position, rate) THEN TRUE
                        ELSE eps.running /\ ~SendsStop(FALSE, position, rate)
      /\ eps' \in [running : BOOLEAN, tick : Nat]
      /\ nextClockTick' \in Nat /\ expectedPpq' \in Nat
  BY GenerateIs DEF FollowInv
<1>2. ~SendsRun(FALSE, position, rate)
  BY Zenon DEF SendsRun
<1>3. ASSUME eps'.running
      PROVE  "reprepare" \in adrift'
  <2>1. eps.running /\ ~SendsStop(FALSE, position, rate)
    BY <1>1, <1>2, <1>3, Zenon
  <2>2. CASE ~wasPlaying
    BY <2>1, <2>2, Zenon DEF FollowInv
  <2>3. CASE wasPlaying
    BY <2>1, <2>3, Zenon DEF FollowInv, SendsStop
  <2>4. QED
    BY <2>2, <2>3
<1>4. QED
  BY <1>1, <1>3, Zenon DEF FollowInv, ClockTypeOK

LEMMA FollowInvStep == FollowInv /\ [ClockNext]_clockVars => FollowInv'
<1> SUFFICES ASSUME FollowInv, [ClockNext]_clockVars
             PROVE  FollowInv'
  OBVIOUS
<1>1. CASE PlayBlock
  BY <1>1, PlayFollows
<1>2. CASE StoppedBlock
  <2>1. PICK rate \in Rates : Generate(FALSE, expectedPpq, rate)
    BY <1>2, Zenon DEF StoppedBlock
  <2>2. adrift' = adrift
    BY <1>2, Zenon DEF StoppedBlock
  <2>3. expectedPpq \in Nat /\ adrift \subseteq adrift' /\ adrift' \subseteq HostMay
    BY <2>2, Zenon DEF FollowInv, ClockTypeOK
  <2>4. QED
    BY <2>1, <2>3, HaltFollows
<1>3. CASE RelocatedBlock
  <2>1. PICK position \in 0 .. MaxPosition, rate \in Rates : Generate(FALSE, position, rate)
    BY <1>3, Zenon DEF RelocatedBlock
  <2>2. adrift' = adrift \cup {"relocate"} /\ "relocate" \in HostMay
    BY <1>3, Zenon DEF RelocatedBlock
  <2>3. adrift \subseteq adrift' /\ adrift' \subseteq HostMay
    BY <2>2, Zenon DEF FollowInv, ClockTypeOK
  <2>4. position \in Nat
    BY ClockNumbers
  <2>5. QED
    BY <2>1, <2>3, <2>4, HaltFollows
<1>4. CASE Reset
  <2>1. /\ expectedPpq' = 0 /\ nextClockTick' = 0 /\ transportKnown' = FALSE
        /\ wasPlaying' = FALSE /\ adrift' = adrift \cup {"reprepare"} /\ eps' = eps
        /\ "reprepare" \in HostMay
    BY <1>4, Zenon DEF Reset
  <2>2. expectedPpq' \in Nat /\ nextClockTick' \in Nat
    BY <2>1
  <2>3. adrift' \subseteq HostMay /\ "reprepare" \in adrift'
    BY <2>1, Zenon DEF FollowInv, ClockTypeOK
  <2>4. QED
    BY <2>1, <2>2, <2>3, Zenon DEF FollowInv, ClockTypeOK
<1>5. CASE UNCHANGED clockVars
  BY <1>5, Zenon DEF clockVars, FollowInv, ClockTypeOK
<1>6. QED
  BY <1>1, <1>2, <1>3, <1>4, <1>5 DEF ClockNext

\* The EPS runs while the DAW plays and stops with it, unless the host has
\* prepared again since the Start (HostMidiClock::generate(), reset()).
THEOREM EpsRunsWithTheTransport == ClockSpec => []EpsFollowsTransport
<1>1. FollowInv => EpsFollowsTransport
  BY Zenon DEF FollowInv, EpsFollowsTransport
<1>2. QED
  BY <1>1, FollowInvInit, FollowInvStep, PTL DEF ClockSpec

-------------------------------------------------------------------------------
(* Where the EPS is. *)

\* Tick t is the next one at position p: it is not yet due, and no later than a
\* tick from here.
Near(t, p) ==
    /\ t * UnitsPerTick < p + UnitsPerTick
    /\ \E r \in Rates : 2 * p <= 2 * (t * UnitsPerTick) + r

\* Unless the host has moved a halted transport or prepared again, the EPS has
\* heard every tick that was sent.
StepInv ==
    /\ FollowInv
    /\ adrift = {} => eps.tick = nextClockTick /\ Near(nextClockTick, expectedPpq)

\* A block that starts within a tolerated jump of a Near position ends Near.
LEMMA BlockEndsNear ==
    ASSUME Samples >= 2, NEW first \in Nat, NEW position \in Nat, NEW rate \in Rates,
           NEW room \in Nat \ {0}, room >= Capacity - 2, NEW s \in Rates,
           first * UnitsPerTick < position + 2 * rate + UnitsPerTick,
           2 * position <= 2 * (first * UnitsPerTick) + 4 * rate + s
    PROVE  Near(first + Cardinality(DueTicks(first, position, rate, room)),
                position + rate * Samples)
<1> DEFINE l == Last(position, rate)
           m == IF first + room - 1 <= l THEN first + room - 1 ELSE l
           count == Cardinality(DueTicks(first, position, rate, room))
           bound == Bound(position, rate)
           end == position + rate * Samples
<1>1. count \in Nat /\ count = IF first > m THEN 0 ELSE m - first + 1
  BY DueCount
<1>2. /\ l \in Int /\ 2 * (l * UnitsPerTick) < bound
      /\ bound <= 2 * (l * UnitsPerTick) + 2 * UnitsPerTick /\ bound \in Int
  BY LastType
<1>3. /\ UnitsPerTick \in Nat \ {0} /\ rate \in Nat \ {0} /\ s \in Nat \ {0}
      /\ Samples \in Nat \ {0} /\ Capacity \in Nat /\ Capacity >= 3
  BY ClockNumbers
<1>4. rate * Samples \in Nat /\ 2 * rate <= rate * Samples
  BY <1>3
<1>5. bound = 2 * end - rate /\ end = position + rate * Samples /\ end \in Nat
  BY <1>3, <1>4 DEF Bound
<1> HIDE DEF l, count, bound, end
<1> DEFINE next == first + count
<1>6. m \in Int /\ m <= l /\ (m = l \/ m = first + room - 1)
  BY <1>2
<1> HIDE DEF m
<1>7. next = IF first > m THEN first ELSE m + 1
  <2>1. CASE first > m
    <3>1. count = 0
      BY <1>1, <2>1
    <3>2. QED
      BY <2>1, <3>1
  <2>2. CASE ~(first > m)
    <3>1. count = m - first + 1
      BY <1>1, <2>2
    <3>2. QED
      BY <1>6, <2>2, <3>1
  <2>3. QED
    BY <2>1, <2>2
<1>8. next \in Nat
  BY <1>1
<1> HIDE DEF next
<1>9. next * UnitsPerTick < end + UnitsPerTick
  <2>1. CASE first > m
    <3>1. next * UnitsPerTick = first * UnitsPerTick /\ first * UnitsPerTick \in Nat
      BY <1>3, <1>7, <2>1
    <3>2. QED
      BY <1>3, <1>4, <1>5, <3>1
  <2>2. CASE ~(first > m)
    <3>1. next = m + 1 /\ next <= l + 1
      BY <1>2, <1>7, <1>6, <2>2
    <3>2. next * UnitsPerTick <= (l + 1) * UnitsPerTick
      BY <1>2, <1>3, <1>8, <3>1
    <3>3. (l + 1) * UnitsPerTick = l * UnitsPerTick + UnitsPerTick /\ l * UnitsPerTick \in Int
      BY <1>2, <1>3
    <3>4. 2 * (l * UnitsPerTick) < 2 * end - rate
      BY <1>2, <1>5
    <3>5. l * UnitsPerTick < end
      BY <1>3, <1>5, <3>3, <3>4
    <3>6. next * UnitsPerTick \in Nat
      BY <1>3, <1>8
    <3>7. QED
      BY <1>3, <1>5, <3>2, <3>3, <3>5, <3>6
  <2>3. QED
    BY <2>1, <2>2
<1>10. 2 * end <= 2 * (next * UnitsPerTick) + rate
  <2>1. CASE m = l
    <3>1. next >= l + 1
      BY <1>2, <1>7, <1>6, <2>1
    <3>2. (l + 1) * UnitsPerTick <= next * UnitsPerTick
      BY <1>2, <1>3, <1>8, <3>1
    <3>3. (l + 1) * UnitsPerTick = l * UnitsPerTick + UnitsPerTick /\ l * UnitsPerTick \in Int
      BY <1>2, <1>3
    <3>4. next * UnitsPerTick \in Nat
      BY <1>3, <1>8
    <3>5. QED
      BY <1>2, <1>3, <1>5, <3>2, <3>3, <3>4
  <2>2. CASE m = first + room - 1
    <3>1. next = first + room
      BY <1>7, <2>2
    <3>2. next * UnitsPerTick = first * UnitsPerTick + room * UnitsPerTick
      BY <1>3, <3>1
    <3>3. (Capacity - 2) * UnitsPerTick <= room * UnitsPerTick
      BY <1>3
    <3>4. rate * (2 * Samples + 3) + s <= 2 * (Capacity - 2) * UnitsPerTick
      BY CapacityAssumption
    <3>5. /\ rate * (2 * Samples + 3) = 2 * (rate * Samples) + 3 * rate
          /\ 2 * (Capacity - 2) * UnitsPerTick = 2 * ((Capacity - 2) * UnitsPerTick)
      BY <1>3
    <3>6. /\ first * UnitsPerTick \in Nat /\ room * UnitsPerTick \in Nat
          /\ (Capacity - 2) * UnitsPerTick \in Int
      BY <1>3
    <3>7. QED
      BY <1>3, <1>4, <1>5, <3>2, <3>3, <3>4, <3>5, <3>6
  <2>3. QED
    BY <1>6, <2>1, <2>2
<1>11. QED
  BY <1>9, <1>10 DEF Near, next, count, end

\* A block that starts the EPS anew ends Near.
LEMMA AnewNear ==
    ASSUME Samples >= 2, ClockTypeOK, NEW position \in Nat, NEW rate \in Rates,
           Generate(TRUE, position, rate), StartsAnew(TRUE, position, rate)
    PROVE  eps'.tick = nextClockTick' /\ Near(nextClockTick', expectedPpq')
<1> DEFINE first == FirstTick(TRUE, position, rate)
           room == Room(TRUE, position, rate)
<1>1. first = CeilDiv(position, UnitsPerTick)
  BY DEF FirstTick
<1>2. /\ first \in Nat /\ position <= first * UnitsPerTick
      /\ first * UnitsPerTick < position + UnitsPerTick
  BY <1>1, CeilType
<1>3. room \in Nat \ {0} /\ room >= Capacity - 2
  BY RoomType
<1>4. /\ nextClockTick' = first + Sent(TRUE, position, rate)
      /\ expectedPpq' = position + rate * Samples
      /\ eps'.tick = CeilDiv(position, UnitsPerTick) + Sent(TRUE, position, rate)
  BY GenerateIs
<1>5. Sent(TRUE, position, rate) = Cardinality(DueTicks(first, position, rate, room))
  BY DEF Sent
<1> HIDE DEF first, room
<1>6. /\ UnitsPerTick \in Nat \ {0} /\ rate \in Nat \ {0} /\ first * UnitsPerTick \in Nat
  BY <1>2, ClockNumbers
<1>7. /\ first * UnitsPerTick < position + 2 * rate + UnitsPerTick
      /\ 2 * position <= 2 * (first * UnitsPerTick) + 4 * rate + rate
  BY <1>2, <1>6
<1>8. Near(first + Cardinality(DueTicks(first, position, rate, room)),
           position + rate * Samples)
  BY <1>2, <1>3, <1>7, BlockEndsNear
<1>9. QED
  BY <1>1, <1>4, <1>5, <1>8, Zenon

\* A block that goes on where the last one ended, or that Continues, ends Near.
LEMMA OnNear ==
    ASSUME Samples >= 2, StepInv, adrift = {}, NEW position \in Nat, NEW rate \in Rates,
           Generate(TRUE, position, rate), ~StartsAnew(TRUE, position, rate)
    PROVE  eps'.tick = nextClockTick' /\ Near(nextClockTick', expectedPpq')
<1> DEFINE room == Room(TRUE, position, rate)
<1>1. FirstTick(TRUE, position, rate) = nextClockTick
  BY DEF FirstTick
<1>2. room \in Nat \ {0} /\ room >= Capacity - 2
  BY RoomType
<1>3. ClockTypeOK /\ eps.tick = nextClockTick /\ Near(nextClockTick, expectedPpq)
  BY Zenon DEF StepInv, FollowInv
<1>4. /\ nextClockTick' = nextClockTick + Sent(TRUE, position, rate)
      /\ expectedPpq' = position + rate * Samples
      /\ eps'.tick = eps.tick + Sent(TRUE, position, rate)
  BY <1>1, <1>3, GenerateIs
<1>5. Sent(TRUE, position, rate)
          = Cardinality(DueTicks(nextClockTick, position, rate, room))
  BY <1>1 DEF Sent
<1> HIDE DEF room
<1>6. Distance(position, expectedPpq) <= 2 * rate
  <2>1. CASE SendsRun(TRUE, position, rate)
    BY <2>1, Zenon DEF StartsAnew, ContinuesFromStop
  <2>2. CASE ~SendsRun(TRUE, position, rate)
    <3>1. ~(Distance(position, expectedPpq) > 2 * rate)
      BY <2>2, Zenon DEF SendsRun, Discontinuity
    <3>2. Distance(position, expectedPpq) \in Int /\ 2 * rate \in Int
      BY <1>3, ClockNumbers DEF Distance, ClockTypeOK
    <3>3. QED
      BY <3>1, <3>2
  <2>3. QED
    BY <2>1, <2>2
<1>7. PICK s \in Rates : 2 * expectedPpq <= 2 * (nextClockTick * UnitsPerTick) + s
  BY <1>3 DEF Near
<1>8. /\ nextClockTick \in Nat /\ expectedPpq \in Nat /\ UnitsPerTick \in Nat \ {0}
      /\ rate \in Nat \ {0} /\ s \in Nat \ {0}
  BY <1>3, ClockNumbers DEF ClockTypeOK
<1>9. nextClockTick * UnitsPerTick \in Nat
      /\ nextClockTick * UnitsPerTick < expectedPpq + UnitsPerTick
  BY <1>3, <1>8 DEF Near
<1>10. expectedPpq <= position + 2 * rate /\ position <= expectedPpq + 2 * rate
  BY <1>6, <1>8 DEF Distance
<1>11. /\ nextClockTick * UnitsPerTick < position + 2 * rate + UnitsPerTick
       /\ 2 * position <= 2 * (nextClockTick * UnitsPerTick) + 4 * rate + s
  BY <1>7, <1>8, <1>9, <1>10
<1>12. Near(nextClockTick + Cardinality(DueTicks(nextClockTick, position, rate, room)),
           position + rate * Samples)
  BY <1>2, <1>8, <1>11, BlockEndsNear
<1>13. QED
  BY <1>3, <1>4, <1>5, <1>12, Zenon

LEMMA StepInvInit == ClockInit => StepInv
<1> SUFFICES ASSUME ClockInit
             PROVE  StepInv
  OBVIOUS
<1>1. eps.tick = 0 /\ nextClockTick = 0 /\ expectedPpq = 0
  BY DEF ClockInit
<1>2. PICK r \in Rates : TRUE
  BY RatesAssumption
<1>3. Near(0, 0)
  BY <1>2, ClockNumbers DEF Near
<1>4. QED
  BY <1>1, <1>3, FollowInvInit DEF StepInv

LEMMA StepInvStep == Samples >= 2 /\ StepInv /\ [ClockNext]_clockVars => StepInv'
<1> SUFFICES ASSUME Samples >= 2, StepInv, [ClockNext]_clockVars
             PROVE  StepInv'
  OBVIOUS
<1>1. FollowInv /\ FollowInv' /\ ClockTypeOK
  BY FollowInvStep DEF StepInv, FollowInv
<1> SUFFICES ASSUME adrift' = {}
             PROVE  eps'.tick = nextClockTick' /\ Near(nextClockTick', expectedPpq')
  BY <1>1, Zenon DEF StepInv, Near
<1>2. CASE PlayBlock
  <2>1. PICK position \in 0 .. MaxPosition, rate \in Rates :
          /\ Generate(TRUE, position, rate)
          /\ adrift' = IF StartsAnew(TRUE, position, rate) THEN {} ELSE adrift
    BY <1>2, Zenon DEF PlayBlock
  <2>2. position \in Nat
    BY ClockNumbers
  <2>3. CASE StartsAnew(TRUE, position, rate)
    BY <1>1, <2>1, <2>2, <2>3, AnewNear
  <2>4. CASE ~StartsAnew(TRUE, position, rate)
    <3>1. adrift = {}
      BY <2>1, <2>4, Zenon
    <3>2. QED
      BY <2>1, <2>2, <2>4, <3>1, OnNear
  <2>5. QED
    BY <2>3, <2>4
<1>3. CASE StoppedBlock
  <2>1. PICK rate \in Rates : Generate(FALSE, expectedPpq, rate)
    BY <1>3, Zenon DEF StoppedBlock
  <2>2. adrift = {}
    BY <1>3, Zenon DEF StoppedBlock
  <2>3. eps.tick = nextClockTick /\ Near(nextClockTick, expectedPpq)
    BY <2>2, Zenon DEF StepInv
  <2>4. expectedPpq \in Nat /\ nextClockTick \in Nat /\ eps.tick \in Nat
    BY <1>1 DEF ClockTypeOK
  <2>5. ~StartsAnew(FALSE, expectedPpq, rate)
    BY Zenon DEF StartsAnew, SendsRun
  <2>6. FirstTick(FALSE, expectedPpq, rate) = nextClockTick
    BY <2>5, Zenon DEF FirstTick
  <2>7. Sent(FALSE, expectedPpq, rate) = 0
    BY DEF Sent
  <2>8. /\ nextClockTick' = nextClockTick + 0 /\ expectedPpq' = expectedPpq
        /\ eps'.tick = eps.tick + 0
    BY <1>1, <2>1, <2>4, <2>5, <2>6, <2>7, GenerateIs
  <2>9. nextClockTick' = nextClockTick /\ eps'.tick = eps.tick
    BY <2>4, <2>8
  <2>10. QED
    BY <2>3, <2>8, <2>9, Zenon
<1>4. CASE RelocatedBlock
  BY <1>4, Zenon DEF RelocatedBlock
<1>5. CASE Reset
  BY <1>5, Zenon DEF Reset
<1>6. CASE UNCHANGED clockVars
  BY <1>6, Zenon DEF clockVars, StepInv
<1>7. QED
  BY <1>2, <1>3, <1>4, <1>5, <1>6 DEF ClockNext

LEMMA StepInvProperty == StepInv => EpsInStep
<1> SUFFICES ASSUME StepInv, adrift = {}
             PROVE  TickInStep
  BY Zenon DEF EpsInStep
<1>1. eps.tick = nextClockTick /\ Near(nextClockTick, expectedPpq)
  BY Zenon DEF StepInv
<1>2. nextClockTick \in Nat /\ expectedPpq \in Nat
  BY DEF StepInv, FollowInv, ClockTypeOK
<1>3. PICK r \in Rates : 2 * expectedPpq <= 2 * (nextClockTick * UnitsPerTick) + r
  BY <1>1 DEF Near
<1>4. UnitsPerTick \in Nat \ {0} /\ r \in Nat \ {0}
  BY ClockNumbers
<1>5. /\ nextClockTick * UnitsPerTick \in Nat
      /\ nextClockTick * UnitsPerTick < expectedPpq + UnitsPerTick
  BY <1>1, <1>2, <1>4 DEF Near
<1>6. Distance(nextClockTick * UnitsPerTick, expectedPpq) <= UnitsPerTick + r
  BY <1>2, <1>3, <1>4, <1>5 DEF Distance
<1>7. QED
  BY <1>1, <1>6 DEF TickInStep

\* With blocks of two samples or more the EPS is at most a tick and a sample
\* away from the DAW after every block, however tempo and transport change, until
\* the host moves a halted transport or prepares again; from the next Start on
\* it is so again (HostMidiClock::generate()).
THEOREM EpsStaysInStep == Samples >= 2 => (ClockSpec => []EpsInStep)
<1>1. SUFFICES ASSUME Samples >= 2
               PROVE  ClockSpec => []EpsInStep
  OBVIOUS
<1>2. StepInv /\ [ClockNext]_clockVars => StepInv'
  BY <1>1, StepInvStep
<1>3. QED
  BY <1>2, StepInvInit, StepInvProperty, PTL DEF ClockSpec
===============================================================================
