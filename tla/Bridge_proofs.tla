------------------------------ MODULE Bridge_proofs -----------------------------
(***************************************************************************)
(* What passes through the bridge, proved for every size of the queues and *)
(* any pace: the way of a key from the editor to the EPS, the messages of  *)
(* the host on the wire to the EPS, and the messages of the EPS to the     *)
(* host.                                                                   *)
(***************************************************************************)
EXTENDS PanelPath, MidiIn, MidiOut, SequenceTheorems, FiniteSetTheorems, TLAPS

-------------------------------------------------------------------------------
(* Keys: a key is known as the user holds it once its moves have arrived,  *)
(* and is never reported twice in one direction.                           *)

Item == Transition \cup Immediate

\* The moves of a key on the way alternate, the first changes what the EPS
\* knows and the last made what the user holds.
Alternates(way, key, known, hold) ==
    LET moves == Moves(way, key) IN
    /\ moves = {} => (key \in known <=> key \in hold)
    /\ \A i \in moves : (\A j \in moves : i <= j) => (way[i].down <=> key \notin known)
    /\ \A i \in moves : (\A j \in moves : j <= i) => (way[i].down <=> key \in hold)
    /\ \A i, j \in moves : i < j /\ (\A k \in moves : k <= i \/ j <= k) =>
          (way[i].down <=> ~way[j].down)

PathTypes ==
    /\ controls \in Seq(Item) /\ physical \in Seq(Transition)
    /\ Len(physical) <= PhysicalLimit
    /\ pending \in Transition \cup {Nothing}
    /\ expected \in Transition \cup {Nothing}
    /\ sawCode \in BOOLEAN /\ lost \in BOOLEAN

PathInv ==
    /\ PathTypes
    /\ ~lost => \A key \in Key : Alternates(OnTheWay, key, heard, held)

-------------------------------------------------------------------------------
(* Sequences. *)

LEMMA NothingElse ==
    /\ Nothing \notin Transition
    /\ \A x \in Immediate : x \notin Transition
    /\ Transition \subseteq Item
<1>1. Nothing \notin Transition
  BY DEF Nothing, Transition
<1>2. \A x \in Immediate : x \notin Transition
  BY DEF Immediate, Transition
<1>3. QED
  BY <1>1, <1>2 DEF Item

LEMMA WaysJoin ==
    /\ \A a, b \in Seq(Item) : a \o b \in Seq(Item)
    /\ \A a, b, c \in Seq(Item) : (a \o b) \o c = a \o (b \o c)
    /\ \A a \in Seq(Item) : a \o <<>> = a /\ <<>> \o a = a
    /\ \A a \in Seq(Item), x \in Item : Append(a, x) = a \o <<x>>
    /\ <<>> \in Seq(Item)
    /\ \A x \in Item : <<x>> \in Seq(Item)
    /\ \A a \in Seq(Item) : a # <<>> =>
          /\ Head(a) \in Item /\ Tail(a) \in Seq(Item)
          /\ a = <<Head(a)>> \o Tail(a)
<1>1. \A a, b \in Seq(Item) : a \o b \in Seq(Item)
  BY ConcatProperties
<1>2. \A a, b, c \in Seq(Item) : (a \o b) \o c = a \o (b \o c)
  BY ConcatAssociative
<1>3. \A a \in Seq(Item) : a \o <<>> = a /\ <<>> \o a = a
  BY ConcatEmptySeq
<1>4. \A a \in Seq(Item), x \in Item : Append(a, x) = a \o <<x>>
  BY AppendIsConcat
<1>5. <<>> \in Seq(Item)
  BY EmptySeq
<1>6. \A x \in Item : <<x>> \in Seq(Item)
  OBVIOUS
<1>7. ASSUME NEW a \in Seq(Item), a # <<>>
      PROVE  /\ Head(a) \in Item /\ Tail(a) \in Seq(Item)
             /\ a = <<Head(a)>> \o Tail(a)
  BY <1>7
<1>8. QED
  BY <1>1, <1>2, <1>3, <1>4, <1>5, <1>6, <1>7

LEMMA JoinIsWay == \A a, b \in Seq(Item) : a \o b \in Seq(Item)
  BY WaysJoin, Zenon

LEMMA JoinAssociates ==
    \A a, b, c \in Seq(Item) : (a \o b) \o c = a \o (b \o c)
  BY WaysJoin, Zenon

LEMMA Regrouped ==
    \A a, b, c, d \in Seq(Item) :
        ((a \o b) \o c) \o d = a \o ((b \o c) \o d)
<1> SUFFICES ASSUME NEW a \in Seq(Item), NEW b \in Seq(Item), NEW c \in Seq(Item)
             PROVE  \A d \in Seq(Item) :
                        ((a \o b) \o c) \o d = a \o ((b \o c) \o d)
  BY Zenon
<1> DEFINE bc == b \o c
<1>1. \A x \in Seq(Item) : (a \o b) \o x = a \o (b \o x)
  BY JoinAssociates, Zenon
<1>2. (a \o b) \o c = a \o bc
  BY <1>1, Zenon
<1>3. bc \in Seq(Item)
  BY JoinIsWay, Zenon
<1> HIDE DEF bc
<1>4. \A d \in Seq(Item) : (a \o bc) \o d = a \o (bc \o d)
  BY <1>3, JoinAssociates, Zenon
<1>5. QED
  BY <1>2, <1>4, Zenon DEF bc

LEMMA JoinNothing == \A a \in Seq(Item) : a \o <<>> = a /\ <<>> \o a = a
  BY WaysJoin, Zenon

LEMMA WayParts ==
    ASSUME NEW a \in Seq(Item), NEW b \in Seq(Item)
    PROVE  /\ Len(a) \in Nat /\ Len(b) \in Nat
           /\ DOMAIN a = 1 .. Len(a) /\ DOMAIN b = 1 .. Len(b)
           /\ DOMAIN (a \o b) = 1 .. Len(a) + Len(b)
           /\ \A i \in 1 .. Len(a) : (a \o b)[i] = a[i]
           /\ \A i \in 1 .. Len(b) : (a \o b)[Len(a) + i] = b[i]
<1>1. /\ a \o b \in Seq(Item) /\ Len(a \o b) = Len(a) + Len(b)
      /\ \A i \in 1 .. Len(a) + Len(b) :
            (a \o b)[i] = IF i <= Len(a) THEN a[i] ELSE b[i - Len(a)]
  BY ConcatProperties
<1>2. /\ Len(a) \in Nat /\ Len(b) \in Nat
      /\ DOMAIN a = 1 .. Len(a) /\ DOMAIN b = 1 .. Len(b)
  BY LenProperties
<1>3. DOMAIN (a \o b) = 1 .. Len(a) + Len(b)
  BY <1>1, LenProperties
<1>4. ASSUME NEW i \in 1 .. Len(a)
      PROVE  (a \o b)[i] = a[i]
  <2>1. i \in 1 .. Len(a) + Len(b) /\ i <= Len(a)
    BY <1>2
  <2>2. QED
    BY <2>1, <1>1, Zenon
<1>5. ASSUME NEW i \in 1 .. Len(b)
      PROVE  (a \o b)[Len(a) + i] = b[i]
  <2> DEFINE j == Len(a) + i
  <2>1. j \in 1 .. Len(a) + Len(b) /\ ~(j <= Len(a)) /\ j - Len(a) = i
    BY <1>2
  <2> HIDE DEF j
  <2>2. (a \o b)[j] = b[i]
    BY <2>1, <1>1, Zenon
  <2>3. QED
    BY <2>2 DEF j
<1>6. QED
  BY <1>2, <1>3, <1>4, <1>5

\* The moves of a key in r are those in q, in their order; g says which is which.
SameOrder(q, r, g, key) ==
    /\ \A i \in Moves(r, key) : g[i] \in Moves(q, key) /\ q[g[i]] = r[i]
    /\ \A j \in Moves(q, key) : \E i \in Moves(r, key) : j = g[i]
    /\ \A i, j \in Moves(r, key) : (i <= j <=> g[i] <= g[j]) /\ (i < j <=> g[i] < g[j])

\* Where the moves of two ways correspond in order, so do their properties.
LEMMA Corresponds ==
    ASSUME NEW q, NEW r, NEW g, NEW key, NEW known, NEW hold,
           Alternates(q, key, known, hold), SameOrder(q, r, g, key)
    PROVE  Alternates(r, key, known, hold)
<1> DEFINE m == Moves(r, key)
           n == Moves(q, key)
<1>0. /\ n = {} => (key \in known <=> key \in hold)
      /\ \A i \in n : (\A j \in n : i <= j) => (q[i].down <=> key \notin known)
      /\ \A i \in n : (\A j \in n : j <= i) => (q[i].down <=> key \in hold)
      /\ \A i, j \in n : i < j /\ (\A k \in n : k <= i \/ j <= k) =>
            (q[i].down <=> ~q[j].down)
  BY Zenon DEF Alternates
<1>1. /\ \A i \in m : g[i] \in n /\ q[g[i]] = r[i]
      /\ \A j \in n : \E i \in m : j = g[i]
      /\ \A i, j \in m : (i <= j <=> g[i] <= g[j]) /\ (i < j <=> g[i] < g[j])
  BY Zenon DEF SameOrder
<1> HIDE DEF m, n
<1>2. m = {} => n = {}
  BY <1>1
<1>3. ASSUME NEW i \in m, \A j \in m : i <= j
      PROVE  r[i].down <=> key \notin known
  <2>1. ASSUME NEW j \in n
        PROVE  g[i] <= j
    <3>1. PICK k \in m : j = g[k]
      BY <1>1, Zenon
    <3>2. g[i] <= g[k]
      BY <1>1, <1>3, Zenon
    <3>3. QED
      BY <3>1, <3>2, Zenon
  <2>2. q[g[i]].down <=> key \notin known
    BY <1>0, <1>1, <2>1, Zenon
  <2>3. QED
    BY <1>1, <2>2, Zenon
<1>4. ASSUME NEW i \in m, \A j \in m : j <= i
      PROVE  r[i].down <=> key \in hold
  <2>1. ASSUME NEW j \in n
        PROVE  j <= g[i]
    <3>1. PICK k \in m : j = g[k]
      BY <1>1, Zenon
    <3>2. g[k] <= g[i]
      BY <1>1, <1>4, Zenon
    <3>3. QED
      BY <3>1, <3>2, Zenon
  <2>2. q[g[i]].down <=> key \in hold
    BY <1>0, <1>1, <2>1, Zenon
  <2>3. QED
    BY <1>1, <2>2, Zenon
<1>5. ASSUME NEW i \in m, NEW j \in m, i < j, \A k \in m : k <= i \/ j <= k
      PROVE  r[i].down <=> ~r[j].down
  <2>0. g[i] < g[j] /\ g[i] \in n /\ g[j] \in n
    BY <1>1, <1>5, Zenon
  <2>1. ASSUME NEW k \in n
        PROVE  k <= g[i] \/ g[j] <= k
    <3>1. PICK l \in m : k = g[l]
      BY <1>1, Zenon
    <3>2. g[l] <= g[i] \/ g[j] <= g[l]
      BY <1>1, <1>5, Zenon
    <3>3. QED
      BY <3>1, <3>2, Zenon
  <2> DEFINE x == g[i]
             y == g[j]
  <2>4. x < y /\ x \in n /\ y \in n /\ \A k \in n : k <= x \/ y <= k
    BY <2>0, <2>1, Zenon
  <2>5. q[x] = r[i] /\ q[y] = r[j]
    BY <1>1, Zenon
  <2> HIDE DEF x, y
  <2>2. q[x].down <=> ~q[y].down
    BY <1>0, <2>4, Zenon
  <2>3. QED
    BY <2>2, <2>5, Zenon
<1>6. QED
  BY <1>0, <1>2, <1>3, <1>4, <1>5, Zenon DEF Alternates, m

\* Where they are the same, too; what is known of other keys does not matter.
LEMMA SameMoves ==
    ASSUME NEW q, NEW r, NEW key, NEW known, NEW hold, NEW holds,
           Alternates(q, key, known, hold), key \in holds <=> key \in hold,
           Moves(r, key) = Moves(q, key), \A i \in Moves(q, key) : q[i] = r[i]
    PROVE  Alternates(r, key, known, holds)
<1> DEFINE n == Moves(q, key)
<1>1. /\ n = {} => (key \in known <=> key \in hold)
      /\ \A i \in n : (\A j \in n : i <= j) => (q[i].down <=> key \notin known)
      /\ \A i \in n : (\A j \in n : j <= i) => (q[i].down <=> key \in hold)
      /\ \A i, j \in n : i < j /\ (\A k \in n : k <= i \/ j <= k) =>
            (q[i].down <=> ~q[j].down)
  BY Zenon DEF Alternates
<1>2. Moves(r, key) = n /\ \A i \in n : q[i] = r[i]
  BY Zenon
<1> HIDE DEF n
<1>3. ASSUME NEW i \in n, \A j \in n : i <= j
      PROVE  r[i].down <=> key \notin known
  BY <1>1, <1>2, <1>3, Zenon
<1>4. ASSUME NEW i \in n, \A j \in n : j <= i
      PROVE  r[i].down <=> key \in holds
  <2>1. q[i].down <=> key \in hold
    BY <1>1, <1>4, Zenon
  <2>2. QED
    BY <2>1, <1>2, Zenon
<1>5. ASSUME NEW i \in n, NEW j \in n, i < j, \A k \in n : k <= i \/ j <= k
      PROVE  r[i].down <=> ~r[j].down
  <2>1. q[i].down <=> ~q[j].down
    BY <1>1, <1>5, Zenon
  <2>2. QED
    BY <2>1, <1>2, Zenon
<1>6. QED
  BY <1>1, <1>2, <1>3, <1>4, <1>5, Zenon DEF Alternates

\* What is no move can be put behind or taken away.
LEMMA OthersDoNotMatter ==
    ASSUME NEW a \in Seq(Item), NEW b \in Seq(Item), NEW key, NEW known, NEW hold,
           \A i \in DOMAIN b : b[i] \notin Transition
    PROVE  Alternates(a \o b, key, known, hold) <=> Alternates(a, key, known, hold)
<1> DEFINE q == a \o b
           m == Len(a)
           n == Len(b)
<1>1. /\ m \in Nat /\ n \in Nat /\ DOMAIN a = 1 .. m /\ DOMAIN b = 1 .. n
      /\ DOMAIN q = 1 .. m + n
      /\ \A i \in 1 .. m : q[i] = a[i]
      /\ \A i \in 1 .. n : q[m + i] = b[i]
  BY WayParts
<1> HIDE DEF q, m, n
<1>2. \A i \in 1 .. m + n : q[i] \in Transition => i \in 1 .. m
  <2> SUFFICES ASSUME NEW i \in 1 .. m + n, i \notin 1 .. m
               PROVE  q[i] \notin Transition
    OBVIOUS
  <2> DEFINE j == i - m
  <2>1. j \in 1 .. n /\ m + j = i
    BY <1>1
  <2> HIDE DEF j
  <2>2. q[m + j] = b[j] /\ b[j] \notin Transition
    BY <1>1, <2>1, Zenon
  <2>3. QED
    BY <2>1, <2>2
<1>3. \A i \in 1 .. m : i \in 1 .. m + n
  BY <1>1
<1>4. Moves(q, key) = Moves(a, key)
  BY <1>1, <1>2, <1>3, Zenon DEF Moves
<1>5. \A i \in Moves(a, key) : q[i] = a[i]
  BY <1>1, Zenon DEF Moves
<1>6. Alternates(q, key, known, hold) <=> Alternates(a, key, known, hold)
  <2>1. Alternates(q, key, known, hold) => Alternates(a, key, known, hold)
    BY <1>4, <1>5, SameMoves, Zenon
  <2>2. Alternates(a, key, known, hold) => Alternates(q, key, known, hold)
    BY <1>4, <1>5, SameMoves, Zenon
  <2>3. QED
    BY <2>1, <2>2
<1>7. QED
  BY <1>6 DEF q

\* The same in the middle.
LEMMA OtherGoes ==
    ASSUME NEW a \in Seq(Item), NEW b \in Seq(Item), NEW x \in Item,
           x \notin Transition, NEW key, NEW known, NEW hold,
           Alternates((a \o <<x>>) \o b, key, known, hold)
    PROVE  Alternates(a \o b, key, known, hold)
<1> DEFINE q == (a \o <<x>>) \o b
           r == a \o b
           m == Len(a)
           n == Len(b)
           g == [i \in 1 .. m + n |-> IF i <= m THEN i ELSE i + 1]
<1>1. /\ m \in Nat /\ n \in Nat
      /\ DOMAIN r = 1 .. m + n
      /\ \A i \in 1 .. m : r[i] = a[i]
      /\ \A i \in 1 .. n : r[m + i] = b[i]
  BY WayParts
<1>2. /\ <<x>> \in Seq(Item) /\ Len(<<x>>) = 1 /\ <<x>>[1] = x
  OBVIOUS
<1>3. /\ a \o <<x>> \in Seq(Item) /\ Len(a \o <<x>>) = m + 1
      /\ \A i \in 1 .. m : (a \o <<x>>)[i] = a[i]
      /\ (a \o <<x>>)[m + 1] = x
  <2>1. 1 \in 1 .. Len(<<x>>)
    BY <1>2
  <2>2. QED
    BY <2>1, <1>1, <1>2, WayParts, ConcatProperties
<1>4. /\ DOMAIN q = 1 .. m + 1 + n
      /\ \A i \in 1 .. m + 1 : q[i] = (a \o <<x>>)[i]
      /\ \A i \in 1 .. n : q[m + 1 + i] = b[i]
  BY <1>3, WayParts
<1>5. \A i \in 1 .. m + n : g[i] = IF i <= m THEN i ELSE i + 1
  OBVIOUS
<1> HIDE DEF q, r, m, n, g
<1>6. \A i \in 1 .. m + n : g[i] \in 1 .. m + 1 + n /\ q[g[i]] = r[i]
  <2> SUFFICES ASSUME NEW i \in 1 .. m + n
               PROVE  g[i] \in 1 .. m + 1 + n /\ q[g[i]] = r[i]
    OBVIOUS
  <2>1. CASE i <= m
    <3>1. i \in 1 .. m /\ i \in 1 .. m + 1 /\ i \in 1 .. m + 1 + n /\ g[i] = i
      BY <2>1, <1>1, <1>5
    <3>2. r[i] = a[i] /\ q[i] = a[i]
      <4>1. r[i] = a[i] /\ (a \o <<x>>)[i] = a[i]
        BY <3>1, <1>1, <1>3, Zenon
      <4>2. q[i] = (a \o <<x>>)[i]
        BY <3>1, <1>4, Zenon
      <4>3. QED
        BY <4>1, <4>2, Zenon
    <3>3. QED
      BY <3>1, <3>2
  <2>2. CASE ~(i <= m)
    <3> DEFINE j == i - m
    <3>1. j \in 1 .. n /\ m + j = i /\ m + 1 + j = g[i] /\ g[i] \in 1 .. m + 1 + n
      BY <2>2, <1>1, <1>5
    <3> HIDE DEF j
    <3>2. r[m + j] = b[j] /\ q[m + 1 + j] = b[j]
      BY <3>1, <1>1, <1>4, Zenon
    <3>3. QED
      BY <3>1, <3>2
  <2>3. QED
    BY <2>1, <2>2
<1>7. \A j \in 1 .. m + 1 + n : q[j] \in Transition => \E i \in 1 .. m + n : j = g[i]
  <2> SUFFICES ASSUME NEW j \in 1 .. m + 1 + n, q[j] \in Transition
               PROVE  \E i \in 1 .. m + n : j = g[i]
    OBVIOUS
  <2>1. j # m + 1
    <3>1. m + 1 \in 1 .. m + 1
      BY <1>1
    <3>2. q[m + 1] = x
      BY <3>1, <1>3, <1>4
    <3>3. QED
      BY <3>2
  <2>2. CASE j <= m
    <3>1. j \in 1 .. m + n /\ g[j] = j
      BY <2>2, <1>1, <1>5
    <3>2. QED
      BY <3>1
  <2>3. CASE ~(j <= m)
    <3>1. j - 1 \in 1 .. m + n /\ g[j - 1] = j
      BY <2>1, <2>3, <1>1, <1>5
    <3>2. QED
      BY <3>1
  <2>4. QED
    BY <2>2, <2>3
<1>8. \A i \in Moves(r, key) : g[i] \in Moves(q, key) /\ q[g[i]] = r[i]
  BY <1>1, <1>4, <1>6, Zenon DEF Moves
<1>9. \A j \in Moves(q, key) : \E i \in Moves(r, key) : j = g[i]
  <2> SUFFICES ASSUME NEW j \in Moves(q, key)
               PROVE  \E i \in Moves(r, key) : j = g[i]
    OBVIOUS
  <2>1. j \in 1 .. m + 1 + n /\ q[j] \in Transition /\ q[j].key = key
    BY <1>4, Zenon DEF Moves
  <2>2. PICK i \in 1 .. m + n : j = g[i]
    BY <2>1, <1>7, Zenon
  <2>3. q[g[i]] = r[i]
    BY <1>6, Zenon
  <2>4. i \in Moves(r, key)
    BY <2>1, <2>2, <2>3, <1>1, Zenon DEF Moves
  <2>5. QED
    BY <2>2, <2>4
<1>10. ASSUME NEW i \in 1 .. m + n, NEW j \in 1 .. m + n
       PROVE  (i <= j <=> g[i] <= g[j]) /\ (i < j <=> g[i] < g[j])
  <2>1. /\ g[i] = IF i <= m THEN i ELSE i + 1
        /\ g[j] = IF j <= m THEN j ELSE j + 1
    BY <1>5
  <2> DEFINE x1 == g[i]
             y1 == g[j]
  <2>2. x1 = (IF i <= m THEN i ELSE i + 1) /\ y1 = (IF j <= m THEN j ELSE j + 1)
    BY <2>1
  <2> HIDE DEF x1, y1
  <2>3. i \in Int /\ j \in Int
    OBVIOUS
  <2>4. (i <= j <=> x1 <= y1) /\ (i < j <=> x1 < y1)
    BY <1>1, <2>2, <2>3
  <2>5. QED
    BY <2>4, Zenon DEF x1, y1
<1>11. \A i, j \in Moves(r, key) : (i <= j <=> g[i] <= g[j]) /\ (i < j <=> g[i] < g[j])
  <2>1. Moves(r, key) \subseteq 1 .. m + n
    BY <1>1, Zenon DEF Moves
  <2>2. QED
    BY <2>1, <1>10, Zenon
<1>12. Alternates(q, key, known, hold)
  BY DEF q
<1>13. Alternates(r, key, known, hold)
  <2>1. SameOrder(q, r, g, key)
    BY <1>8, <1>9, <1>11, Zenon DEF SameOrder
  <2>2. QED
    BY <1>12, <2>1, Corresponds, Zenon
<1>14. QED
  BY <1>13 DEF r

\* The user moves a key the other way: one move more.
LEMMA MoveAdded ==
    ASSUME NEW a \in Seq(Item), NEW x \in Transition, NEW key, NEW known,
           NEW hold, NEW holds, Alternates(a, key, known, hold),
           x.key # key => (key \in holds <=> key \in hold),
           x.key = key => (x.down <=> key \notin hold) /\ (x.down <=> key \in holds)
    PROVE  Alternates(a \o <<x>>, key, known, holds)
<1> DEFINE q == a \o <<x>>
           m == Len(a)
           n == m + 1
<1>1. x \in Item /\ <<x>> \in Seq(Item) /\ Len(<<x>>) = 1 /\ <<x>>[1] = x
  BY NothingElse
<1>2. /\ m \in Nat /\ DOMAIN a = 1 .. m /\ DOMAIN q = 1 .. n
      /\ \A i \in 1 .. m : q[i] = a[i]
      /\ q[n] = x
  <2>1. 1 \in 1 .. Len(<<x>>)
    BY <1>1
  <2>2. QED
    BY <2>1, <1>1, WayParts
<1>3. n \in 1 .. n /\ n \notin 1 .. m /\ \A i \in 1 .. n : i \in 1 .. m \/ i = n
  BY <1>2
<1>4. \A i \in 1 .. m : i \in 1 .. n /\ i <= n /\ i < n /\ ~(n <= i)
  BY <1>2
<1>5. n <= n /\ ~(n < n)
  BY <1>2
<1> HIDE DEF q, m, n
<1>6. \A i \in Moves(a, key) : i \in 1 .. m /\ q[i] = a[i]
  BY <1>2, Zenon DEF Moves
<1>7. CASE x.key # key
  <2>1. Moves(q, key) = Moves(a, key)
    BY <1>2, <1>3, <1>4, <1>7, Zenon DEF Moves
  <2>2. Alternates(q, key, known, holds)
    BY <2>1, <1>6, <1>7, SameMoves, Zenon
  <2>3. QED
    BY <2>2 DEF q
<1>8. CASE x.key = key
  <2> DEFINE old == Moves(a, key)
             new == Moves(q, key)
  <2>1. new = old \cup {n}
    BY <1>2, <1>3, <1>4, <1>8, Zenon DEF Moves
  <2>2. /\ old = {} => (key \in known <=> key \in hold)
        /\ \A i \in old : (\A j \in old : i <= j) => (a[i].down <=> key \notin known)
        /\ \A i \in old : (\A j \in old : j <= i) => (a[i].down <=> key \in hold)
        /\ \A i, j \in old : i < j /\ (\A k \in old : k <= i \/ j <= k) =>
              (a[i].down <=> ~a[j].down)
    BY Zenon DEF Alternates
  <2>3. \A i \in old : q[i] = a[i] /\ i <= n /\ i < n /\ ~(n <= i)
    BY <1>4, <1>6, Zenon
  <2> HIDE DEF old, new
  <2>4. new # {}
    BY <2>1
  <2>5. ASSUME NEW i \in new, \A j \in new : i <= j
        PROVE  q[i].down <=> key \notin known
    <3>1. CASE i = n
      <4>1. old = {}
        BY <2>1, <2>3, <2>5, <3>1, Zenon
      <4>2. QED
        BY <4>1, <1>2, <1>8, <2>2, <3>1, Zenon
    <3>2. CASE i \in old
      BY <2>1, <2>2, <2>3, <2>5, <3>2, Zenon
    <3>3. QED
      BY <2>1, <3>1, <3>2, Zenon
  <2>6. ASSUME NEW i \in new, \A j \in new : j <= i
        PROVE  q[i].down <=> key \in holds
    <3>1. i = n
      BY <2>1, <2>3, <2>6, Zenon
    <3>2. QED
      BY <3>1, <1>2, <1>8, Zenon
  <2>7. ASSUME NEW i \in new, NEW j \in new, i < j, \A k \in new : k <= i \/ j <= k
        PROVE  q[i].down <=> ~q[j].down
    <3>1. i # n
      <4>1. SUFFICES ASSUME i = n PROVE FALSE
        OBVIOUS
      <4>2. \A k \in old : ~(n < k)
        <5>1. ASSUME NEW k \in old
              PROVE  ~(n < k)
          <6>1. k \in 1 .. m
            BY <1>6, Zenon DEF old
          <6>2. QED
            BY <6>1, <1>2 DEF n
        <5>2. QED
          BY <5>1
      <4>3. QED
        BY <4>1, <4>2, <1>5, <2>1, <2>7, Zenon
    <3>2. i \in old
      BY <3>1, <2>1, Zenon
    <3>3. CASE j = n
      <4>1. \A k \in old : k <= i
        BY <2>1, <2>3, <2>7, <3>3, Zenon
      <4>2. a[i].down <=> key \in hold
        BY <4>1, <3>2, <2>2, Zenon
      <4>3. QED
        BY <4>2, <3>2, <3>3, <1>2, <1>8, <2>3, Zenon
    <3>4. CASE j \in old
      <4>1. a[i].down <=> ~a[j].down
        BY <2>1, <2>2, <2>7, <3>2, <3>4, Zenon
      <4>2. QED
        BY <4>1, <2>3, <3>2, <3>4, Zenon
    <3>5. QED
      BY <2>1, <3>3, <3>4, Zenon
  <2>8. Alternates(q, key, known, holds)
    BY <2>4, <2>5, <2>6, <2>7, Zenon DEF Alternates, new
  <2>9. QED
    BY <2>8 DEF q
<1>9. QED
  BY <1>7, <1>8

\* The EPS is told of the first move.
LEMMA MoveArrives ==
    ASSUME NEW r \in Seq(Item), NEW e \in Transition, NEW key, NEW known,
           NEW knows, NEW hold, Alternates(<<e>> \o r, key, known, hold),
           e.key # key => (key \in knows <=> key \in known),
           e.key = key => (e.down <=> key \in knows)
    PROVE  Alternates(r, key, knows, hold)
<1> DEFINE q == <<e>> \o r
           m == Len(r)
           g == [i \in 1 .. m |-> i + 1]
<1>1. e \in Item /\ <<e>> \in Seq(Item) /\ Len(<<e>>) = 1 /\ <<e>>[1] = e
  BY NothingElse
<1>2. /\ m \in Nat /\ DOMAIN r = 1 .. m /\ DOMAIN q = 1 .. 1 + m
      /\ q[1] = e
      /\ \A i \in 1 .. m : q[1 + i] = r[i]
  <2>1. 1 \in 1 .. Len(<<e>>)
    BY <1>1
  <2>2. QED
    BY <2>1, <1>1, WayParts
<1>3. \A i \in 1 .. m : /\ g[i] = i + 1 /\ g[i] \in 1 .. 1 + m /\ g[i] # 1
                        /\ 1 <= g[i] /\ 1 < g[i] /\ ~(g[i] <= 1)
                        /\ g[i] = 1 + i
  BY <1>2
<1>4. \A j \in 1 .. 1 + m : j = 1 \/ \E i \in 1 .. m : j = g[i]
  <2> SUFFICES ASSUME NEW j \in 1 .. 1 + m, j # 1
               PROVE  \E i \in 1 .. m : j = g[i]
    OBVIOUS
  <2>1. j - 1 \in 1 .. m /\ g[j - 1] = j
    BY <1>2
  <2>2. QED
    BY <2>1
<1>5. \A i, j \in 1 .. m : (i <= j <=> g[i] <= g[j]) /\ (i < j <=> g[i] < g[j])
  BY <1>2
<1>6. 1 \in 1 .. 1 + m /\ 1 <= 1
  BY <1>2
<1> HIDE DEF q, m, g
<1>7. \A i \in 1 .. m : q[g[i]] = r[i]
  BY <1>2, <1>3
<1> DEFINE old == Moves(q, key)
           new == Moves(r, key)
<1>8. new \subseteq 1 .. m
  BY <1>2, Zenon DEF Moves
<1>9. \A i \in new : g[i] \in old /\ q[g[i]] = r[i] /\ g[i] # 1
  BY <1>2, <1>3, <1>7, Zenon DEF Moves
<1>10. \A j \in old : j = 1 \/ \E i \in new : j = g[i]
  <2> SUFFICES ASSUME NEW j \in old, j # 1
               PROVE  \E i \in new : j = g[i]
    OBVIOUS
  <2>1. j \in 1 .. 1 + m /\ q[j] \in Transition /\ q[j].key = key
    BY <1>2, Zenon DEF Moves
  <2>2. PICK i \in 1 .. m : j = g[i]
    BY <2>1, <1>4, Zenon
  <2>3. i \in new
    BY <2>1, <2>2, <1>2, <1>7, Zenon DEF Moves
  <2>4. QED
    BY <2>2, <2>3
<1>11. 1 \in old <=> e.key = key
  BY <1>2, <1>6, Zenon DEF Moves
<1>12. /\ old = {} => (key \in known <=> key \in hold)
       /\ \A i \in old : (\A j \in old : i <= j) => (q[i].down <=> key \notin known)
       /\ \A i \in old : (\A j \in old : j <= i) => (q[i].down <=> key \in hold)
       /\ \A i, j \in old : i < j /\ (\A k \in old : k <= i \/ j <= k) =>
             (q[i].down <=> ~q[j].down)
  BY Zenon DEF Alternates, q
<1>13. \A i, j \in new : (i <= j <=> g[i] <= g[j]) /\ (i < j <=> g[i] < g[j])
  BY <1>5, <1>8, Zenon
<1>14. \A i \in new : 1 <= g[i] /\ 1 < g[i] /\ ~(g[i] <= 1)
  BY <1>3, <1>8, Zenon
<1> HIDE DEF old, new
<1>15. CASE e.key # key
  <2>1. \A j \in old : \E i \in new : j = g[i]
    BY <1>10, <1>11, <1>15, Zenon
  <2>2. Alternates(r, key, known, hold)
    <3>1. Alternates(q, key, known, hold)
      BY DEF q
    <3>2. \A i \in Moves(r, key) : g[i] \in Moves(q, key) /\ q[g[i]] = r[i]
      BY <1>9, Zenon DEF old, new
    <3>3. \A j \in Moves(q, key) : \E i \in Moves(r, key) : j = g[i]
      BY <2>1, Zenon DEF old, new
    <3>4. \A i, j \in Moves(r, key) :
              (i <= j <=> g[i] <= g[j]) /\ (i < j <=> g[i] < g[j])
      BY <1>13, Zenon DEF new
    <3>5. QED
      <4>1. SameOrder(q, r, g, key)
        BY <3>2, <3>3, <3>4, Zenon DEF SameOrder
      <4>2. QED
        BY <3>1, <4>1, Corresponds, Zenon
  <2>3. QED
    BY <2>2, <1>15, Zenon DEF Alternates
<1>16. CASE e.key = key
  <2>1. 1 \in old /\ q[1] = e
    BY <1>2, <1>11, <1>16, Zenon
  <2>2. ASSUME new = {}
        PROVE  key \in knows <=> key \in hold
    <3>1. \A j \in old : j <= 1
      BY <1>6, <1>10, <2>2, Zenon
    <3>2. q[1].down <=> key \in hold
      BY <3>1, <2>1, <1>12, Zenon
    <3>3. QED
      BY <3>2, <2>1, <1>16, Zenon
  <2>3. ASSUME NEW i \in new, \A j \in new : i <= j
        PROVE  r[i].down <=> key \notin knows
    <3>1. ASSUME NEW k \in old
          PROVE  k <= 1 \/ g[i] <= k
      <4>1. CASE k = 1
        BY <1>6, <4>1, Zenon
      <4>2. CASE k # 1
        <5>1. PICK l \in new : k = g[l]
          BY <1>10, <4>2, Zenon
        <5>2. g[i] <= g[l]
          BY <1>13, <2>3, Zenon
        <5>3. QED
          BY <5>1, <5>2, Zenon
      <4>3. QED
        BY <4>1, <4>2
    <3>2. q[1].down <=> ~q[g[i]].down
      BY <3>1, <2>1, <1>9, <1>12, <1>14, Zenon
    <3>3. QED
      BY <3>2, <2>1, <1>9, <1>16, Zenon
  <2>4. ASSUME NEW i \in new, \A j \in new : j <= i
        PROVE  r[i].down <=> key \in hold
    <3>1. ASSUME NEW k \in old
          PROVE  k <= g[i]
      <4>1. CASE k = 1
        BY <1>14, <4>1, Zenon
      <4>2. CASE k # 1
        <5>1. PICK l \in new : k = g[l]
          BY <1>10, <4>2, Zenon
        <5>2. g[l] <= g[i]
          BY <1>13, <2>4, Zenon
        <5>3. QED
          BY <5>1, <5>2, Zenon
      <4>3. QED
        BY <4>1, <4>2
    <3>2. QED
      BY <3>1, <1>9, <1>12, Zenon
  <2>5. ASSUME NEW i \in new, NEW j \in new, i < j, \A k \in new : k <= i \/ j <= k
        PROVE  r[i].down <=> ~r[j].down
    <3>1. g[i] < g[j]
      BY <1>13, <2>5, Zenon
    <3>2. ASSUME NEW k \in old
          PROVE  k <= g[i] \/ g[j] <= k
      <4>1. CASE k = 1
        BY <1>14, <4>1, Zenon
      <4>2. CASE k # 1
        <5>1. PICK l \in new : k = g[l]
          BY <1>10, <4>2, Zenon
        <5>2. g[l] <= g[i] \/ g[j] <= g[l]
          BY <1>13, <2>5, Zenon
        <5>3. QED
          BY <5>1, <5>2, Zenon
      <4>3. QED
        BY <4>1, <4>2
    <3>3. q[g[i]].down <=> ~q[g[j]].down
      BY <3>1, <3>2, <1>9, <1>12, Zenon
    <3>4. QED
      BY <3>3, <1>9, Zenon
  <2>6. QED
    BY <2>2, <2>3, <2>4, <2>5, Zenon DEF Alternates, new
<1>17. QED
  BY <1>15, <1>16

-------------------------------------------------------------------------------
(* The steps. *)

\* What is before the panel's event, and what is on the way with it.
Reported == IF expected = Nothing \/ sawCode THEN <<>> ELSE <<expected>>
Waiting == IF pending = Nothing THEN <<>> ELSE <<pending>>

LEMMA WayIs == OnTheWay = ((Reported \o physical) \o Waiting) \o controls
  BY DEF OnTheWay, Reported, Waiting

LEMMA WayTypes ==
    ASSUME PathTypes
    PROVE  /\ Reported \in Seq(Item) /\ Waiting \in Seq(Item)
           /\ physical \in Seq(Item) /\ controls \in Seq(Item)
           /\ \A x \in Transition : x \in Item /\ x # Nothing /\ <<x>> \in Seq(Item)
           /\ Reported \o physical \in Seq(Item)
           /\ (Reported \o physical) \o Waiting \in Seq(Item)
           /\ OnTheWay \in Seq(Item)
<1>1. /\ controls \in Seq(Item) /\ physical \in Seq(Transition)
      /\ pending \in Transition \cup {Nothing}
      /\ expected \in Transition \cup {Nothing}
  BY Zenon DEF PathTypes
<1>2. \A x \in Transition : x \in Item /\ x # Nothing /\ <<x>> \in Seq(Item)
  BY NothingElse, WaysJoin, Zenon
<1>3. physical \in Seq(Item)
  BY <1>1, NothingElse, SeqMonotonic, Zenon
<1>4. Reported \in Seq(Item) /\ Waiting \in Seq(Item)
  <2>1. <<>> \in Seq(Item)
    BY WaysJoin, Zenon
  <2>2. Reported = <<>> \/ (expected \in Transition /\ Reported = <<expected>>)
    BY <1>1, Zenon DEF Reported
  <2>3. Waiting = <<>> \/ (pending \in Transition /\ Waiting = <<pending>>)
    BY <1>1, Zenon DEF Waiting
  <2>4. QED
    BY <1>2, <2>1, <2>2, <2>3, Zenon
<1>5. Reported \o physical \in Seq(Item) /\ (Reported \o physical) \o Waiting \in Seq(Item)
  BY <1>3, <1>4, WaysJoin, Zenon
<1>6. OnTheWay \in Seq(Item)
  BY <1>1, <1>5, WayIs, WaysJoin, Zenon
<1>7. QED
  BY <1>1, <1>2, <1>3, <1>4, <1>5, <1>6

\* The head of a queue and what is behind it.
\* What is reported first, before all else.
LEMMA ReportedFirst ==
    PathTypes /\ expected \in Transition =>
        ((<<expected>> \o physical) \o Waiting) \o controls =
            <<expected>> \o ((physical \o Waiting) \o controls)
<1> SUFFICES ASSUME PathTypes, expected \in Transition
             PROVE  ((<<expected>> \o physical) \o Waiting) \o controls =
                        <<expected>> \o ((physical \o Waiting) \o controls)
  OBVIOUS
<1> DEFINE report == <<expected>>
           wait == Waiting
<1>1. physical \in Seq(Item) /\ wait \in Seq(Item) /\ report \in Seq(Item)
  BY WayTypes, Zenon
<1>2. controls \in Seq(Item)
  BY Zenon DEF PathTypes
<1> HIDE DEF report, wait
<1>3. \A b, c, d \in Seq(Item) :
          ((report \o b) \o c) \o d = report \o ((b \o c) \o d)
  BY <1>1, Regrouped, Zenon
<1>4. \A c, d \in Seq(Item) :
          ((report \o physical) \o c) \o d = report \o ((physical \o c) \o d)
  BY <1>1, <1>3, Zenon
<1>5. ((report \o physical) \o wait) \o controls =
          report \o ((physical \o wait) \o controls)
  BY <1>1, <1>2, <1>4, Zenon
<1>6. QED
  BY <1>5, Zenon DEF report, wait

LEMMA Headed ==
    ASSUME NEW S, NEW a \in Seq(S), a # <<>>
    PROVE  Head(a) \in S /\ Tail(a) \in Seq(S) /\ a = <<Head(a)>> \o Tail(a)
  OBVIOUS

LEMMA EnqueueKeeps ==
    ASSUME PathInv, NEW t \in Transition, Enqueue(t),
           \A key \in Key : t.key # key => (key \in held' <=> key \in held),
           t.down <=> t.key \notin held, t.down <=> t.key \in held'
    PROVE  PathInv'
<1>1. /\ pending' = pending /\ expected' = expected /\ sawCode' = sawCode
      /\ physical' = physical /\ heard' = heard
      /\ controls' = IF CanEnqueue THEN Append(controls, t) ELSE controls
      /\ lost' = (lost \/ ~CanEnqueue)
  BY Zenon DEF Enqueue, kpcVars
<1>2. PathTypes
  BY Zenon DEF PathInv
<1>3. /\ controls \in Seq(Item) /\ physical \in Seq(Transition)
      /\ Len(physical) <= PhysicalLimit
      /\ pending \in Transition \cup {Nothing}
      /\ expected \in Transition \cup {Nothing}
      /\ sawCode \in BOOLEAN /\ lost \in BOOLEAN
  BY <1>2, Zenon DEF PathTypes
<1>4. t \in Item /\ <<t>> \in Seq(Item)
  BY <1>2, WayTypes, Zenon
<1>5. Append(controls, t) = controls \o <<t>>
  BY <1>3, <1>4, WaysJoin, Zenon
<1>6. controls' \in Seq(Item)
  <2>1. controls \o <<t>> \in Seq(Item)
    BY <1>3, <1>4, JoinIsWay, Zenon
  <2>2. QED
    BY <2>1, <1>1, <1>3, <1>5, Zenon
<1>7. lost' \in BOOLEAN
  <2>1. (lost \/ ~CanEnqueue) \in BOOLEAN
    OBVIOUS
  <2>2. QED
    BY <2>1, <1>1, Zenon
<1>8. PathTypes'
  BY <1>1, <1>3, <1>6, <1>7, Zenon DEF PathTypes
<1>9. ASSUME ~lost', NEW key \in Key
      PROVE  Alternates(OnTheWay', key, heard', held')
  <2>1. ~lost /\ controls' = controls \o <<t>>
    BY <1>1, <1>5, <1>9, Zenon
  <2>2. OnTheWay' = OnTheWay \o <<t>>
    <3> DEFINE front == (Reported \o physical) \o Waiting
    <3>1. front \in Seq(Item) /\ front' = front
      <4>1. Reported' = Reported /\ Waiting' = Waiting
        BY <1>1, Zenon DEF Reported, Waiting
      <4>2. QED
        BY <4>1, <1>1, <1>2, WayTypes, Zenon
    <3>2. OnTheWay = front \o controls /\ OnTheWay' = front' \o controls'
      BY Zenon DEF OnTheWay, Reported, Waiting
    <3> HIDE DEF front
    <3>3. (front \o controls) \o <<t>> = front \o (controls \o <<t>>)
      BY <1>3, <1>4, <3>1, JoinAssociates, Zenon
    <3>4. QED
      BY <2>1, <3>1, <3>2, <3>3, Zenon
  <2>3. Alternates(OnTheWay, key, heard, held) /\ OnTheWay \in Seq(Item)
    BY <2>1, <1>2, WayTypes, Zenon DEF PathInv
  <2>4. Alternates(OnTheWay \o <<t>>, key, heard, held')
    <3>1. t.key = key => (t.down <=> key \notin held) /\ (t.down <=> key \in held')
      BY Zenon
    <3>2. t.key # key => (key \in held' <=> key \in held)
      BY Zenon
    <3>3. \A way \in Seq(Item) : \A known, hold, holds :
             /\ Alternates(way, key, known, hold)
             /\ t.key # key => (key \in holds <=> key \in hold)
             /\ t.key = key => (t.down <=> key \notin hold) /\ (t.down <=> key \in holds)
             => Alternates(way \o <<t>>, key, known, holds)
      BY MoveAdded
    <3>4. QED
      BY <2>3, <3>1, <3>2, <3>3, Zenon
  <2>5. QED
    BY <2>2, <2>4, <1>1, Zenon
<1>10. QED
  BY <1>8, <1>9, Zenon DEF PathInv

\* A step that moves what is on its way along and loses nothing.
LEMMA SameWay ==
    ASSUME PathInv, PathTypes', ~lost' => ~lost /\ OnTheWay' = OnTheWay,
           heard' = heard, held' = held
    PROVE  PathInv'
  BY Zenon DEF PathInv

\* A packet the keypad's queue has no room for is counted as lost.
LEMMA Delivered ==
    ASSUME PathTypes, NEW t \in Transition, Deliver(t)
    PROVE  /\ physical' \in Seq(Transition) /\ Len(physical') <= PhysicalLimit
           /\ lost' \in BOOLEAN
           /\ expected' = expected /\ sawCode' = sawCode
           /\ held' = held /\ heard' = heard
           /\ ~lost' => ~lost /\ physical' = physical \o <<t>>
<1>1. /\ physical \in Seq(Transition) /\ lost \in BOOLEAN
      /\ Len(physical) <= PhysicalLimit
  BY Zenon DEF PathTypes
<1>2. /\ physical' = IF Len(physical) < PhysicalLimit THEN Append(physical, t) ELSE physical
      /\ lost' = (lost \/ Len(physical) = PhysicalLimit)
      /\ expected' = expected /\ sawCode' = sawCode /\ held' = held /\ heard' = heard
  BY Zenon DEF Deliver
<1>3. Append(physical, t) = physical \o <<t>> /\ Append(physical, t) \in Seq(Transition)
      /\ Len(Append(physical, t)) = Len(physical) + 1
  BY <1>1, AppendIsConcat, AppendProperties
<1>4. Len(physical) \in Nat /\ PhysicalLimit \in Nat
  BY <1>1, LimitsAssumption, LenProperties
<1>5. lost' \in BOOLEAN
  <2>1. (lost \/ Len(physical) = PhysicalLimit) \in BOOLEAN
    OBVIOUS
  <2>2. QED
    BY <2>1, <1>2, Zenon
<1>6. CASE Len(physical) < PhysicalLimit
  <2>1. physical' = physical \o <<t>> /\ physical' \in Seq(Transition)
    BY <1>2, <1>3, <1>6, Zenon
  <2>2. Len(physical') <= PhysicalLimit
    BY <1>2, <1>3, <1>4, <1>6
  <2>3. QED
    BY <2>1, <2>2, <1>2, <1>5, Zenon
<1>7. CASE ~(Len(physical) < PhysicalLimit)
  <2>1. Len(physical) = PhysicalLimit
    BY <1>1, <1>4, <1>7
  <2>2. QED
    BY <2>1, <1>1, <1>2, <1>5, <1>7, Zenon
<1>8. QED
  BY <1>6, <1>7

LEMMA DispatchPendingKeeps ==
    ASSUME PathInv, DispatchPending
    PROVE  PathInv'
<1>1. /\ pending # Nothing /\ pending' = Nothing /\ controls' = controls
      /\ Deliver(pending)
  BY Zenon DEF DispatchPending
<1>2. PathTypes
  BY Zenon DEF PathInv
<1>3. /\ controls \in Seq(Item) /\ pending \in Transition
      /\ expected \in Transition \cup {Nothing} /\ sawCode \in BOOLEAN
  BY <1>1, <1>2, Zenon DEF PathTypes
<1>4. /\ physical' \in Seq(Transition) /\ Len(physical') <= PhysicalLimit
      /\ lost' \in BOOLEAN
      /\ expected' = expected /\ sawCode' = sawCode
      /\ held' = held /\ heard' = heard
      /\ ~lost' => ~lost /\ physical' = physical \o <<pending>>
  BY <1>1, <1>2, <1>3, Delivered, Zenon
<1>5. PathTypes'
  BY <1>1, <1>3, <1>4, Zenon DEF PathTypes
<1>6. ASSUME ~lost'
      PROVE  OnTheWay' = OnTheWay
  <2>1. /\ Reported \in Seq(Item) /\ physical \in Seq(Item) /\ <<pending>> \in Seq(Item)
        /\ Reported \o physical \in Seq(Item)
    BY <1>2, <1>3, WayTypes, Zenon
  <2>2. Waiting = <<pending>> /\ Waiting' = <<>> /\ Reported' = Reported
    BY <1>1, <1>4, Zenon DEF Waiting, Reported
  <2>3. physical' = physical \o <<pending>>
    BY <1>4, <1>6, Zenon
  <2>4. Reported \o (physical \o <<pending>>) = (Reported \o physical) \o <<pending>>
    <3>1. \A x \in Seq(Item) : (Reported \o physical) \o x = Reported \o (physical \o x)
      BY <2>1, JoinAssociates, Zenon
    <3>2. QED
      BY <2>1, <3>1, Zenon
  <2>8. (Reported \o physical) \o <<pending>> \in Seq(Item)
    BY <2>1, JoinIsWay, Zenon
  <2>5. ((Reported \o physical) \o <<pending>>) \o <<>> = (Reported \o physical) \o <<pending>>
    BY <2>8, JoinNothing, Zenon
  <2>6. /\ OnTheWay = ((Reported \o physical) \o Waiting) \o controls
        /\ OnTheWay' = ((Reported' \o physical') \o Waiting') \o controls'
    BY Zenon DEF OnTheWay, Reported, Waiting
  <2>7. QED
    BY <1>1, <2>2, <2>3, <2>4, <2>5, <2>6, Zenon
<1>7. ~lost' => ~lost
  BY <1>4, Zenon
<1>8. QED
  BY <1>4, <1>5, <1>6, <1>7, SameWay, Zenon

\* The first of the queue, with nothing held before it.
LEMMA FirstControl ==
    ASSUME PathTypes, pending = Nothing, controls # <<>>
    PROVE  /\ Head(controls) \in Item /\ Tail(controls) \in Seq(Item)
           /\ <<Head(controls)>> \in Seq(Item)
           /\ Reported \o physical \in Seq(Item)
           /\ OnTheWay = ((Reported \o physical) \o <<Head(controls)>>) \o Tail(controls)
<1>1. controls \in Seq(Item)
  BY Zenon DEF PathTypes
<1>2. /\ Head(controls) \in Item /\ Tail(controls) \in Seq(Item)
      /\ controls = <<Head(controls)>> \o Tail(controls)
  BY <1>1, Headed
<1>3. <<Head(controls)>> \in Seq(Item)
  BY <1>2, WaysJoin, Zenon
<1>4. Reported \o physical \in Seq(Item) /\ Waiting = <<>>
  BY WayTypes, Zenon DEF Waiting
<1> DEFINE a == Reported \o physical
           h == Head(controls)
           t == Tail(controls)
<1>5. OnTheWay = (a \o Waiting) \o controls
  BY WayIs, Zenon
<1> HIDE DEF a, h, t
<1>6. a \o <<>> = a
  BY <1>4, WaysJoin, Zenon DEF a
<1>7. a \o (<<h>> \o t) = (a \o <<h>>) \o t
  <2>1. a \in Seq(Item) /\ <<h>> \in Seq(Item) /\ t \in Seq(Item)
    BY <1>2, <1>3, <1>4, Zenon DEF a, h, t
  <2>2. QED
    BY <2>1, JoinAssociates, Zenon
<1>8. OnTheWay = (a \o <<h>>) \o t
  <2>1. controls = <<h>> \o t
    BY <1>2, Zenon DEF h, t
  <2>2. QED
    BY <2>1, <1>4, <1>5, <1>6, <1>7, Zenon
<1>9. QED
  BY <1>2, <1>3, <1>4, <1>8, Zenon DEF a, h, t

LEMMA DispatchPanelKeeps ==
    ASSUME PathInv, DispatchPanel
    PROVE  PathInv'
<1> DEFINE h == Head(controls)
           t == Tail(controls)
<1>1. /\ pending = Nothing /\ pending' = pending /\ controls # <<>>
      /\ controls' = t /\ h \in Transition /\ Deliver(h)
  BY Zenon DEF DispatchPanel
<1>2. PathTypes
  BY Zenon DEF PathInv
<1>3. expected \in Transition \cup {Nothing} /\ sawCode \in BOOLEAN
  BY <1>2, Zenon DEF PathTypes
<1>4. /\ physical' \in Seq(Transition) /\ Len(physical') <= PhysicalLimit
      /\ lost' \in BOOLEAN
      /\ expected' = expected /\ sawCode' = sawCode
      /\ held' = held /\ heard' = heard
      /\ ~lost' => ~lost /\ physical' = physical \o <<h>>
  <2> HIDE DEF h
  <2>1. QED
    BY <1>1, <1>2, Delivered, Zenon
<1>5. /\ t \in Seq(Item) /\ <<h>> \in Seq(Item)
      /\ Reported \o physical \in Seq(Item)
      /\ OnTheWay = ((Reported \o physical) \o <<h>>) \o t
  BY <1>1, <1>2, FirstControl, Zenon
<1> HIDE DEF h, t
<1>6. PathTypes'
  BY <1>1, <1>3, <1>4, <1>5, Zenon DEF PathTypes
<1>7. ASSUME ~lost'
      PROVE  OnTheWay' = OnTheWay
  <2>1. Reported \in Seq(Item) /\ physical \in Seq(Item)
    BY <1>2, WayTypes, Zenon
  <2>2. Waiting' = <<>> /\ Reported' = Reported
    BY <1>1, <1>4, Zenon DEF Waiting, Reported
  <2>3. physical' = physical \o <<h>>
    BY <1>4, <1>7, Zenon
  <2>4. Reported \o (physical \o <<h>>) = (Reported \o physical) \o <<h>>
    BY <2>1, <1>5, JoinAssociates, Zenon
  <2>8. (Reported \o physical) \o <<h>> \in Seq(Item)
    BY <1>5, JoinIsWay, Zenon
  <2>5. ((Reported \o physical) \o <<h>>) \o <<>> = (Reported \o physical) \o <<h>>
    BY <2>8, JoinNothing, Zenon
  <2>6. OnTheWay' = ((Reported' \o physical') \o Waiting') \o controls'
    BY Zenon DEF OnTheWay, Reported, Waiting
  <2>7. QED
    BY <1>1, <1>5, <2>2, <2>3, <2>4, <2>5, <2>6, Zenon
<1>8. ~lost' => ~lost
  BY <1>4, Zenon
<1>9. QED
  BY <1>4, <1>6, <1>7, <1>8, SameWay, Zenon

LEMMA HoldPanelKeeps ==
    ASSUME PathInv, HoldPanel
    PROVE  PathInv'
<1> DEFINE h == Head(controls)
           t == Tail(controls)
<1>1. /\ pending = Nothing /\ controls # <<>> /\ h \in Transition
      /\ controls' = t /\ pending' = h
      /\ physical' = physical /\ expected' = expected /\ sawCode' = sawCode
      /\ held' = held /\ heard' = heard /\ lost' = lost
  BY Zenon DEF HoldPanel, kpcVars
<1>2. PathTypes
  BY Zenon DEF PathInv
<1>3. /\ expected \in Transition \cup {Nothing} /\ sawCode \in BOOLEAN
      /\ physical \in Seq(Transition) /\ Len(physical) <= PhysicalLimit
      /\ lost \in BOOLEAN
  BY <1>2, Zenon DEF PathTypes
<1>4. /\ t \in Seq(Item)
      /\ OnTheWay = ((Reported \o physical) \o <<h>>) \o t
  BY <1>1, <1>2, FirstControl, Zenon
<1> HIDE DEF h, t
<1>5. PathTypes'
  BY <1>1, <1>3, <1>4, Zenon DEF PathTypes
<1>6. h # Nothing
  BY <1>1, NothingElse, Zenon
<1>7. OnTheWay' = OnTheWay
  <2>1. Reported' = Reported /\ Waiting' = <<h>>
    BY <1>1, <1>6, Zenon DEF Reported, Waiting
  <2>2. OnTheWay' = ((Reported' \o physical') \o Waiting') \o controls'
    BY Zenon DEF OnTheWay, Reported, Waiting
  <2>3. QED
    BY <2>1, <2>2, <1>1, <1>4, Zenon
<1>8. QED
  BY <1>1, <1>5, <1>7, SameWay, Zenon

LEMMA DispatchImmediateKeeps ==
    ASSUME PathInv, DispatchImmediate
    PROVE  PathInv'
<1> DEFINE h == Head(controls)
           t == Tail(controls)
           a == Reported \o physical
<1>1. /\ pending = Nothing /\ pending' = pending /\ controls # <<>> /\ h \in Immediate
      /\ controls' = t
      /\ physical' = physical /\ expected' = expected /\ sawCode' = sawCode
      /\ held' = held /\ heard' = heard /\ lost' = lost
  BY Zenon DEF DispatchImmediate, kpcVars
<1>2. PathTypes
  BY Zenon DEF PathInv
<1>3. /\ pending \in Transition \cup {Nothing}
      /\ expected \in Transition \cup {Nothing} /\ sawCode \in BOOLEAN
      /\ physical \in Seq(Transition) /\ Len(physical) <= PhysicalLimit
      /\ lost \in BOOLEAN
  BY <1>2, Zenon DEF PathTypes
<1>4. /\ t \in Seq(Item) /\ h \in Item /\ a \in Seq(Item)
      /\ OnTheWay = (a \o <<h>>) \o t
  BY <1>1, <1>2, FirstControl, Zenon
<1>5. OnTheWay' = a \o t
  <2>1. Reported' = Reported /\ Waiting' = <<>>
    BY <1>1, Zenon DEF Reported, Waiting
  <2>2. OnTheWay' = ((Reported' \o physical') \o Waiting') \o controls'
    BY Zenon DEF OnTheWay, Reported, Waiting
  <2>3. a \o <<>> = a
    BY <1>4, WaysJoin, Zenon
  <2>4. QED
    BY <2>1, <2>2, <2>3, <1>1, Zenon
<1> HIDE DEF h, t, a
<1>6. PathTypes'
  BY <1>1, <1>3, <1>4, Zenon DEF PathTypes
<1>7. h \notin Transition
  BY <1>1, NothingElse, Zenon
<1>8. ASSUME ~lost', NEW key \in Key
      PROVE  Alternates(OnTheWay', key, heard', held')
  <2>1. Alternates((a \o <<h>>) \o t, key, heard, held)
    BY <1>1, <1>4, <1>8, Zenon DEF PathInv
  <2>2. Alternates(a \o t, key, heard, held)
    BY <2>1, <1>4, <1>7, OtherGoes, Zenon
  <2>3. QED
    BY <2>2, <1>1, <1>5, Zenon
<1>9. QED
  BY <1>6, <1>8, Zenon DEF PathInv

LEMMA StartingKeeps ==
    ASSUME PathInv, StartPhysical
    PROVE  PathInv'
<1> DEFINE h == Head(physical)
           t == Tail(physical)
<1>1. /\ expected = Nothing /\ physical # <<>> /\ expected' = h /\ physical' = t
      /\ sawCode' = FALSE /\ pending' = pending /\ controls' = controls
      /\ held' = held /\ heard' = heard /\ lost' = lost
  BY Zenon DEF StartPhysical, CanStart, bridgeVars
<1>2. PathTypes
  BY Zenon DEF PathInv
<1>3. /\ controls \in Seq(Item) /\ pending \in Transition \cup {Nothing}
      /\ physical \in Seq(Transition) /\ Len(physical) <= PhysicalLimit
      /\ lost \in BOOLEAN
  BY <1>2, Zenon DEF PathTypes
<1>4. h \in Transition /\ t \in Seq(Transition) /\ physical = <<h>> \o t
  BY <1>1, <1>3, Headed, Zenon
<1>5. Len(t) <= PhysicalLimit
  <2>1. Len(t) = Len(physical) - 1 /\ Len(physical) \in Nat /\ PhysicalLimit \in Nat
    BY <1>1, <1>3, HeadTailProperties, LenProperties, LimitsAssumption
  <2>2. QED
    BY <2>1, <1>3
<1> HIDE DEF h, t
<1>6. PathTypes'
  BY <1>1, <1>3, <1>4, <1>5, Zenon DEF PathTypes
<1>7. h # Nothing
  BY <1>4, NothingElse, Zenon
<1>8. OnTheWay' = OnTheWay
  <2>1. Reported = <<>> /\ Reported' = <<h>> /\ Waiting' = Waiting
    BY <1>1, <1>7, Zenon DEF Reported, Waiting
  <2>2. /\ OnTheWay = ((Reported \o physical) \o Waiting) \o controls
        /\ OnTheWay' = ((Reported' \o physical') \o Waiting') \o controls'
    BY Zenon DEF OnTheWay, Reported, Waiting
  <2>3. physical \in Seq(Item)
    BY <1>2, WayTypes, Zenon
  <2>4. <<>> \o physical = physical
    BY <2>3, JoinNothing, Zenon
  <2>5. QED
    BY <2>1, <2>2, <2>4, <1>1, <1>4, Zenon
<1>9. QED
  BY <1>1, <1>6, <1>8, SameWay, Zenon

LEMMA ReportCodeKeeps ==
    ASSUME PathInv, ReportCode
    PROVE  PathInv'
<1> DEFINE rest == (physical \o Waiting) \o controls
<1>1. /\ expected # Nothing /\ ~sawCode /\ sawCode' = TRUE
      /\ heard' = IF expected.down THEN heard \cup {expected.key}
                  ELSE heard \ {expected.key}
      /\ held' = held /\ pending' = pending /\ controls' = controls
      /\ physical' = physical /\ expected' = expected /\ lost' = lost
  BY Zenon DEF ReportCode, bridgeVars
<1>2. PathTypes
  BY Zenon DEF PathInv
<1>3. /\ controls \in Seq(Item) /\ pending \in Transition \cup {Nothing}
      /\ physical \in Seq(Transition) /\ Len(physical) <= PhysicalLimit
      /\ lost \in BOOLEAN /\ expected \in Transition
  BY <1>1, <1>2, Zenon DEF PathTypes
<1>4. PathTypes'
  BY <1>1, <1>3, Zenon DEF PathTypes
<1>5. /\ physical \in Seq(Item) /\ Waiting \in Seq(Item) /\ <<expected>> \in Seq(Item)
      /\ physical \o Waiting \in Seq(Item) /\ rest \in Seq(Item)
  <2>1. /\ physical \in Seq(Item) /\ Waiting \in Seq(Item) /\ <<expected>> \in Seq(Item)
    BY <1>2, <1>3, WayTypes, Zenon
  <2>2. physical \o Waiting \in Seq(Item)
    BY <2>1, JoinIsWay, Zenon
  <2>3. QED
    BY <2>1, <2>2, <1>3, JoinIsWay, Zenon
<1>6. OnTheWay = <<expected>> \o rest /\ OnTheWay' = rest
  <2>1. Reported = <<expected>> /\ Reported' = <<>> /\ Waiting' = Waiting
    BY <1>1, Zenon DEF Reported, Waiting
  <2>2. /\ OnTheWay = ((Reported \o physical) \o Waiting) \o controls
        /\ OnTheWay' = ((Reported' \o physical') \o Waiting') \o controls'
    BY Zenon DEF OnTheWay, Reported, Waiting
  <2>3. <<>> \o physical = physical
    BY <1>5, JoinNothing, Zenon
  <2>4. ((<<expected>> \o physical) \o Waiting) \o controls = <<expected>> \o rest
    BY <1>2, <1>3, ReportedFirst, Zenon
  <2>5. QED
    BY <2>1, <2>2, <2>3, <2>4, <1>1, Zenon
<1>7. ASSUME ~lost', NEW key \in Key
      PROVE  Alternates(OnTheWay', key, heard', held')
  <2>1. Alternates(OnTheWay, key, heard, held)
    BY <1>1, <1>7, Zenon DEF PathInv
  <2> HIDE DEF rest
  <2>2. Alternates(<<expected>> \o rest, key, heard, held)
    BY <2>1, <1>6, Zenon
  <2>3. expected.down \in BOOLEAN
    BY <1>3 DEF Transition
  <2>4. expected.key # key => (key \in heard' <=> key \in heard)
    BY <1>1, Zenon
  <2>5. expected.key = key => (expected.down <=> key \in heard')
    BY <1>1, Zenon
  <2>6. \A knows : /\ expected.key # key => (key \in knows <=> key \in heard)
                   /\ expected.key = key => (expected.down <=> key \in knows)
                   => Alternates(rest, key, knows, held)
    BY <2>2, <1>3, <1>5, MoveArrives
  <2>7. Alternates(rest, key, heard', held)
    BY <2>4, <2>5, <2>6, Zenon
  <2>8. QED
    BY <2>7, <1>1, <1>6, Zenon
<1>8. QED
  BY <1>4, <1>7, Zenon DEF PathInv

LEMMA PrepareKeeps ==
    ASSUME PathInv, Prepare
    PROVE  PathInv'
<1> DEFINE a == Reported \o physical
<1>1. /\ lost' = (lost \/ pending # Nothing
                       \/ \E i \in DOMAIN controls : controls[i] \in Transition)
      /\ controls' = <<>> /\ pending' = Nothing
      /\ held' = held /\ heard' = heard
      /\ physical' = physical /\ expected' = expected /\ sawCode' = sawCode
  BY Zenon DEF Prepare, kpcVars
<1>2. PathTypes
  BY Zenon DEF PathInv
<1>3. /\ controls \in Seq(Item)
      /\ expected \in Transition \cup {Nothing} /\ sawCode \in BOOLEAN
      /\ physical \in Seq(Transition) /\ Len(physical) <= PhysicalLimit
      /\ lost \in BOOLEAN
  BY <1>2, Zenon DEF PathTypes
<1>4. lost' \in BOOLEAN
  <2>1. (lost \/ pending # Nothing
              \/ \E i \in DOMAIN controls : controls[i] \in Transition) \in BOOLEAN
    OBVIOUS
  <2>2. QED
    BY <2>1, <1>1, Zenon
<1>5. <<>> \in Seq(Item)
  BY WaysJoin, Zenon
<1>6. PathTypes'
  BY <1>1, <1>3, <1>4, <1>5, Zenon DEF PathTypes
<1>7. a \in Seq(Item)
  BY <1>2, WayTypes, Zenon
<1>8. ASSUME ~lost', NEW key \in Key
      PROVE  Alternates(OnTheWay', key, heard', held')
  <2>1. ~lost /\ pending = Nothing /\ \A i \in DOMAIN controls : controls[i] \notin Transition
    BY <1>1, <1>8, Zenon
  <2>2. Waiting = <<>> /\ Waiting' = <<>> /\ Reported' = Reported
    BY <1>1, <2>1, Zenon DEF Reported, Waiting
  <2>3. /\ OnTheWay = ((Reported \o physical) \o Waiting) \o controls
        /\ OnTheWay' = ((Reported' \o physical') \o Waiting') \o controls'
    BY Zenon DEF OnTheWay, Reported, Waiting
  <2>4. a \o <<>> = a
    BY <1>7, JoinNothing, Zenon
  <2>5. OnTheWay = a \o controls /\ OnTheWay' = a
    BY <2>2, <2>3, <2>4, <1>1, Zenon
  <2>6. Alternates(OnTheWay, key, heard, held)
    BY <2>1, Zenon DEF PathInv
  <2> HIDE DEF a
  <2>7. Alternates(a \o controls, key, heard, held)
    BY <2>5, <2>6, Zenon
  <2>8. Alternates(a, key, heard, held)
    BY <2>1, <2>7, <1>3, <1>7, OthersDoNotMatter, Zenon
  <2>9. QED
    BY <2>5, <2>8, <1>1, Zenon
<1>9. QED
  BY <1>6, <1>8, Zenon DEF PathInv

LEMMA MoveControlKeeps ==
    ASSUME PathInv, MoveControl
    PROVE  PathInv'
<1> DEFINE x == [analog |-> TRUE]
           front == (Reported \o physical) \o Waiting
<1>1. /\ controls' = Append(controls, x)
      /\ held' = held /\ heard' = heard /\ lost' = lost /\ pending' = pending
      /\ physical' = physical /\ expected' = expected /\ sawCode' = sawCode
  BY Zenon DEF MoveControl, kpcVars
<1>2. PathTypes
  BY Zenon DEF PathInv
<1>3. /\ controls \in Seq(Item) /\ pending \in Transition \cup {Nothing}
      /\ expected \in Transition \cup {Nothing} /\ sawCode \in BOOLEAN
      /\ physical \in Seq(Transition) /\ Len(physical) <= PhysicalLimit
      /\ lost \in BOOLEAN
  BY <1>2, Zenon DEF PathTypes
<1>4. x \in Immediate
  BY DEF Immediate
<1>5. front \in Seq(Item) /\ front' = front
  <2>1. Reported' = Reported /\ Waiting' = Waiting
    BY <1>1, Zenon DEF Reported, Waiting
  <2>2. QED
    BY <2>1, <1>1, <1>2, WayTypes, Zenon
<1>6. OnTheWay = front \o controls /\ OnTheWay' = front' \o controls'
  BY Zenon DEF OnTheWay, Reported, Waiting
<1> HIDE DEF x, front
<1>7. x \in Item /\ x \notin Transition
  BY <1>4, NothingElse, Zenon DEF Item
<1>8. <<x>> \in Seq(Item) /\ \A i \in DOMAIN <<x>> : <<x>>[i] \notin Transition
  BY <1>7
<1>9. controls' = controls \o <<x>>
  BY <1>1, <1>3, <1>7, AppendIsConcat
<1>10. controls' \in Seq(Item)
  BY <1>3, <1>8, <1>9, JoinIsWay, Zenon
<1>11. PathTypes'
  BY <1>1, <1>3, <1>10, Zenon DEF PathTypes
<1>12. OnTheWay' = OnTheWay \o <<x>> /\ OnTheWay \in Seq(Item)
  <2>1. (front \o controls) \o <<x>> = front \o (controls \o <<x>>)
    BY <1>3, <1>5, <1>8, JoinAssociates, Zenon
  <2>2. front \o controls \in Seq(Item)
    BY <1>3, <1>5, JoinIsWay, Zenon
  <2>3. QED
    BY <2>1, <2>2, <1>5, <1>6, <1>9, Zenon
<1>13. ASSUME ~lost', NEW key \in Key
       PROVE  Alternates(OnTheWay', key, heard', held')
  <2>1. Alternates(OnTheWay, key, heard, held)
    BY <1>1, <1>13, Zenon DEF PathInv
  <2>2. Alternates(OnTheWay \o <<x>>, key, heard, held)
    BY <2>1, <1>8, <1>12, OthersDoNotMatter, Zenon
  <2>3. QED
    BY <2>2, <1>1, <1>12, Zenon
<1>14. QED
  BY <1>11, <1>13, Zenon DEF PathInv

LEMMA PathInvStep == PathInv /\ [Next]_vars => PathInv'
<1> SUFFICES ASSUME PathInv, [Next]_vars
             PROVE  PathInv'
  OBVIOUS
<1>1. ASSUME NEW key \in Key, Press(key)
      PROVE  PathInv'
  <2> DEFINE t == [key |-> key, down |-> TRUE]
  <2>1. key \notin held /\ held' = held \cup {key} /\ Enqueue(t)
    BY <1>1, Zenon DEF Press
  <2>2. t \in Transition /\ t.key = key /\ t.down = TRUE
    BY DEF Transition
  <2> HIDE DEF t
  <2>3. \A k \in Key : t.key # k => (k \in held' <=> k \in held)
    BY <2>1, <2>2, Zenon
  <2>4. (t.down <=> t.key \notin held) /\ (t.down <=> t.key \in held')
    BY <2>1, <2>2, Zenon
  <2>5. QED
    BY <2>1, <2>2, <2>3, <2>4, EnqueueKeeps, Zenon
<1>2. ASSUME NEW key \in Key, Release(key)
      PROVE  PathInv'
  <2> DEFINE t == [key |-> key, down |-> FALSE]
  <2>1. key \in held /\ held' = held \ {key} /\ Enqueue(t)
    BY <1>2, Zenon DEF Release
  <2>2. t \in Transition /\ t.key = key /\ t.down = FALSE
    BY DEF Transition
  <2> HIDE DEF t
  <2>3. \A k \in Key : t.key # k => (k \in held' <=> k \in held)
    BY <2>1, <2>2, Zenon
  <2>4. (t.down <=> t.key \notin held) /\ (t.down <=> t.key \in held')
    BY <2>1, <2>2, Zenon
  <2>5. QED
    BY <2>1, <2>2, <2>3, <2>4, EnqueueKeeps, Zenon
<1>3. CASE MoveControl
  BY <1>3, MoveControlKeeps
<1>4. CASE DispatchPending
  BY <1>4, DispatchPendingKeeps
<1>5. CASE DispatchPanel
  BY <1>5, DispatchPanelKeeps
<1>6. CASE HoldPanel
  BY <1>6, HoldPanelKeeps
<1>7. CASE DispatchImmediate
  BY <1>7, DispatchImmediateKeeps
<1>8. CASE Tick
  BY <1>8, Zenon DEF Tick, PathInv, PathTypes, OnTheWay
<1>9. CASE StartPhysical
  BY <1>9, StartingKeeps
<1>10. CASE ReportCode
  BY <1>10, ReportCodeKeeps
<1>11. CASE ReportEnd
  <2>1. /\ expected # Nothing /\ sawCode /\ expected' = Nothing /\ sawCode' = FALSE
        /\ held' = held /\ heard' = heard /\ lost' = lost /\ pending' = pending
        /\ controls' = controls /\ physical' = physical
    BY <1>11, Zenon DEF ReportEnd, bridgeVars
  <2>2. Reported = <<>> /\ Reported' = <<>> /\ Waiting' = Waiting
    BY <2>1, Zenon DEF Reported, Waiting
  <2>3. /\ OnTheWay = ((Reported \o physical) \o Waiting) \o controls
        /\ OnTheWay' = ((Reported' \o physical') \o Waiting') \o controls'
    BY Zenon DEF OnTheWay, Reported, Waiting
  <2>4. OnTheWay' = OnTheWay
    BY <2>1, <2>2, <2>3, Zenon
  <2>5. PathTypes'
    BY <2>1, Zenon DEF PathInv, PathTypes
  <2>6. QED
    BY <2>1, <2>4, <2>5, SameWay, Zenon
<1>12. CASE Prepare
  BY <1>12, PrepareKeeps
<1>13. CASE UNCHANGED vars
  BY <1>13, Zenon DEF vars, bridgeVars, kpcVars, PathInv, PathTypes, OnTheWay
<1>14. QED
  BY <1>1, <1>2, <1>3, <1>4, <1>5, <1>6, <1>7, <1>8, <1>9, <1>10, <1>11, <1>12, <1>13,
     Zenon DEF Next, Dispatch

LEMMA PathInvInit == Init => PathInv
<1> SUFFICES ASSUME Init
             PROVE  PathInv
  OBVIOUS
<1>1. /\ held = {} /\ heard = {} /\ controls = <<>> /\ physical = <<>>
      /\ pending = Nothing /\ expected = Nothing /\ sawCode = FALSE /\ lost = FALSE
  BY Zenon DEF Init
<1>2. <<>> \in Seq(Item) /\ <<>> \in Seq(Transition) /\ Len(<<>>) <= PhysicalLimit
  BY LimitsAssumption
<1>3. PathTypes
  BY <1>1, <1>2, Zenon DEF PathTypes
<1>4. OnTheWay = <<>>
  <2>1. Reported = <<>> /\ Waiting = <<>> /\ <<>> \o <<>> = <<>>
    BY <1>1, <1>2, ConcatEmptySeq DEF Reported, Waiting
  <2>2. QED
    BY <2>1, <1>1, WayIs, Zenon
<1>5. ASSUME NEW key \in Key
      PROVE  Moves(<<>>, key) = {}
  BY DEF Moves
<1>6. ASSUME NEW key \in Key
      PROVE  Alternates(OnTheWay, key, heard, held)
  BY <1>1, <1>4, <1>5, Zenon DEF Alternates
<1>7. QED
  BY <1>3, <1>6, Zenon DEF PathInv

LEMMA PathInvMeans == PathInv => KeysWillAgree /\ ReportsAlternate
<1> SUFFICES ASSUME PathInv
             PROVE  KeysWillAgree /\ ReportsAlternate
  OBVIOUS
<1>1. KeysWillAgree
  BY Zenon DEF PathInv, KeysWillAgree, Alternates
<1>2. ASSUME ~lost, expected # Nothing, ~sawCode
      PROVE  expected.down <=> expected.key \notin heard
  <2> DEFINE rest == (physical \o Waiting) \o controls
             key == expected.key
  <2>1. PathTypes
    BY Zenon DEF PathInv
  <2>2. expected \in Transition /\ controls \in Seq(Item)
    BY <2>1, <1>2, Zenon DEF PathTypes
  <2>3. key \in Key
    BY <2>2 DEF Transition
  <2>4. /\ physical \in Seq(Item) /\ Waiting \in Seq(Item) /\ <<expected>> \in Seq(Item)
    BY <2>1, <2>2, WayTypes, Zenon
  <2>5. physical \o Waiting \in Seq(Item)
    BY <2>4, JoinIsWay, Zenon
  <2>6. rest \in Seq(Item)
    BY <2>2, <2>5, JoinIsWay, Zenon
  <2>7. OnTheWay = <<expected>> \o rest
    <3>1. ((<<expected>> \o physical) \o Waiting) \o controls = <<expected>> \o rest
      BY <2>1, <2>2, ReportedFirst, Zenon
    <3>2. Reported = <<expected>>
      BY <1>2, Zenon DEF Reported
    <3>3. QED
      BY <3>1, <3>2, WayIs, Zenon
  <2> HIDE DEF rest
  <2>8. /\ DOMAIN OnTheWay = 1 .. 1 + Len(rest) /\ Len(rest) \in Nat
        /\ OnTheWay[1] = expected
    <3>1. Len(<<expected>>) = 1 /\ <<expected>>[1] = expected /\ 1 \in 1 .. Len(<<expected>>)
      OBVIOUS
    <3>2. QED
      BY <3>1, <2>4, <2>6, <2>7, WayParts
  <2>9. 1 \in DOMAIN OnTheWay /\ \A j \in DOMAIN OnTheWay : 1 <= j
    BY <2>8
  <2>10. 1 \in Moves(OnTheWay, key) /\ \A j \in Moves(OnTheWay, key) : 1 <= j
    BY <2>2, <2>8, <2>9, Zenon DEF Moves
  <2>11. Alternates(OnTheWay, key, heard, held)
    BY <2>3, <1>2, Zenon DEF PathInv
  <2>12. OnTheWay[1].down <=> key \notin heard
    BY <2>10, <2>11, Zenon DEF Alternates
  <2>13. QED
    BY <2>8, <2>12, Zenon
<1>3. QED
  BY <1>1, <1>2, Zenon DEF ReportsAlternate

-------------------------------------------------------------------------------
(***************************************************************************)
(* Unless something was refused or thrown away, the EPS will know every    *)
(* key as the user holds it, for all sizes of the queues and any spacing   *)
(* (enqueuePanelTransition(), dispatchControls(),                          *)
(* kpc_execution_panel_packet(), kpc_execution_start_physical()).          *)
(***************************************************************************)
THEOREM KeysAgreeInTheEnd == Spec => []KeysWillAgree
<1>1. PathInv => KeysWillAgree
  BY PathInvMeans
<1>2. QED
  BY <1>1, PathInvInit, PathInvStep, PTL DEF Spec

(***************************************************************************)
(* The code byte of a key changes what the EPS knows of it: no direction   *)
(* is reported twice (kpc_execution_drain_transmit()).                     *)
(***************************************************************************)
THEOREM NoReportTwice == Spec => []ReportsAlternate
<1>1. PathInv => ReportsAlternate
  BY PathInvMeans
<1>2. QED
  BY <1>1, PathInvInit, PathInvStep, PTL DEF Spec

-------------------------------------------------------------------------------
(* The wire to the EPS: the bytes of a message keep together, a byte time   *)
(* apart, whatever the host sends and when.                                 *)

OnWire == [byte : MidiByte, due : Nat]

\* A wire on which every byte is later than the one before it, by no more than a
\* byte time, and the messages are as ChannelMessageWhole says.
Apart(wire) == \A j, k \in DOMAIN wire : j < k => wire[j].due < wire[k].due
Close(wire) ==
    \A j, k \in DOMAIN wire :
        j <= k => wire[k].due <= wire[j].due + k * ByteTime - j * ByteTime
InTime(wire) == \A k \in DOMAIN wire : wire[k].due <= k * ByteTime
Followed(wire) ==
    \A k \in DOMAIN wire :
        wire[k].byte[1] \in Shorts /\ wire[k].byte[2] < Length[wire[k].byte[1]] =>
            /\ k < Len(wire)
            /\ wire[k + 1].byte = <<wire[k].byte[1], wire[k].byte[2] + 1>>
            /\ wire[k + 1].due = wire[k].due + ByteTime
Preceded(wire) ==
    \A k \in DOMAIN wire : wire[k].byte[2] > 1 /\ k > 1 =>
        wire[k - 1].byte = <<wire[k].byte[1], wire[k].byte[2] - 1>>

SoundWire(wire) ==
    /\ wire \in Seq(OnWire) /\ Len(wire) <= MidiWireSize
    /\ Apart(wire) /\ Close(wire) /\ InTime(wire)
    /\ Followed(wire) /\ Preceded(wire)

MidiInInv == MidiInTypeOK /\ SoundWire(midiWire)

LEMMA BytesNumbered ==
    ASSUME MidiInAssumption
    PROVE  /\ \A b \in MidiByte : b[1] \in Message /\ b[2] \in 1 .. Length[b[1]]
                              /\ Length[b[1]] \in Nat
           /\ \A m \in Message, k \in Nat : k >= 1 /\ k <= Length[m] => <<m, k>> \in MidiByte
           /\ ByteTime \in Nat /\ ByteTime > 0 /\ MidiWireSize \in Nat
<1>1. Length \in [Message -> Nat \ {0}]
  BY Zenon DEF MidiInAssumption
<1>2. \A m \in Message : Length[m] \in Nat
  BY <1>1
<1>3. ByteTime \in Nat /\ ByteTime > 0 /\ MidiWireSize \in Nat
  BY SMT DEF MidiInAssumption
<1>4. ASSUME NEW b \in MidiByte
      PROVE  b[1] \in Message /\ b[2] \in 1 .. Length[b[1]]
  <2>1. PICK m \in Message : b \in {<<m, k>> : k \in 1 .. Length[m]}
    BY Zenon DEF MidiByte
  <2>2. PICK k \in 1 .. Length[m] : b = <<m, k>>
    BY <2>1, Zenon
  <2>3. b[1] = m /\ b[2] = k
    BY <2>2
  <2>4. QED
    BY <2>2, <2>3, Zenon
<1>5. ASSUME NEW m \in Message, NEW k \in Nat, k >= 1, k <= Length[m]
      PROVE  <<m, k>> \in MidiByte
  <2>1. k \in 1 .. Length[m]
    BY <1>2, <1>5
  <2>2. <<m, k>> \in {<<m, i>> : i \in 1 .. Length[m]}
    BY <2>1, Zenon
  <2>3. QED
    BY <2>2, Zenon DEF MidiByte
<1>6. QED
  BY <1>2, <1>3, <1>4, <1>5, Zenon

\* What is on the wire, one by one.
LEMMA WireTyped ==
    ASSUME MidiInAssumption, NEW wire \in Seq(OnWire), NEW k \in DOMAIN wire
    PROVE  /\ k \in Nat /\ k >= 1 /\ k <= Len(wire)
           /\ wire[k] \in OnWire
           /\ wire[k].due \in Nat /\ wire[k].byte \in MidiByte
           /\ wire[k].byte[1] \in Message
           /\ wire[k].byte[2] \in Nat /\ Length[wire[k].byte[1]] \in Nat
           /\ wire[k].byte[2] >= 1 /\ wire[k].byte[2] <= Length[wire[k].byte[1]]
<1>1. k \in Nat /\ k >= 1 /\ k <= Len(wire) /\ wire[k] \in OnWire
  OBVIOUS
<1>2. wire[k].due \in Nat /\ wire[k].byte \in MidiByte
  BY <1>1 DEF OnWire
<1>3. \A b \in MidiByte : b[1] \in Message /\ b[2] \in 1 .. Length[b[1]]
                      /\ Length[b[1]] \in Nat
  BY BytesNumbered
<1> DEFINE b == wire[k].byte
<1>4. b[1] \in Message /\ b[2] \in 1 .. Length[b[1]] /\ Length[b[1]] \in Nat
  BY <1>2, <1>3
<1>5. \A n \in Nat : \A i \in 1 .. n : i \in Nat /\ i >= 1 /\ i <= n
  OBVIOUS
<1>6. QED
  BY <1>1, <1>2, <1>4, <1>5, Zenon

\* The longer wire, byte by byte.
LEMMA Longer ==
    ASSUME MidiInAssumption, NEW wire \in Seq(OnWire), NEW m \in Message,
           NEW n \in Nat, n <= Length[m], NEW a \in Nat, a = Arrival(wire)
    PROVE  LET v == ScheduledBytes(wire, m, n) IN
           /\ v \in Seq(OnWire) /\ Len(v) = Len(wire) + n
           /\ \A k \in DOMAIN wire : k \in DOMAIN v /\ v[k] = wire[k]
           /\ \A k \in DOMAIN v : k \notin DOMAIN wire =>
                 /\ k \in Nat /\ k > Len(wire) /\ k <= Len(wire) + n
                 /\ v[k].byte = <<m, k - Len(wire)>>
                 /\ v[k].due = a + (k * ByteTime - (Len(wire) + 1) * ByteTime)
<1> DEFINE tail == [k \in 1 .. n |-> [byte |-> <<m, k>>, due |-> a + (k - 1) * ByteTime]]
           v == ScheduledBytes(wire, m, n)
<1>1. /\ \A i \in Nat, j \in Nat : i >= 1 /\ i <= Length[j] => TRUE
      /\ ByteTime \in Nat /\ ByteTime > 0
      /\ \A k \in Nat : k >= 1 /\ k <= Length[m] => <<m, k>> \in MidiByte
  BY BytesNumbered
<1>2. Length[m] \in Nat
  BY DEF MidiInAssumption
<1>3. ASSUME NEW k \in 1 .. n
      PROVE  [byte |-> <<m, k>>, due |-> a + (k - 1) * ByteTime] \in OnWire
  <2>1. k \in Nat /\ k >= 1 /\ k <= Length[m]
    BY <1>2
  <2>2. <<m, k>> \in MidiByte
    BY <1>1, <2>1, Zenon
  <2>3. (k - 1) * ByteTime \in Nat
    BY <1>1, <2>1
  <2>4. a + (k - 1) * ByteTime \in Nat
    BY <2>3
  <2>5. QED
    BY <2>2, <2>4, Zenon DEF OnWire
<1>4. tail \in Seq(OnWire) /\ Len(tail) = n
  BY <1>3
<1>5. v = wire \o tail
  BY Zenon DEF ScheduledBytes, tail
<1> HIDE DEF v
<1>6. v \in Seq(OnWire) /\ Len(v) = Len(wire) + n
  BY <1>4, <1>5
<1>7. \A k \in DOMAIN wire : k \in DOMAIN v /\ v[k] = wire[k]
  BY <1>4, <1>5
<1>8. ASSUME NEW k \in DOMAIN v, k \notin DOMAIN wire
      PROVE  /\ k \in Nat /\ k > Len(wire) /\ k <= Len(wire) + n
             /\ v[k].byte = <<m, k - Len(wire)>>
             /\ v[k].due = a + (k * ByteTime - (Len(wire) + 1) * ByteTime)
  <2>1. k \in Nat /\ k > Len(wire) /\ k <= Len(wire) + n /\ k - Len(wire) \in 1 .. n
    BY <1>6, <1>8
  <2>2. v[k] = tail[k - Len(wire)]
    BY <1>4, <1>5, <2>1
  <2>3. v[k] = [byte |-> <<m, k - Len(wire)>>, due |-> a + (k - Len(wire) - 1) * ByteTime]
    BY <2>1, <2>2
  <2>4. (k - Len(wire) - 1) * ByteTime = k * ByteTime - (Len(wire) + 1) * ByteTime
    BY <1>1, <2>1
  <2>5. QED
    BY <2>1, <2>3, <2>4
<1>9. QED
  BY <1>6, <1>7, <1>8, Zenon DEF v

\* A message put behind what is on the wire leaves a sound wire, when a channel
\* message is put there whole.
LEMMA ScheduledIsSound ==
    ASSUME MidiInAssumption, NEW wire, SoundWire(wire), NEW m \in Message,
           NEW n \in Nat, n <= Length[m], Len(wire) + n <= MidiWireSize,
           m \in Shorts => n = Length[m]
    PROVE  SoundWire(ScheduledBytes(wire, m, n))
<1> DEFINE v == ScheduledBytes(wire, m, n)
           L == Len(wire)
           a == Arrival(wire)
           T(k) == k * ByteTime
<1>1. wire \in Seq(OnWire) /\ L \in Nat
  BY DEF SoundWire
<1>2. ByteTime \in Nat /\ ByteTime > 0 /\ Length[m] \in Nat
  <2>1. Length[m] \in Nat
    BY DEF MidiInAssumption
  <2>2. QED
    BY <2>1, BytesNumbered
<1>3. /\ \A j \in Nat : T(j) \in Nat /\ T(j + 1) = T(j) + ByteTime
      /\ \A j, k \in Nat : j < k => T(j) + ByteTime <= T(k)
  BY <1>2
<1>4. /\ a \in Nat /\ a >= ByteTime
      /\ \A k \in DOMAIN wire : wire[k].due < a /\ a <= wire[k].due + T(L + 1) - T(k)
      /\ a <= T(L + 1)
  <2>1. CASE wire = <<>>
    <3>1. a = ByteTime /\ L = 0 /\ DOMAIN wire = {}
      BY <2>1 DEF Arrival
    <3>2. T(1) = ByteTime
      BY <1>2
    <3>3. QED
      BY <1>2, <3>1, <3>2
  <2>2. CASE wire # <<>>
    <3>1. L \in DOMAIN wire /\ L >= 1
      BY <1>1, <2>2
    <3> DEFINE d == wire[L].due
    <3>2. d \in Nat /\ d <= T(L)
      BY <1>1, <3>1, WireTyped DEF SoundWire, InTime
    <3>3. a = IF d >= ByteTime THEN d + ByteTime ELSE ByteTime
      BY <2>2, Zenon DEF Arrival
    <3>4. a \in Nat /\ a >= ByteTime /\ d < a /\ a <= d + ByteTime
      <4> HIDE DEF a, d, T
      <4>1. d \in Nat
        BY <3>2
      <4>2. QED
        BY <1>2, <3>3, <4>1
    <3>5. a <= T(L + 1)
      <4> DEFINE last == T(L)
                 next == T(L + 1)
      <4>1. next = last + ByteTime /\ last \in Nat
        BY <1>1, <1>3, Zenon
      <4> HIDE DEF a, d, T, last, next
      <4>2. d <= last /\ d \in Nat
        BY <3>2, Zenon DEF last
      <4>3. a <= next
        BY <1>2, <3>4, <4>1, <4>2
      <4>4. QED
        BY <4>3, Zenon DEF next
    <3>6. ASSUME NEW k \in DOMAIN wire
          PROVE  wire[k].due < a /\ a <= wire[k].due + T(L + 1) - T(k)
      <4>1. k \in Nat /\ k <= L /\ wire[k].due \in Nat
        BY <1>1, WireTyped
      <4>2. k < L => wire[k].due < d
        BY <3>1, <4>1 DEF SoundWire, Apart
      <4>3. d <= wire[k].due + T(L) - T(k)
        BY <3>1, <4>1 DEF SoundWire, Close
      <4>4. k = L => wire[k].due = d
        OBVIOUS
      <4>5. wire[k].due < a
        BY <1>1, <3>2, <3>4, <4>1, <4>2, <4>4
      <4>6. T(L + 1) = T(L) + ByteTime /\ T(L) \in Nat /\ T(k) \in Nat
        BY <1>1, <1>3, <4>1
      <4> DEFINE e == wire[k].due
                 next == T(L + 1)
                 last == T(L)
                 this == T(k)
      <4> HIDE DEF T, a, d, e, next, last, this
      <4>7. a <= wire[k].due + T(L + 1) - T(k)
        <5>1. /\ d <= e + last - this /\ next = last + ByteTime /\ a <= d + ByteTime
              /\ a \in Nat /\ d \in Nat /\ e \in Nat /\ last \in Nat /\ this \in Nat
          BY <3>2, <3>4, <4>1, <4>3, <4>6, Zenon DEF e, next, last, this
        <5>2. a <= e + next - this
          BY <1>2, <5>1
        <5>3. QED
          BY <5>2, Zenon DEF e, next, this
      <4>8. QED
        BY <4>5, <4>7
    <3>7. QED
      BY <3>4, <3>5, <3>6
  <2>3. QED
    BY <2>1, <2>2
<1> HIDE DEF a
<1>5. /\ v \in Seq(OnWire) /\ Len(v) = L + n
      /\ \A k \in DOMAIN wire : k \in DOMAIN v /\ v[k] = wire[k]
      /\ \A k \in DOMAIN v : k \notin DOMAIN wire =>
            /\ k \in Nat /\ k > L /\ k <= L + n
            /\ v[k].byte = <<m, k - L>>
            /\ v[k].due = a + (T(k) - T(L + 1))
  <2>1. a = Arrival(wire)
    BY DEF a
  <2>2. QED
    BY <1>1, <1>4, <2>1, Longer
<1> HIDE DEF v, L, T
<1>6. ASSUME NEW k \in DOMAIN v
      PROVE  k \in Nat /\ k >= 1 /\ v[k].due \in Nat /\ T(k) \in Nat /\
             (k \in DOMAIN wire <=> k <= L)
  <2>1. k \in Nat /\ k >= 1 /\ v[k].due \in Nat
    BY <1>5, WireTyped
  <2>2. k \in DOMAIN wire <=> k <= L
    BY <1>1, <2>1 DEF L
  <2>3. QED
    BY <1>3, <2>1, <2>2, Zenon
<1>7. T(L + 1) \in Nat
  <2>1. L + 1 \in Nat
    BY <1>1
  <2>2. QED
    BY <1>3, <2>1, Zenon
<1>8. Apart(v) /\ Close(v)
  <2> SUFFICES ASSUME NEW j \in DOMAIN v, NEW k \in DOMAIN v
               PROVE  /\ j < k => v[j].due < v[k].due
                      /\ j <= k => v[k].due <= v[j].due + T(k) - T(j)
    BY DEF Apart, Close, T
  <2>0. /\ j \in Nat /\ k \in Nat /\ T(j) \in Nat /\ T(k) \in Nat
        /\ v[j].due \in Nat /\ v[k].due \in Nat /\ L \in Nat
    BY <1>1, <1>6
  <2>1. CASE k <= L
    <3>1. k \in DOMAIN wire /\ v[k] = wire[k]
      BY <1>5, <1>6, <2>1, Zenon
    <3>2. j <= k => j \in DOMAIN wire /\ v[j] = wire[j]
      <4>1. j <= k => j <= L
        BY <2>0, <2>1
      <4>2. QED
        BY <1>5, <1>6, <4>1, Zenon
    <3>3. Apart(wire) /\ Close(wire)
      BY DEF SoundWire
    <3>4. j < k => j <= k
      BY <2>0
    <3>5. QED
      BY <3>1, <3>2, <3>3, <3>4, Zenon DEF Apart, Close, T
  <2>2. CASE ~(k <= L)
    <3> DEFINE x == v[j].due
               y == v[k].due
               tj == T(j)
               tk == T(k)
               next == T(L + 1)
    <3>1. v[k].due = a + (T(k) - T(L + 1))
      BY <1>5, <1>6, <2>2, Zenon
    <3> HIDE DEF x, y, tj, tk, next
    <3>2. CASE j <= L
      <4>1. j \in DOMAIN wire /\ v[j] = wire[j]
        BY <1>5, <1>6, <3>2, Zenon
      <4>2. v[j].due < a /\ a <= v[j].due + T(L + 1) - T(j)
        BY <1>4, <4>1
      <4>3. T(L + 1) <= T(k)
        <5>1. L + 1 = k \/ L + 1 < k
          BY <2>0, <2>2
        <5>2. L + 1 < k => T(L + 1) + ByteTime <= T(k)
          BY <1>3, <2>0
        <5>3. QED
          BY <1>2, <1>7, <2>0, <5>1, <5>2
      <4>4. x \in Nat /\ y = a + (tk - next) /\ x < a /\ a <= x + next - tj /\ next <= tk
            /\ a \in Nat /\ tj \in Nat /\ tk \in Nat /\ next \in Nat
        BY <1>4, <1>7, <2>0, <3>1, <4>2, <4>3, Zenon DEF x, y, tj, tk, next
      <4>5. x < y /\ y <= x + tk - tj
        BY <4>4
      <4>6. QED
        BY <4>5, Zenon DEF x, y, tj, tk
    <3>3. CASE ~(j <= L)
      <4>1. v[j].due = a + (T(j) - T(L + 1))
        BY <1>5, <1>6, <3>3, Zenon
      <4>2. j < k => T(j) + ByteTime <= T(k)
        BY <1>3, <2>0, Zenon
      <4>3. j <= k => j < k \/ j = k
        BY <2>0
      <4>4. /\ x = a + (tj - next) /\ y = a + (tk - next)
            /\ j < k => tj + ByteTime <= tk
            /\ j = k => tj = tk
            /\ a \in Nat /\ tj \in Nat /\ tk \in Nat /\ next \in Nat
        BY <1>4, <1>7, <2>0, <3>1, <4>1, <4>2, Zenon DEF x, y, tj, tk, next
      <4>5. /\ j < k => x < y
            /\ j < k \/ j = k => y <= x + tk - tj
        BY <1>2, <4>4
      <4>6. QED
        BY <4>3, <4>5, Zenon DEF x, y, tj, tk
    <3>4. QED
      BY <3>2, <3>3
  <2>3. QED
    BY <2>1, <2>2
<1>9. InTime(v)
  <2> SUFFICES ASSUME NEW k \in DOMAIN v
               PROVE  v[k].due <= T(k)
    BY DEF InTime, T
  <2>1. CASE k \in DOMAIN wire
    BY <1>5, <2>1 DEF SoundWire, InTime, T
  <2>2. CASE k \notin DOMAIN wire
    <3>1. v[k].due = a + (T(k) - T(L + 1))
      BY <1>5, <2>2
    <3>2. QED
      BY <1>4, <1>6, <1>7, <3>1
  <2>3. QED
    BY <2>1, <2>2
<1>10. Followed(v)
  <2> SUFFICES ASSUME NEW k \in DOMAIN v, v[k].byte[1] \in Shorts,
                      v[k].byte[2] < Length[v[k].byte[1]]
               PROVE  /\ k < Len(v)
                      /\ v[k + 1].byte = <<v[k].byte[1], v[k].byte[2] + 1>>
                      /\ v[k + 1].due = v[k].due + ByteTime
    BY DEF Followed
  <2>1. CASE k \in DOMAIN wire
    <3>1. v[k] = wire[k]
      BY <1>5, <2>1
    <3>2. /\ k < L
          /\ wire[k + 1].byte = <<v[k].byte[1], v[k].byte[2] + 1>>
          /\ wire[k + 1].due = v[k].due + ByteTime
      BY <2>1, <3>1 DEF SoundWire, Followed, L
    <3>3. k + 1 \in DOMAIN wire
      BY <1>1, <1>6, <3>2 DEF L
    <3>4. v[k + 1] = wire[k + 1] /\ k < Len(v)
      <4>1. k < Len(v)
        BY <1>1, <1>5, <1>6, <3>2
      <4>2. QED
        BY <1>5, <3>3, <4>1
    <3>5. QED
      BY <3>2, <3>4
  <2>2. CASE k \notin DOMAIN wire
    <3>1. k > L /\ k <= L + n /\ v[k].byte = <<m, k - L>>
      BY <1>5, <2>2
    <3>2. m \in Shorts /\ k - L < n
      BY <3>1
    <3>3. k + 1 \in DOMAIN v /\ k < Len(v) /\ ~(k + 1 <= L)
      BY <1>1, <1>5, <1>6, <3>1, <3>2
    <3>4. k + 1 \notin DOMAIN wire
      BY <1>6, <3>3, Zenon
    <3>5. /\ v[k + 1].byte = <<m, (k + 1) - L>>
          /\ v[k + 1].due = a + (T(k + 1) - T(L + 1))
          /\ v[k].due = a + (T(k) - T(L + 1))
      BY <1>5, <2>2, <3>3, <3>4, Zenon
    <3>6. T(k + 1) = T(k) + ByteTime
      BY <1>3, <1>6
    <3>7. v[k + 1].due = v[k].due + ByteTime
      BY <1>2, <1>4, <1>6, <1>7, <3>5, <3>6
    <3>8. v[k].byte[1] = m /\ v[k].byte[2] = k - L
      BY <3>1
    <3>9. (k + 1) - L = (k - L) + 1
      BY <1>1, <1>6
    <3>10. QED
      BY <3>3, <3>5, <3>7, <3>8, <3>9, Zenon
  <2>3. QED
    BY <2>1, <2>2
<1>11. Preceded(v)
  <2> SUFFICES ASSUME NEW k \in DOMAIN v, v[k].byte[2] > 1, k > 1
               PROVE  v[k - 1].byte = <<v[k].byte[1], v[k].byte[2] - 1>>
    BY DEF Preceded
  <2>1. CASE k \in DOMAIN wire
    <3>1. v[k] = wire[k]
      BY <1>5, <2>1
    <3>2. wire[k - 1].byte = <<v[k].byte[1], v[k].byte[2] - 1>>
      BY <2>1, <3>1 DEF SoundWire, Preceded
    <3>3. k - 1 \in DOMAIN wire
      BY <1>1, <2>1
    <3>4. QED
      BY <1>5, <3>2, <3>3
  <2>2. CASE k \notin DOMAIN wire
    <3>1. k > L /\ k <= L + n /\ v[k].byte = <<m, k - L>>
      BY <1>5, <2>2
    <3>2. v[k].byte[1] = m /\ v[k].byte[2] = k - L
      BY <3>1
    <3>3. k - 1 \in DOMAIN v /\ ~(k - 1 <= L)
      BY <1>1, <1>5, <1>6, <3>2
    <3>4. k - 1 \notin DOMAIN wire
      BY <1>6, <3>3, Zenon
    <3>5. v[k - 1].byte = <<m, (k - 1) - L>>
      BY <1>5, <3>3, <3>4, Zenon
    <3>6. (k - 1) - L = (k - L) - 1
      BY <1>1, <1>6
    <3>7. QED
      BY <3>2, <3>5, <3>6, Zenon
  <2>3. QED
    BY <2>1, <2>2
<1>12. Len(v) <= MidiWireSize
  BY <1>5 DEF L
<1>13. QED
  BY <1>5, <1>8, <1>9, <1>10, <1>11, <1>12, Zenon DEF SoundWire, v

\* A byte that has come leaves the wire sound: it was due, so the next ones are
\* within their times, counted from the new head.
LEMMA ReceivedIsSound ==
    ASSUME MidiInAssumption, NEW wire, SoundWire(wire), wire # <<>>,
           wire[1].due = 0
    PROVE  SoundWire(Tail(wire))
<1> DEFINE v == Tail(wire)
           T(k) == k * ByteTime
<1>1. /\ wire \in Seq(OnWire) /\ Len(wire) \in Nat /\ 1 \in DOMAIN wire
      /\ ByteTime \in Nat
  BY BytesNumbered DEF SoundWire
<1>2. /\ v \in Seq(OnWire) /\ Len(v) = Len(wire) - 1
      /\ \A k \in DOMAIN v : v[k] = wire[k + 1] /\ k + 1 \in DOMAIN wire
  BY <1>1
<1>3. \A k \in DOMAIN v : /\ k \in Nat /\ k >= 1 /\ k <= Len(v)
                          /\ v[k].due \in Nat
  BY <1>2, WireTyped
<1> HIDE DEF v
<1>4. \A k \in Nat : T(k) \in Nat /\ T(k + 1) = T(k) + ByteTime
  BY <1>1
<1>5. Apart(v)
  <2> SUFFICES ASSUME NEW j \in DOMAIN v, NEW k \in DOMAIN v, j < k
               PROVE  v[j].due < v[k].due
    BY DEF Apart
  <2>1. j + 1 < k + 1
    BY <1>3
  <2>2. wire[j + 1].due < wire[k + 1].due
    BY <1>2, <2>1, Zenon DEF SoundWire, Apart
  <2>3. QED
    BY <1>2, <2>2
<1>6. Close(v)
  <2> SUFFICES ASSUME NEW j \in DOMAIN v, NEW k \in DOMAIN v, j <= k
               PROVE  v[k].due <= v[j].due + T(k) - T(j)
    BY DEF Close, T
  <2>1. j + 1 <= k + 1
    BY <1>3
  <2>2. wire[k + 1].due <= wire[j + 1].due + T(k + 1) - T(j + 1)
    BY <1>2, <2>1, Zenon DEF SoundWire, Close, T
  <2>3. /\ T(k + 1) = T(k) + ByteTime /\ T(j + 1) = T(j) + ByteTime
        /\ T(k) \in Nat /\ T(j) \in Nat
    BY <1>3, <1>4
  <2>4. v[j] = wire[j + 1] /\ v[k] = wire[k + 1] /\ v[j].due \in Nat /\ v[k].due \in Nat
    BY <1>2, <1>3
  <2> HIDE DEF T
  <2>5. QED
    BY <1>1, <2>2, <2>3, <2>4
<1>7. InTime(v)
  <2> SUFFICES ASSUME NEW k \in DOMAIN v
               PROVE  v[k].due <= T(k)
    BY DEF InTime, T
  <2>1. 1 <= k + 1
    BY <1>3
  <2>2. wire[k + 1].due <= wire[1].due + T(k + 1) - T(1)
    BY <1>1, <1>2, <2>1, Zenon DEF SoundWire, Close, T
  <2>3. T(k + 1) = T(k) + ByteTime /\ T(k) \in Nat /\ T(1) = ByteTime
    BY <1>1, <1>3, <1>4
  <2>4. v[k] = wire[k + 1] /\ v[k].due \in Nat
    BY <1>2, <1>3
  <2> HIDE DEF T
  <2>5. QED
    BY <1>1, <2>2, <2>3, <2>4
<1>8. Followed(v)
  <2> SUFFICES ASSUME NEW k \in DOMAIN v, v[k].byte[1] \in Shorts,
                      v[k].byte[2] < Length[v[k].byte[1]]
               PROVE  /\ k < Len(v)
                      /\ v[k + 1].byte = <<v[k].byte[1], v[k].byte[2] + 1>>
                      /\ v[k + 1].due = v[k].due + ByteTime
    BY DEF Followed
  <2>1. /\ k + 1 < Len(wire)
        /\ wire[(k + 1) + 1].byte = <<v[k].byte[1], v[k].byte[2] + 1>>
        /\ wire[(k + 1) + 1].due = v[k].due + ByteTime
    BY <1>2, Zenon DEF SoundWire, Followed
  <2>2. k < Len(v) /\ k + 1 \in DOMAIN v
    BY <1>1, <1>2, <1>3, <2>1
  <2>3. QED
    BY <1>2, <2>1, <2>2, Zenon
<1>9. Preceded(v)
  <2> SUFFICES ASSUME NEW k \in DOMAIN v, v[k].byte[2] > 1, k > 1
               PROVE  v[k - 1].byte = <<v[k].byte[1], v[k].byte[2] - 1>>
    BY DEF Preceded
  <2>1. k + 1 > 1 /\ (k + 1) - 1 = k /\ (k - 1) + 1 = k /\ k - 1 \in DOMAIN v
    BY <1>2, <1>3
  <2>2. wire[(k + 1) - 1].byte = <<v[k].byte[1], v[k].byte[2] - 1>>
    BY <1>2, <2>1, Zenon DEF SoundWire, Preceded
  <2>3. v[k - 1] = wire[(k - 1) + 1]
    BY <1>2, <2>1, Zenon
  <2>4. QED
    BY <2>1, <2>2, <2>3, Zenon
<1>10. Len(v) <= MidiWireSize
  BY <1>1, <1>2, BytesNumbered DEF SoundWire
<1>11. QED
  BY <1>2, <1>5, <1>6, <1>7, <1>8, <1>9, <1>10, Zenon DEF SoundWire, v

\* A sample later every byte that has not come is a sample nearer.
LEMMA LaterIsSound ==
    ASSUME MidiInAssumption, NEW wire, SoundWire(wire),
           wire # <<>> => wire[1].due > 0
    PROVE  SoundWire([k \in DOMAIN wire |-> [wire[k] EXCEPT !.due = @ - 1]])
<1> DEFINE v == [k \in DOMAIN wire |-> [wire[k] EXCEPT !.due = @ - 1]]
           T(k) == k * ByteTime
<1>1. wire \in Seq(OnWire) /\ ByteTime \in Nat /\ DOMAIN wire = 1 .. Len(wire)
  BY BytesNumbered DEF SoundWire
<1>2. ASSUME NEW k \in DOMAIN wire
      PROVE  /\ k \in Nat /\ T(k) \in Nat
             /\ wire[k].due \in Nat /\ wire[k].due > 0
             /\ v[k].due = wire[k].due - 1 /\ v[k].byte = wire[k].byte
             /\ v[k] \in OnWire
  <2>1. k \in Nat /\ k >= 1 /\ wire[k].due \in Nat /\ wire[k] \in OnWire
    BY <1>1, WireTyped
  <2>2. wire # <<>> /\ 1 \in DOMAIN wire
    BY <1>1
  <2>3. wire[1].due > 0 /\ wire[1].due \in Nat
    BY <1>1, <2>2, WireTyped
  <2>4. 1 < k => wire[1].due < wire[k].due
    BY <2>2 DEF SoundWire, Apart
  <2>5. wire[k].due > 0
    BY <2>1, <2>3, <2>4
  <2>6. v[k].due = wire[k].due - 1 /\ v[k].byte = wire[k].byte /\ v[k] \in OnWire
    BY <2>1, <2>5 DEF OnWire
  <2>7. T(k) \in Nat
    BY <1>1, <2>1
  <2>8. QED
    BY <2>1, <2>5, <2>6, <2>7
<1>3. v \in Seq(OnWire) /\ Len(v) = Len(wire) /\ DOMAIN v = DOMAIN wire
  <2>0. Len(wire) \in Nat
    BY <1>1
  <2>1. \A k \in 1 .. Len(wire) : v[k] \in OnWire
    BY <1>1, <1>2, Zenon
  <2>2. v = [k \in 1 .. Len(wire) |-> v[k]]
    BY <1>1, Zenon
  <2> HIDE DEF v
  <2>3. QED
    BY <1>1, <2>0, <2>1, <2>2
<1> HIDE DEF v, T
<1>4. Apart(v)
  <2>1. Apart(wire)
    BY DEF SoundWire
  <2>2. QED
    BY <1>2, <1>3, <2>1 DEF Apart
<1>5. Close(v)
  <2> SUFFICES ASSUME NEW j \in DOMAIN wire, NEW k \in DOMAIN wire, j <= k
               PROVE  v[k].due <= v[j].due + T(k) - T(j)
    BY <1>3 DEF Close, T
  <2>1. wire[k].due <= wire[j].due + T(k) - T(j)
    BY Zenon DEF SoundWire, Close, T
  <2>2. QED
    BY <1>2, <2>1
<1>6. InTime(v)
  <2>1. \A k \in DOMAIN wire : wire[k].due <= T(k)
    BY DEF SoundWire, InTime, T
  <2>2. \A k \in DOMAIN v : v[k].due <= T(k)
    BY <1>2, <1>3, <2>1
  <2>3. QED
    BY <2>2 DEF InTime, T
<1>7. Followed(v)
  <2> SUFFICES ASSUME NEW k \in DOMAIN wire, wire[k].byte[1] \in Shorts,
                      wire[k].byte[2] < Length[wire[k].byte[1]]
               PROVE  /\ k < Len(v)
                      /\ v[k + 1].byte = <<wire[k].byte[1], wire[k].byte[2] + 1>>
                      /\ v[k + 1].due = v[k].due + ByteTime
    BY <1>2, <1>3, Zenon DEF Followed
  <2>1. /\ k < Len(wire)
        /\ wire[k + 1].byte = <<wire[k].byte[1], wire[k].byte[2] + 1>>
        /\ wire[k + 1].due = wire[k].due + ByteTime
    BY DEF SoundWire, Followed
  <2>2. k + 1 \in DOMAIN wire
    BY <1>1, <1>2, <2>1
  <2>3. /\ v[k + 1].byte = wire[k + 1].byte
        /\ v[k + 1].due = wire[k + 1].due - 1 /\ v[k].due = wire[k].due - 1
        /\ wire[k + 1].due \in Nat /\ wire[k].due \in Nat
    BY <1>2, <2>2
  <2>4. QED
    BY <1>1, <1>3, <2>1, <2>3
<1>8. Preceded(v)
  <2> SUFFICES ASSUME NEW k \in DOMAIN wire, wire[k].byte[2] > 1, k > 1
               PROVE  v[k - 1].byte = <<wire[k].byte[1], wire[k].byte[2] - 1>>
    BY <1>2, <1>3, Zenon DEF Preceded
  <2>1. wire[k - 1].byte = <<wire[k].byte[1], wire[k].byte[2] - 1>>
    BY DEF SoundWire, Preceded
  <2>2. k - 1 \in DOMAIN wire
    BY <1>1, <1>2
  <2>3. QED
    BY <1>2, <2>1, <2>2
<1>9. Len(v) <= MidiWireSize
  BY <1>3 DEF SoundWire
<1>10. QED
  BY <1>3, <1>4, <1>5, <1>6, <1>7, <1>8, <1>9, Zenon DEF SoundWire, v

\* dispatchMidi() and the SysEx of the ring.
LEMMA SentIsSound ==
    ASSUME MidiInAssumption, NEW wire, SoundWire(wire), NEW m \in Message
    PROVE  SoundWire(Sent(wire, m)) /\ (m \in SysExes => SoundWire(SentBytes(wire, m)))
<1>1. /\ Length[m] \in Nat /\ Len(wire) \in Nat /\ MidiWireSize \in Nat
      /\ Len(wire) <= MidiWireSize
  BY BytesNumbered DEF MidiInAssumption, SoundWire
<1>2. m \in SysExes => SoundWire(SentBytes(wire, m))
  <2> DEFINE room == MidiWireSize - Len(wire)
             n == IF Length[m] < room THEN Length[m] ELSE room
  <2>1. n \in Nat /\ n <= Length[m] /\ Len(wire) + n <= MidiWireSize
    BY <1>1
  <2>2. SentBytes(wire, m) = ScheduledBytes(wire, m, n)
    BY Zenon DEF SentBytes
  <2> HIDE DEF n
  <2>3. m \in SysExes => m \notin Shorts
    BY Zenon DEF MidiInAssumption
  <2>4. QED
    BY <2>1, <2>2, <2>3, ScheduledIsSound, Zenon
<1>3. SoundWire(SentMidi(wire, m))
  <2>1. CASE Len(wire) + Length[m] > MidiWireSize
    BY <2>1, Zenon DEF SentMidi
  <2>2. CASE ~(Len(wire) + Length[m] > MidiWireSize)
    <3>1. Len(wire) + Length[m] <= MidiWireSize /\ Length[m] <= Length[m]
      BY <1>1, <2>2
    <3>2. SentMidi(wire, m) = ScheduledBytes(wire, m, Length[m])
      BY <2>2, Zenon DEF SentMidi
    <3>3. SoundWire(ScheduledBytes(wire, m, Length[m]))
      BY <1>1, <3>1, ScheduledIsSound, Zenon
    <3>4. QED
      BY <3>2, <3>3, Zenon
  <2>3. QED
    BY <2>1, <2>2
<1>4. SoundWire(Sent(wire, m))
  <2>1. CASE m \in SysExes
    <3>1. Sent(wire, m) = SentBytes(wire, m)
      BY <2>1, Zenon DEF Sent
    <3>2. QED
      BY <1>2, <2>1, <3>1, Zenon
  <2>2. CASE m \notin SysExes
    <3>1. Sent(wire, m) = SentMidi(wire, m)
      BY <2>2, Zenon DEF Sent
    <3>2. QED
      BY <1>3, <3>1, Zenon
  <2>3. QED
    BY <2>1, <2>2
<1>5. QED
  BY <1>2, <1>4, Zenon

-------------------------------------------------------------------------------
(* The steps. *)

LEMMA MergedPlaced ==
    ASSUME NEW clock \in Seq(HostEvent), NEW midi \in Seq(HostEvent)
    PROVE  Merged(clock, midi) \subseteq Placed
<1> DEFINE Place(e, k) == [place |-> k, at |-> e.at, message |-> e.message]
           taken == {k \in DOMAIN midi : Fits(midi, k) /\
                        Len(clock) + Cardinality({j \in 1 .. k - 1 : Fits(midi, j)})
                            < BlockEvents}
<1>1. ASSUME NEW e \in HostEvent, NEW k \in Nat
      PROVE  Place(e, k) \in Placed
  BY DEF HostEvent, Placed
<1>2. \A k \in DOMAIN clock : k \in Nat /\ clock[k] \in HostEvent
  OBVIOUS
<1>3. \A k \in DOMAIN midi : Len(clock) + k \in Nat /\ midi[k] \in HostEvent
  OBVIOUS
<1>4. \A k \in taken : k \in DOMAIN midi
  OBVIOUS
<1>5. Merged(clock, midi) =
          {Place(clock[k], k) : k \in {k \in DOMAIN clock : k <= BlockEvents}} \cup
          {Place(midi[k], Len(clock) + k) : k \in taken}
  BY Zenon DEF Merged
<1> HIDE DEF Place, taken
<1>6. ASSUME NEW x \in Merged(clock, midi)
      PROVE  x \in Placed
  <2>1. CASE x \in {Place(clock[k], k) : k \in {k \in DOMAIN clock : k <= BlockEvents}}
    <3>1. PICK k \in DOMAIN clock : x = Place(clock[k], k)
      BY <2>1, Zenon
    <3>2. QED
      BY <1>1, <1>2, <3>1, Zenon
  <2>2. CASE x \in {Place(midi[k], Len(clock) + k) : k \in taken}
    <3>1. PICK k \in taken : x = Place(midi[k], Len(clock) + k)
      BY <2>2, Zenon
    <3>2. QED
      BY <1>1, <1>3, <1>4, <3>1, Zenon
  <2>3. QED
    BY <1>5, <2>1, <2>2, Zenon
<1>7. QED
  BY <1>6

\* The wire before and after a step, the rest as its types say.
LEMMA EmptyWireSound == MidiInAssumption => SoundWire(<<>>)
<1>1. <<>> \in Seq(OnWire) /\ Len(<<>>) = 0 /\ DOMAIN <<>> = {}
  OBVIOUS
<1>2. MidiInAssumption => MidiWireSize \in Nat
  BY BytesNumbered
<1>3. Apart(<<>>) /\ Close(<<>>) /\ InTime(<<>>) /\ Followed(<<>>) /\ Preceded(<<>>)
  BY <1>1, Zenon DEF Apart, Close, InTime, Followed, Preceded
<1>4. 0 <= MidiWireSize \/ ~MidiInAssumption
  BY <1>2
<1>5. QED
  BY <1>1, <1>3, <1>4 DEF SoundWire

LEMMA MidiInStarts == MidiInAssumption /\ MidiInInit => MidiInInv
<1> SUFFICES ASSUME MidiInAssumption, MidiInInit
             PROVE  MidiInInv
  OBVIOUS
<1>1. SoundWire(midiWire)
  BY EmptyWireSound, Zenon DEF MidiInInit
<1>2. MidiInTypeOK
  <2>1. ring \in Seq(SysExes) /\ Len(ring) < RingSize
    BY DEF MidiInInit, MidiInAssumption
  <2>2. /\ dispatching \in BOOLEAN /\ rxEnabled \in BOOLEAN /\ block \subseteq Placed
    BY DEF MidiInInit
  <2>3. sample \in 0 .. Samples /\ midiRx \in Seq(MidiByte) /\ Len(midiRx) <= MidiRxSize
    BY DEF MidiInInit, MidiInAssumption
  <2>4. midiWire \in Seq([byte : MidiByte, due : Nat]) /\ Len(midiWire) <= MidiWireSize
    BY <1>1, Zenon DEF SoundWire, OnWire
  <2>5. QED
    BY <2>1, <2>2, <2>3, <2>4, Zenon DEF MidiInTypeOK
<1>3. QED
  BY <1>1, <1>2, Zenon DEF MidiInInv

LEMMA MidiInSteps ==
    ASSUME MidiInAssumption, MidiInInv, [MidiInNext]_midiInVars
    PROVE  MidiInInv'
<1>0. /\ SoundWire(midiWire)
      /\ ring \in Seq(SysExes) /\ Len(ring) < RingSize
      /\ dispatching \in BOOLEAN /\ rxEnabled \in BOOLEAN
      /\ block \subseteq Placed /\ sample \in 0 .. Samples
      /\ midiRx \in Seq(MidiByte) /\ Len(midiRx) <= MidiRxSize
  BY Zenon DEF MidiInInv, MidiInTypeOK
<1>1. /\ RingSize \in Nat /\ RingSize > 1 /\ Samples \in Nat /\ Samples > 0
      /\ MidiRxSize \in Nat /\ MidiRxSize > 0
  BY DEF MidiInAssumption
<1>2. ASSUME SoundWire(midiWire)',
             ring' \in Seq(SysExes), Len(ring') < RingSize,
             dispatching' \in BOOLEAN, rxEnabled' \in BOOLEAN,
             block' \subseteq Placed, sample' \in 0 .. Samples,
             midiRx' \in Seq(MidiByte), Len(midiRx') <= MidiRxSize
      PROVE  MidiInInv'
  <2>1. midiWire' \in Seq([byte : MidiByte, due : Nat]) /\ Len(midiWire') <= MidiWireSize
    BY <1>2, Zenon DEF SoundWire, OnWire
  <2>2. QED
    BY <1>2, <2>1, Zenon DEF MidiInInv, MidiInTypeOK
<1>3. midiWire' = midiWire => SoundWire(midiWire)'
  <2>1. ASSUME NEW w, w = midiWire
        PROVE  SoundWire(w)
    BY <1>0, <2>1, Zenon
  <2>2. QED
    BY <1>0, Zenon DEF SoundWire, Apart, Close, InTime, Followed, Preceded
<1>4. midiRx # <<>> => Tail(midiRx) \in Seq(MidiByte) /\ Len(Tail(midiRx)) <= MidiRxSize
  BY <1>0, <1>1
<1>5. CASE \E m \in SysExes : EnqueueSysEx(m)
  <2>1. PICK m \in SysExes : EnqueueSysEx(m)
    BY <1>5
  <2>2. ring' \in Seq(SysExes) /\ Len(ring') < RingSize
    <3>1. Len(ring) < RingSize - 1 /\ ring' = Append(ring, m)
      BY <2>1, Zenon DEF EnqueueSysEx
    <3>2. QED
      BY <1>0, <1>1, <3>1
  <2>3. QED
    BY <1>0, <1>2, <1>3, <2>1, <2>2, Zenon DEF EnqueueSysEx
<1>6. CASE \E e \in HostEvents : BeginBlock(e.clock, e.midi)
  <2>1. PICK e \in HostEvents : BeginBlock(e.clock, e.midi)
    BY <1>6
  <2>2. e.clock \in Seq(HostEvent) /\ e.midi \in Seq(HostEvent)
    BY Zenon DEF MidiInAssumption
  <2>3. block' \subseteq Placed
    BY <2>1, <2>2, MergedPlaced, Zenon DEF BeginBlock
  <2>4. sample' \in 0 .. Samples
    BY <1>1, <2>1 DEF BeginBlock
  <2>5. QED
    BY <1>0, <1>2, <1>3, <2>1, <2>3, <2>4, Zenon DEF BeginBlock
<1>7. CASE DispatchSysEx
  <2>1. /\ Head(ring) \in SysExes
        /\ Tail(ring) \in Seq(SysExes) /\ Len(Tail(ring)) < RingSize
    BY <1>0, <1>1, <1>7 DEF DispatchSysEx
  <2>2. Head(ring) \in Message
    BY <2>1, Zenon DEF Message
  <2>3. SoundWire(SentBytes(midiWire, Head(ring)))
    BY <1>0, <2>1, <2>2, SentIsSound, Zenon
  <2>4. SoundWire(midiWire)'
    BY <1>7, <2>3, Zenon DEF DispatchSysEx, SoundWire, Apart, Close, InTime, Followed,
       Preceded
  <2>5. QED
    BY <1>0, <1>2, <1>7, <2>1, <2>4, Zenon DEF DispatchSysEx
<1>8. CASE EndDispatch
  BY <1>0, <1>2, <1>3, <1>8, Zenon DEF EndDispatch
<1>9. CASE HandEvent
  <2>1. PICK e \in block : block' = block \ {e} /\ midiWire' = Sent(midiWire, e.message)
    BY <1>9, Zenon DEF HandEvent
  <2>2. e.message \in Message
    <3>1. e \in Placed
      BY <1>0
    <3>2. QED
      BY <3>1 DEF Placed
  <2>3. SoundWire(Sent(midiWire, e.message))
    BY <1>0, <2>2, SentIsSound, Zenon
  <2>4. SoundWire(midiWire)'
    BY <2>1, <2>3, Zenon DEF SoundWire, Apart, Close, InTime, Followed, Preceded
  <2>5. block' \subseteq Placed
    BY <1>0, <2>1
  <2>6. QED
    BY <1>0, <1>2, <1>9, <2>4, <2>5, Zenon DEF HandEvent
<1>10. CASE RunSample
  <2> DEFINE v == [k \in DOMAIN midiWire |-> [midiWire[k] EXCEPT !.due = @ - 1]]
  <2>1. midiWire' = v
    BY <1>10, Zenon DEF RunSample
  <2>2. SoundWire(v)
    BY <1>0, <1>10, LaterIsSound, Zenon DEF RunSample, WireServed
  <2> HIDE DEF v
  <2>3. SoundWire(midiWire)'
    BY <2>1, <2>2, Zenon DEF SoundWire, Apart, Close, InTime, Followed, Preceded
  <2>4. sample' \in 0 .. Samples
    BY <1>0, <1>1, <1>10 DEF RunSample
  <2>5. dispatching' \in BOOLEAN
    <3>1. (sample' > 0 /\ (Samples - sample') % DispatchEvery = 0) \in BOOLEAN
      OBVIOUS
    <3>2. QED
      BY <1>10, <3>1, Zenon DEF RunSample
  <2>6. QED
    BY <1>0, <1>2, <1>10, <2>3, <2>4, <2>5, Zenon DEF RunSample
<1>11. CASE ReceiveByte
  <2>1. midiWire # <<>> /\ midiWire[1].due = 0 /\ midiWire[1].byte \in MidiByte
    <3>1. midiWire # <<>> /\ ~(midiWire[1].due > 0)
      BY <1>11, Zenon DEF ReceiveByte, WireServed
    <3>2. midiWire \in Seq(OnWire)
      BY <1>0, Zenon DEF SoundWire
    <3>3. 1 \in DOMAIN midiWire
      BY <3>1, <3>2
    <3>4. midiWire[1].due \in Nat /\ midiWire[1].byte \in MidiByte
      BY <3>2, <3>3, WireTyped
    <3>5. QED
      BY <3>1, <3>4
  <2>2. SoundWire(Tail(midiWire))
    BY <1>0, <2>1, ReceivedIsSound, Zenon
  <2>3. SoundWire(midiWire)'
    BY <1>11, <2>2, Zenon DEF ReceiveByte, SoundWire, Apart, Close, InTime, Followed,
       Preceded
  <2>4. midiRx' \in Seq(MidiByte) /\ Len(midiRx') <= MidiRxSize
    <3>1. CASE rxEnabled /\ Len(midiRx) < MidiRxSize
      <4>1. midiRx' = Append(midiRx, midiWire[1].byte)
        BY <1>11, <3>1, Zenon DEF ReceiveByte
      <4>2. QED
        BY <1>0, <1>1, <2>1, <3>1, <4>1
    <3>2. CASE ~(rxEnabled /\ Len(midiRx) < MidiRxSize)
      BY <1>0, <1>11, <3>2, Zenon DEF ReceiveByte
    <3>3. QED
      BY <3>1, <3>2
  <2>5. QED
    BY <1>0, <1>2, <1>11, <2>3, <2>4, Zenon DEF ReceiveByte
<1>12. CASE PrepareBridge
  <2>1. ring' \in Seq(SysExes) /\ Len(ring') < RingSize
    BY <1>1, <1>12 DEF PrepareBridge
  <2>2. QED
    BY <1>0, <1>2, <1>3, <1>12, <2>1, Zenon DEF PrepareBridge
<1>13. CASE \E enabled \in BOOLEAN : RestoreWire(enabled)
  <2>1. PICK enabled \in BOOLEAN : RestoreWire(enabled)
    BY <1>13
  <2>2. SoundWire(midiWire)'
    BY <2>1, EmptyWireSound, Zenon DEF RestoreWire, SoundWire, Apart, Close, InTime,
       Followed, Preceded
  <2>3. midiRx' \in Seq(MidiByte) /\ Len(midiRx') <= MidiRxSize
    BY <1>1, <2>1 DEF RestoreWire
  <2>4. QED
    BY <1>0, <1>2, <2>1, <2>2, <2>3, Zenon DEF RestoreWire
<1>14. CASE ReadRx
  BY <1>0, <1>2, <1>3, <1>4, <1>14, Zenon DEF ReadRx
<1>15. CASE \E enable, reset \in BOOLEAN : CommandRx(enable, reset)
  <2>1. PICK enable \in BOOLEAN, reset \in BOOLEAN : CommandRx(enable, reset)
    BY <1>15, Zenon
  <2>2. midiRx' \in Seq(MidiByte) /\ Len(midiRx') <= MidiRxSize
    <3>1. midiRx' = <<>> \/ midiRx' = midiRx
      BY <2>1, Zenon DEF CommandRx
    <3>2. <<>> \in Seq(MidiByte) /\ Len(<<>>) <= MidiRxSize
      BY <1>1
    <3>3. QED
      BY <1>0, <3>1, <3>2, Zenon
  <2>3. QED
    BY <1>0, <1>2, <1>3, <2>1, <2>2, Zenon DEF CommandRx
<1>16. CASE UNCHANGED midiInVars
  BY <1>0, <1>2, <1>3, <1>16, Zenon DEF midiInVars
<1>17. QED
  BY <1>5, <1>6, <1>7, <1>8, <1>9, <1>10, <1>11, <1>12, <1>13, <1>14, <1>15, <1>16,
     Zenon DEF MidiInNext

\* However full wire, ring and block are: a channel message is on the wire whole
\* or not at all, no byte of a SysEx comes without those before it, and no two
\* bytes arrive at once.
THEOREM ChannelMessagesWhole ==
    MidiInAssumption => (MidiInSpec => [](MidiInTypeOK /\ ChannelMessageWhole))
<1> SUFFICES ASSUME MidiInAssumption
             PROVE  MidiInSpec => [](MidiInTypeOK /\ ChannelMessageWhole)
  OBVIOUS
<1>1. MidiInInit => MidiInInv
  BY MidiInStarts
<1>2. MidiInInv /\ [MidiInNext]_midiInVars => MidiInInv'
  BY MidiInSteps
<1>3. MidiInInv => MidiInTypeOK /\ ChannelMessageWhole
  <2> SUFFICES ASSUME MidiInInv
               PROVE  MidiInTypeOK /\ ChannelMessageWhole
    OBVIOUS
  <2>1. MidiInTypeOK /\ SoundWire(midiWire)
    BY Zenon DEF MidiInInv
  <2>2. BytesApart
    BY <2>1, Zenon DEF SoundWire, Apart, InTime, BytesApart
  <2>3. ChannelMessageWhole
    BY <2>1, <2>2, Zenon DEF SoundWire, Followed, Preceded, ChannelMessageWhole
  <2>4. QED
    BY <2>1, <2>3
<1>4. QED
  BY <1>1, <1>2, <1>3, PTL DEF MidiInSpec

-------------------------------------------------------------------------------
(* The wire to the host: each SysEx message once, whole and in order.       *)

\* Line and IsMessage for any stream s, of which the first low bytes do not count.
LineIn(s, i, j) == {k \in i .. j : s[k] # "clock"}

MessageIn(s, low, i, j) ==
    /\ low < i /\ i < j /\ j <= Len(s)
    /\ s[i] = "F0" /\ s[j] = "F7"
    /\ \A k \in i + 1 .. j - 1 : s[k] \in {"data", "clock"}
    /\ Cardinality(LineIn(s, i, j)) <= MessageSize

\* An F0 that no byte up to d has ended.
Open(s, low, i, d) ==
    /\ low < i /\ i <= d /\ s[i] = "F0"
    /\ \A k \in i + 1 .. d : s[k] \in {"data", "clock"}

\* After d bytes of the stream the message being put together is the one that is
\* open; if none is put together, what is open is too long already.
Assembled(s, low, d, in, bytes) ==
    /\ bytes \in Seq(Nat)
    /\ in => /\ bytes # <<>> /\ Len(bytes) <= MessageSize
             /\ Open(s, low, bytes[1], d)
             /\ InOrder(bytes, LineIn(s, bytes[1], d))
             /\ Cardinality(LineIn(s, bytes[1], d)) = Len(bytes)
    /\ ~in => /\ bytes = <<>>
              /\ \A i \in Nat : Open(s, low, i, d) =>
                    Cardinality(LineIn(s, i, d)) > MessageSize

\* The messages given to the host are those that end in the first d bytes.
Given(s, low, d, messages) ==
    /\ \A n \in DOMAIN messages :
          /\ messages[n] # <<>> /\ Final(messages[n]) <= d
          /\ MessageIn(s, low, First(messages[n]), Final(messages[n]))
          /\ InOrder(messages[n], LineIn(s, First(messages[n]), Final(messages[n])))
    /\ \A m, n \in DOMAIN messages : m < n => Final(messages[m]) < First(messages[n])

AllGiven(s, low, d, messages) ==
    \A i, j \in Nat : MessageIn(s, low, i, j) /\ j <= d =>
        \E n \in DOMAIN messages : First(messages[n]) = i

Drained == Len(sent) - Len(midiTx)

MidiOutInv ==
    /\ MidiOutTypeOK
    /\ Len(midiTx) <= Len(sent) /\ since <= Drained
    /\ collecting => midiTx # <<>>
    /\ \A k \in DOMAIN midiTx : midiTx[k] = Drained + k
    /\ Assembled(sent, since, Drained, outputInSysEx, outputSysEx)
    /\ Given(sent, since, Drained, delivered)
    /\ outputInSysEx =>
          \A n \in DOMAIN delivered : Final(delivered[n]) < outputSysEx[1]
    /\ ~refused => AllGiven(sent, since, Drained, delivered)
-------------------------------------------------------------------------------
(* Lines. *)

LEMMA LineGrows ==
    ASSUME NEW s, NEW i \in Nat, NEW d \in Nat
    PROVE  /\ IsFiniteSet(LineIn(s, i, d)) /\ Cardinality(LineIn(s, i, d)) \in Nat
           /\ \A k \in LineIn(s, i, d) : k \in Nat /\ i <= k /\ k <= d
<1>1. \A k \in LineIn(s, i, d) : k \in Nat /\ i <= k /\ k <= d
  BY DEF LineIn
<1>2. LineIn(s, i, d) \in SUBSET (i .. d)
  BY DEF LineIn
<1>3. IsFiniteSet(i .. d)
  BY FS_Interval
<1>4. IsFiniteSet(LineIn(s, i, d))
  BY <1>2, <1>3, FS_Subset
<1>5. QED
  BY <1>1, <1>4, FS_CardinalityType

LEMMA LineKept ==
    ASSUME NEW s, NEW i \in Nat, NEW d \in Nat, s[d + 1] = "clock"
    PROVE  LineIn(s, i, d + 1) = LineIn(s, i, d)
<1>1. \A k : k \in i .. d + 1 /\ k # d + 1 <=> k \in i .. d
  OBVIOUS
<1>2. \A k : k \in LineIn(s, i, d + 1) <=> k \in LineIn(s, i, d)
  BY <1>1, Zenon DEF LineIn
<1>3. QED
  BY <1>2, Zenon

LEMMA LineAdded ==
    ASSUME NEW s, NEW i \in Nat, NEW d \in Nat, i <= d + 1, s[d + 1] # "clock"
    PROVE  /\ LineIn(s, i, d + 1) = LineIn(s, i, d) \cup {d + 1}
           /\ Cardinality(LineIn(s, i, d + 1)) = Cardinality(LineIn(s, i, d)) + 1
<1> DEFINE line == LineIn(s, i, d)
<1>1. \A k : k \in i .. d + 1 <=> k \in i .. d \/ k = d + 1
  OBVIOUS
<1>2. \A k : k \in LineIn(s, i, d + 1) <=> k \in LineIn(s, i, d) \cup {d + 1}
  BY <1>1, Zenon DEF LineIn
<1>3. LineIn(s, i, d + 1) = line \cup {d + 1}
  BY <1>2, Zenon
<1>4. IsFiniteSet(line) /\ \A k \in line : k <= d
  BY LineGrows, Zenon
<1> HIDE DEF line
<1>5. d + 1 \notin line
  BY <1>4
<1>6. Cardinality(line \cup {d + 1}) = Cardinality(line) + 1
  BY <1>4, <1>5, FS_AddElement
<1>7. QED
  BY <1>3, <1>6, Zenon DEF line

\* What is open after a byte was open before it, unless the byte opens it.
LEMMA OpenBefore ==
    ASSUME NEW s, NEW low \in Nat, NEW i \in Nat, NEW d \in Nat
    PROVE  /\ Open(s, low, i, d + 1) =>
                 \/ i = d + 1 /\ s[d + 1] = "F0"
                 \/ Open(s, low, i, d) /\ s[d + 1] \in {"data", "clock"}
           /\ Open(s, low, i, d) /\ s[d + 1] \in {"data", "clock"} =>
                 Open(s, low, i, d + 1)
           /\ MessageIn(s, low, i, d + 1) =>
                 Open(s, low, i, d) /\ s[d + 1] = "F7"
<1>1. ASSUME Open(s, low, i, d + 1), i # d + 1
      PROVE  Open(s, low, i, d) /\ s[d + 1] \in {"data", "clock"}
  <2>1. i <= d /\ d + 1 \in i + 1 .. d + 1 /\ \A k \in i + 1 .. d : k \in i + 1 .. d + 1
    BY <1>1 DEF Open
  <2>2. QED
    BY <1>1, <2>1, Zenon DEF Open
<1>2. ASSUME Open(s, low, i, d + 1), i = d + 1
      PROVE  s[d + 1] = "F0"
  BY <1>2, Zenon DEF Open
<1>3. ASSUME Open(s, low, i, d), s[d + 1] \in {"data", "clock"}
      PROVE  Open(s, low, i, d + 1)
  <2>1. i <= d + 1 /\ \A k \in i + 1 .. d + 1 : k \in i + 1 .. d \/ k = d + 1
    BY <1>3 DEF Open
  <2>2. QED
    BY <1>3, <2>1, Zenon DEF Open
<1>4. ASSUME MessageIn(s, low, i, d + 1)
      PROVE  Open(s, low, i, d) /\ s[d + 1] = "F7"
  <2>1. i <= d /\ (d + 1) - 1 = d
    BY <1>4 DEF MessageIn
  <2>2. QED
    BY <1>4, <2>1, Zenon DEF MessageIn, Open
<1>5. QED
  BY <1>1, <1>2, <1>3, <1>4, Zenon

LEMMA OneOpen ==
    ASSUME NEW s, NEW low \in Nat, NEW d \in Nat, NEW i \in Nat, NEW j \in Nat,
           Open(s, low, i, d), Open(s, low, j, d)
    PROVE  i = j
<1>1. ASSUME NEW a \in Nat, NEW b \in Nat, Open(s, low, a, d), Open(s, low, b, d), a < b
      PROVE  FALSE
  <2>1. b \in a + 1 .. d
    BY <1>1 DEF Open
  <2>2. s[b] \in {"data", "clock"} /\ s[b] = "F0"
    BY <1>1, <2>1, Zenon DEF Open
  <2>3. QED
    BY <2>2
<1>2. i < j \/ j < i \/ i = j
  OBVIOUS
<1>3. QED
  BY <1>1, <1>2, Zenon

\* A byte behind all others.
LEMMA OrderGrows ==
    ASSUME NEW bytes \in Seq(Nat), NEW set, NEW d \in Nat, InOrder(bytes, set),
           \A k \in set : k <= d
    PROVE  /\ Append(bytes, d + 1) \in Seq(Nat)
           /\ Len(Append(bytes, d + 1)) = Len(bytes) + 1
           /\ Append(bytes, d + 1)[Len(bytes) + 1] = d + 1
           /\ bytes # <<>> => Append(bytes, d + 1)[1] = bytes[1]
           /\ InOrder(Append(bytes, d + 1), set \cup {d + 1})
<1> DEFINE more == Append(bytes, d + 1)
           L == Len(bytes)
<1>1. /\ more \in Seq(Nat) /\ Len(more) = L + 1 /\ more[L + 1] = d + 1 /\ L \in Nat
      /\ \A a \in DOMAIN bytes : a \in DOMAIN more /\ more[a] = bytes[a] /\ a \in Nat
                                 /\ a <= L /\ bytes[a] \in Nat
      /\ \A a \in DOMAIN more : a \in Nat /\ (a \in DOMAIN bytes \/ a = L + 1)
      /\ L + 1 \in DOMAIN more
      /\ bytes # <<>> => 1 \in DOMAIN bytes
  OBVIOUS
<1> HIDE DEF more, L
<1>2. \A a \in DOMAIN bytes : bytes[a] \in set /\ bytes[a] <= d
  BY Zenon DEF InOrder
<1>3. ASSUME NEW a \in DOMAIN more, NEW b \in DOMAIN more, a < b
      PROVE  more[a] < more[b]
  <2>1. CASE b \in DOMAIN bytes
    <3>1. a \in DOMAIN bytes
      BY <1>1, <1>3, <2>1
    <3>2. bytes[a] < bytes[b]
      BY <1>3, <2>1, <3>1, Zenon DEF InOrder
    <3>3. QED
      BY <1>1, <2>1, <3>1, <3>2
  <2>2. CASE b = L + 1
    <3>1. a \in DOMAIN bytes
      BY <1>1, <1>3, <2>2
    <3>2. more[a] = bytes[a] /\ bytes[a] \in Nat /\ bytes[a] <= d /\ more[b] = d + 1
      BY <1>1, <1>2, <2>2, <3>1, Zenon
    <3>3. QED
      BY <3>2
  <2>3. QED
    BY <1>1, <2>1, <2>2
<1>4. \A a \in DOMAIN more : more[a] \in set \cup {d + 1}
  BY <1>1, <1>2, Zenon
<1>5. ASSUME NEW k \in set \cup {d + 1}
      PROVE  \E a \in DOMAIN more : more[a] = k
  <2>1. CASE k \in set
    <3>1. PICK a \in DOMAIN bytes : bytes[a] = k
      BY <2>1, Zenon DEF InOrder
    <3>2. QED
      BY <1>1, <3>1, Zenon
  <2>2. CASE k = d + 1
    BY <1>1, <2>2, Zenon
  <2>3. QED
    BY <2>1, <2>2
<1>6. InOrder(more, set \cup {d + 1})
  BY <1>3, <1>4, <1>5, Zenon DEF InOrder
<1>7. bytes # <<>> => more[1] = bytes[1]
  BY <1>1, Zenon
<1>8. QED
  BY <1>1, <1>6, <1>7, Zenon DEF more, L
-------------------------------------------------------------------------------
(* A byte is taken into the message being put together. *)

\* A byte leaves what is put together as it should be, and completes a message
\* exactly when one ends with it.
TakenAsSent(low, d, in, bytes, a) ==
    /\ a.in \in BOOLEAN /\ a.complete \in BOOLEAN
    /\ a.complete =>
          /\ in /\ ~a.in /\ a.bytes # <<>>
          /\ First(a.bytes) = bytes[1] /\ Final(a.bytes) = d + 1
          /\ a.bytes \in Seq(Nat)
          /\ MessageIn(sent, low, First(a.bytes), d + 1)
          /\ InOrder(a.bytes, LineIn(sent, First(a.bytes), d + 1))
          /\ Assembled(sent, low, d + 1, FALSE, <<>>)
    /\ ~a.complete =>
          /\ Assembled(sent, low, d + 1, a.in, a.bytes)
          /\ a.in => a.bytes[1] = d + 1 \/ (in /\ a.bytes[1] = bytes[1])
    /\ \A i \in Nat : MessageIn(sent, low, i, d + 1) =>
          a.complete /\ i = First(a.bytes)

LEMMA ByteTaken ==
    ASSUME MessageSize \in Nat, MessageSize > 0,
           NEW low \in Nat, NEW d \in Nat, low <= d,
           sent \in Seq(OutByte), d + 1 <= Len(sent),
           NEW in \in BOOLEAN, NEW bytes, Assembled(sent, low, d, in, bytes),
           NEW a, a = Collected(in, bytes, d + 1)
    PROVE  TakenAsSent(low, d, in, bytes, a)
<1> USE DEF TakenAsSent
<1> DEFINE b == sent[d + 1]
           Long(i) == Cardinality(LineIn(sent, i, d + 1)) > MessageSize
<1>1. b \in {"F0", "F7", "data", "clock"} /\ Len(sent) \in Nat
  <2>1. d + 1 \in DOMAIN sent
    OBVIOUS
  <2>2. b \in OutByte
    BY <2>1
  <2>3. QED
    BY <2>2 DEF OutByte
<1>2. \A i \in Nat : Open(sent, low, i, d + 1) =>
          \/ i = d + 1 /\ b = "F0"
          \/ Open(sent, low, i, d) /\ b \in {"data", "clock"}
  BY OpenBefore, Zenon
<1>3. \A i \in Nat : MessageIn(sent, low, i, d + 1) => Open(sent, low, i, d) /\ b = "F7"
  BY OpenBefore, Zenon
<1>4. \A i \in Nat :
          /\ Cardinality(LineIn(sent, i, d)) \in Nat
          /\ \A k \in LineIn(sent, i, d) : k \in Nat /\ i <= k /\ k <= d
          /\ b = "clock" => LineIn(sent, i, d + 1) = LineIn(sent, i, d)
          /\ i <= d + 1 /\ b # "clock" =>
                /\ LineIn(sent, i, d + 1) = LineIn(sent, i, d) \cup {d + 1}
                /\ Cardinality(LineIn(sent, i, d + 1)) = Cardinality(LineIn(sent, i, d)) + 1
  <2> SUFFICES ASSUME NEW i \in Nat
               PROVE  /\ Cardinality(LineIn(sent, i, d)) \in Nat
                      /\ \A k \in LineIn(sent, i, d) : k \in Nat /\ i <= k /\ k <= d
                      /\ b = "clock" => LineIn(sent, i, d + 1) = LineIn(sent, i, d)
                      /\ i <= d + 1 /\ b # "clock" =>
                            /\ LineIn(sent, i, d + 1) = LineIn(sent, i, d) \cup {d + 1}
                            /\ Cardinality(LineIn(sent, i, d + 1)) =
                                   Cardinality(LineIn(sent, i, d)) + 1
    BY Zenon
  <2>1. /\ Cardinality(LineIn(sent, i, d)) \in Nat
        /\ \A k \in LineIn(sent, i, d) : k \in Nat /\ i <= k /\ k <= d
    BY LineGrows
  <2>2. sent[d + 1] = "clock" => LineIn(sent, i, d + 1) = LineIn(sent, i, d)
    BY LineKept, Zenon
  <2>3. ASSUME i <= d + 1, sent[d + 1] # "clock"
        PROVE  /\ LineIn(sent, i, d + 1) = LineIn(sent, i, d) \cup {d + 1}
               /\ Cardinality(LineIn(sent, i, d + 1)) =
                      Cardinality(LineIn(sent, i, d)) + 1
    BY <2>3, LineAdded
  <2>4. QED
    BY <2>1, <2>2, <2>3, Zenon
<1>5. \A i \in Nat : Open(sent, low, i, d) => i <= d /\ i <= d + 1
  BY DEF Open
<1>6. \A i \in Nat : MessageIn(sent, low, i, d + 1) => ~Long(i)
  <2>1. ASSUME NEW i \in Nat, MessageIn(sent, low, i, d + 1)
        PROVE  ~Long(i)
    <3>1. Cardinality(LineIn(sent, i, d + 1)) <= MessageSize
      BY <2>1, Zenon DEF MessageIn
    <3>2. Cardinality(LineIn(sent, i, d + 1)) \in Nat
      <4>1. d + 1 \in Nat
        OBVIOUS
      <4>2. QED
        BY <4>1, LineGrows, Zenon
    <3>3. QED
      BY <3>1, <3>2
  <2>2. QED
    BY <2>1, Zenon
<1>7. bytes \in Seq(Nat) /\ bytes \in Seq(Nat)
  BY Zenon DEF Assembled
<1>8. in => /\ bytes # <<>> /\ Len(bytes) <= MessageSize /\ Len(bytes) \in Nat
            /\ bytes[1] \in Nat
            /\ Open(sent, low, bytes[1], d)
            /\ InOrder(bytes, LineIn(sent, bytes[1], d))
            /\ Cardinality(LineIn(sent, bytes[1], d)) = Len(bytes)
            /\ \A i \in Nat : Open(sent, low, i, d) => i = bytes[1]
  <2> SUFFICES ASSUME in
               PROVE  /\ bytes # <<>> /\ Len(bytes) <= MessageSize /\ Len(bytes) \in Nat
                      /\ bytes[1] \in Nat
                      /\ Open(sent, low, bytes[1], d)
                      /\ InOrder(bytes, LineIn(sent, bytes[1], d))
                      /\ Cardinality(LineIn(sent, bytes[1], d)) = Len(bytes)
                      /\ \A i \in Nat : Open(sent, low, i, d) => i = bytes[1]
    OBVIOUS
  <2>1. /\ bytes # <<>> /\ Len(bytes) <= MessageSize
        /\ Open(sent, low, bytes[1], d)
        /\ InOrder(bytes, LineIn(sent, bytes[1], d))
        /\ Cardinality(LineIn(sent, bytes[1], d)) = Len(bytes)
    BY Zenon DEF Assembled
  <2>2. bytes[1] \in Nat /\ Len(bytes) \in Nat
    BY <1>7, <2>1
  <2>3. \A i \in Nat : Open(sent, low, i, d) => i = bytes[1]
    BY <2>1, <2>2, OneOpen, Zenon
  <2>4. QED
    BY <2>1, <2>2, <2>3, Zenon
<1>9. ~in => /\ bytes = <<>>
             /\ \A i \in Nat : Open(sent, low, i, d) =>
                   Cardinality(LineIn(sent, i, d)) > MessageSize
  BY Zenon DEF Assembled
<1>10. ~in => \A i \in Nat : Open(sent, low, i, d) => Long(i)
  <2>1. ASSUME ~in, NEW i \in Nat, Open(sent, low, i, d)
        PROVE  Long(i)
    <3>1. Cardinality(LineIn(sent, i, d)) > MessageSize /\ i <= d + 1
      BY <1>5, <1>9, <2>1, Zenon
    <3>2. CASE b = "clock"
      BY <1>4, <3>1, <3>2, Zenon
    <3>3. CASE b # "clock"
      <4>1. Cardinality(LineIn(sent, i, d + 1)) = Cardinality(LineIn(sent, i, d)) + 1
        BY <1>4, <3>1, <3>3, Zenon
      <4>2. Cardinality(LineIn(sent, i, d)) \in Nat
        BY <1>4, Zenon
      <4>3. QED
        BY <3>1, <4>1, <4>2
    <3>4. QED
      BY <3>2, <3>3
  <2>2. QED
    BY <2>1, Zenon
<1>11. in /\ Len(bytes) = MessageSize /\ b # "clock" =>
           \A i \in Nat : Open(sent, low, i, d) => Long(i)
  <2>1. ASSUME in, Len(bytes) = MessageSize, b # "clock", NEW i \in Nat,
               Open(sent, low, i, d)
        PROVE  Long(i)
    <3>1. i = bytes[1] /\ i <= d + 1 /\ Cardinality(LineIn(sent, i, d)) = MessageSize
      BY <1>5, <1>8, <2>1, Zenon
    <3>2. Cardinality(LineIn(sent, i, d + 1)) = MessageSize + 1
      BY <1>4, <2>1, <3>1, Zenon
    <3>3. QED
      BY <3>2
  <2>2. QED
    BY <2>1, Zenon
<1> HIDE DEF Long
<1>12. CASE b = "clock" \/ (~in /\ b # "F0")
  <2>1. a = Assembly(in, bytes, FALSE)
    BY <1>12, Zenon DEF Collected
  <2>2. a.in = in /\ a.bytes = bytes /\ a.complete = FALSE
    BY <2>1 DEF Assembly
  <2>3. CASE in
    <3>1. b = "clock"
      BY <1>12, <2>3
    <3>2. Open(sent, low, bytes[1], d + 1)
      BY <1>8, <2>3, <3>1, OpenBefore, Zenon
    <3>3. LineIn(sent, bytes[1], d + 1) = LineIn(sent, bytes[1], d)
      BY <1>4, <1>8, <2>3, <3>1, Zenon
    <3>4. Assembled(sent, low, d + 1, in, bytes)
      BY <1>7, <1>8, <2>3, <3>2, <3>3, Zenon DEF Assembled
    <3>5. \A i \in Nat : ~MessageIn(sent, low, i, d + 1)
      BY <1>3, <3>1
    <3>6. QED
      BY <2>2, <2>3, <3>4, <3>5, Zenon
  <2>4. CASE ~in
    <3>1. \A i \in Nat : Open(sent, low, i, d + 1) => Long(i)
      <4>1. ASSUME NEW i \in Nat, Open(sent, low, i, d + 1)
            PROVE  Open(sent, low, i, d)
        <5>1. b # "F0"
          BY <1>12
        <5>2. QED
          BY <1>2, <4>1, <5>1, Zenon
      <4>2. QED
        BY <1>10, <2>4, <4>1, Zenon
    <3>2. Assembled(sent, low, d + 1, in, bytes)
      BY <1>7, <1>9, <2>4, <3>1, Zenon DEF Assembled, Long
    <3>3. \A i \in Nat : ~MessageIn(sent, low, i, d + 1)
      BY <1>3, <1>6, <1>10, <2>4, Zenon
    <3>4. QED
      BY <2>2, <2>4, <3>2, <3>3, Zenon
  <2>5. QED
    BY <2>3, <2>4
<1>13. CASE b = "F0"
  <2>1. Len(<<>>) # MessageSize /\ Append(<<>>, d + 1) = <<d + 1>>
    OBVIOUS
  <2>2. a = Assembly(b # "F7", <<d + 1>>, b = "F7")
    BY <1>13, <2>1, Zenon DEF Collected
  <2>3. a.in = TRUE /\ a.bytes = <<d + 1>> /\ a.complete = FALSE
    <3>1. (b # "F7") = TRUE /\ (b = "F7") = FALSE
      BY <1>13
    <3>2. a = Assembly(TRUE, <<d + 1>>, FALSE)
      BY <2>2, <3>1, Zenon
    <3> DEFINE one == <<d + 1>>
    <3>3. a = Assembly(TRUE, one, FALSE)
      BY <3>2
    <3> HIDE DEF one
    <3>4. a.in = TRUE /\ a.bytes = one /\ a.complete = FALSE
      BY <3>3 DEF Assembly
    <3>5. QED
      BY <3>4 DEF one
  <2>4. /\ <<d + 1>> \in Seq(Nat) /\ <<d + 1>> # <<>> /\ Len(<<d + 1>>) = 1
        /\ <<d + 1>>[1] = d + 1 /\ DOMAIN <<d + 1>> = {1}
    OBVIOUS
  <2>5. Open(sent, low, d + 1, d + 1)
    BY <1>13 DEF Open
  <2>6. LineIn(sent, d + 1, d + 1) = {d + 1}
    BY <1>13 DEF LineIn
  <2>7. Cardinality({d + 1}) = 1
    BY FS_Singleton
  <2>8. InOrder(<<d + 1>>, {d + 1})
    <3>1. ~(1 < 1)
      OBVIOUS
    <3>2. QED
      BY <2>4, <3>1, Zenon DEF InOrder
  <2>9. 1 <= MessageSize
    OBVIOUS
  <2>10. Assembled(sent, low, d + 1, TRUE, <<d + 1>>)
    BY <2>4, <2>5, <2>6, <2>7, <2>8, <2>9, Zenon DEF Assembled
  <2>11. \A i \in Nat : ~MessageIn(sent, low, i, d + 1)
    BY <1>3, <1>13
  <2>12. QED
    BY <2>3, <2>4, <2>10, <2>11, Zenon
<1>14. CASE in /\ b \in {"F7", "data"} /\ Len(bytes) = MessageSize
  <2>1. b # "clock" /\ b # "F0"
    BY <1>14
  <2>2. a = Assembly(FALSE, <<>>, FALSE)
    BY <1>14, <2>1, Zenon DEF Collected
  <2>3. a.in = FALSE /\ a.bytes = <<>> /\ a.complete = FALSE
    BY <2>2 DEF Assembly
  <2>4. \A i \in Nat : Open(sent, low, i, d) => Long(i)
    BY <1>11, <1>14, <2>1, Zenon
  <2>5. \A i \in Nat : Open(sent, low, i, d + 1) => Long(i)
    BY <1>2, <2>1, <2>4, Zenon
  <2>6. <<>> \in Seq(Nat)
    OBVIOUS
  <2>7. Assembled(sent, low, d + 1, FALSE, <<>>)
    BY <2>5, <2>6, Zenon DEF Assembled, Long
  <2>8. \A i \in Nat : ~MessageIn(sent, low, i, d + 1)
    BY <1>3, <1>6, <2>4, Zenon
  <2>9. QED
    BY <2>3, <2>7, <2>8, Zenon
<1>15. CASE in /\ b \in {"F7", "data"} /\ Len(bytes) # MessageSize
  <2> DEFINE more == Append(bytes, d + 1)
             i0 == bytes[1]
  <2>1. b # "clock" /\ b # "F0"
    BY <1>15
  <2>2. a = Assembly(b # "F7", more, b = "F7")
    BY <1>15, <2>1, Zenon DEF Collected
  <2>3. a.in = (b # "F7") /\ a.bytes = more /\ a.complete = (b = "F7")
    BY <2>2 DEF Assembly
  <2>4. /\ bytes # <<>> /\ Len(bytes) \in Nat /\ Len(bytes) < MessageSize
        /\ i0 \in Nat /\ Open(sent, low, i0, d) /\ i0 <= d /\ i0 <= d + 1
        /\ InOrder(bytes, LineIn(sent, i0, d))
        /\ Cardinality(LineIn(sent, i0, d)) = Len(bytes)
        /\ \A i \in Nat : Open(sent, low, i, d) => i = i0
    <3>1. i0 <= d /\ i0 <= d + 1
      BY <1>5, <1>8, <1>15, Zenon
    <3>2. Len(bytes) < MessageSize
      <4>1. Len(bytes) \in Nat /\ Len(bytes) <= MessageSize /\ Len(bytes) # MessageSize
        BY <1>8, <1>15, Zenon
      <4>2. QED
        BY <4>1
    <3>3. QED
      BY <1>8, <1>15, <3>1, <3>2, Zenon
  <2>5. /\ LineIn(sent, i0, d + 1) = LineIn(sent, i0, d) \cup {d + 1}
        /\ Cardinality(LineIn(sent, i0, d + 1)) = Len(bytes) + 1
    BY <1>4, <2>1, <2>4, Zenon
  <2>6. \A k \in LineIn(sent, i0, d) : k <= d
    BY <1>4, <2>4, Zenon
  <2>7. /\ more \in Seq(Nat) /\ Len(more) = Len(bytes) + 1
        /\ more[Len(bytes) + 1] = d + 1 /\ more[1] = i0
        /\ InOrder(more, LineIn(sent, i0, d) \cup {d + 1})
    <3> DEFINE line == LineIn(sent, i0, d)
    <3>1. InOrder(bytes, line) /\ \A k \in line : k <= d
      BY <2>4, <2>6, Zenon
    <3> HIDE DEF line, i0, TakenAsSent
    <3>2. /\ more \in Seq(Nat) /\ Len(more) = Len(bytes) + 1
          /\ more[Len(bytes) + 1] = d + 1 /\ more[1] = bytes[1]
          /\ InOrder(more, line \cup {d + 1})
      BY <1>7, <2>4, <3>1, OrderGrows, Zenon
    <3>3. QED
      BY <3>2, Zenon DEF line, i0
  <2> HIDE DEF more, i0
  <2>8. more # <<>> /\ Len(more) <= MessageSize
    <3>1. more \in Seq(Nat) /\ Len(more) = Len(bytes) + 1 /\ Len(bytes) \in Nat
          /\ Len(bytes) < MessageSize
      BY <2>4, <2>7, Zenon
    <3>2. Len(more) # 0 /\ Len(more) <= MessageSize
      BY <3>1
    <3>3. Len(<<>>) = 0
      OBVIOUS
    <3>4. QED
      BY <3>2, <3>3, Zenon
  <2>9. InOrder(more, LineIn(sent, i0, d + 1))
    BY <2>5, <2>7, Zenon
  <2>10. CASE b = "data"
    <3>1. Open(sent, low, i0, d + 1)
      BY <2>4, <2>10, OpenBefore, Zenon
    <3>2. Assembled(sent, low, d + 1, TRUE, more)
      BY <2>5, <2>7, <2>8, <2>9, <3>1, Zenon DEF Assembled
    <3>3. a.in = TRUE /\ a.complete = FALSE
      BY <2>3, <2>10
    <3>4. \A i \in Nat : ~MessageIn(sent, low, i, d + 1)
      BY <1>3, <2>10
    <3>5. QED
      BY <1>15, <2>3, <2>7, <3>2, <3>3, <3>4, Zenon DEF i0
  <2>11. CASE b = "F7"
    <3>1. a.in = FALSE /\ a.complete = TRUE
      BY <2>3, <2>11
    <3>2. First(more) = i0 /\ Final(more) = d + 1
      BY <2>7, Zenon DEF First, Final
    <3>3. MessageIn(sent, low, i0, d + 1)
      <4>1. i0 < d + 1 /\ (d + 1) - 1 = d /\ Cardinality(LineIn(sent, i0, d + 1)) <= MessageSize
        BY <2>4, <2>5
      <4>2. QED
        BY <2>4, <2>11, <4>1, Zenon DEF MessageIn, Open
    <3>4. Assembled(sent, low, d + 1, FALSE, <<>>)
      <4>1. \A i \in Nat : ~Open(sent, low, i, d + 1)
        BY <1>2, <2>11
      <4>2. <<>> \in Seq(Nat)
        OBVIOUS
      <4>3. QED
        BY <4>1, <4>2, Zenon DEF Assembled
    <3>5. \A i \in Nat : MessageIn(sent, low, i, d + 1) => i = i0
      BY <1>3, <2>4, Zenon
    <3>6. QED
      BY <1>15, <2>3, <2>7, <2>8, <2>9, <3>1, <3>2, <3>3, <3>4, <3>5, Zenon DEF i0
  <2>12. QED
    BY <1>15, <2>10, <2>11
<1>16. QED
  BY <1>1, <1>12, <1>13, <1>14, <1>15

-------------------------------------------------------------------------------
(* The steps. *)

LEMMA MidiOutStarts == MidiOutAssumption /\ MidiOutInit => MidiOutInv
<1> SUFFICES ASSUME MidiOutAssumption, MidiOutInit
             PROVE  MidiOutInv
  OBVIOUS
<1>1. /\ midiTx = <<>> /\ sent = <<>> /\ outputSysEx = <<>> /\ delivered = <<>>
      /\ since = 0 /\ outputInSysEx = FALSE /\ refused = FALSE /\ collecting = FALSE
      /\ count = 0
  BY Zenon DEF MidiOutInit
<1>2. {TxSize, MessageSize, Room, MaxSent} \subseteq Nat
  BY Zenon DEF MidiOutAssumption
<1>3. /\ <<>> \in Seq(Nat) /\ <<>> \in Seq(OutByte) /\ <<>> \in Seq(Seq(Nat))
      /\ Len(<<>>) = 0 /\ DOMAIN <<>> = {} /\ 0 - 0 = 0 /\ 0 \in 0 .. 0 /\ 0 <= 0
      /\ 0 <= TxSize /\ 0 <= MessageSize /\ 0 \in 0 .. Room
  BY <1>2
<1>4. MidiOutTypeOK
  BY <1>1, <1>3, Zenon DEF MidiOutTypeOK
<1>5. Drained = 0
  BY <1>1, <1>3, Zenon DEF Drained
<1>6. \A i \in Nat : ~Open(<<>>, 0, i, 0)
  BY DEF Open
<1>7. \A i, j \in Nat : ~MessageIn(<<>>, 0, i, j)
  BY <1>3 DEF MessageIn
<1>8. Assembled(sent, since, Drained, outputInSysEx, outputSysEx)
  BY <1>1, <1>3, <1>5, <1>6, Zenon DEF Assembled
<1>9. Given(sent, since, Drained, delivered) /\ AllGiven(sent, since, Drained, delivered)
  BY <1>1, <1>3, <1>5, <1>7, Zenon DEF Given, AllGiven
<1>10. QED
  BY <1>1, <1>3, <1>4, <1>5, <1>8, <1>9, Zenon DEF MidiOutInv

\* What was sent does not change by what is sent after it.
LEMMA StreamGrows ==
    ASSUME NEW s \in Seq(OutByte), NEW b, NEW low \in Nat, NEW d \in Nat, d <= Len(s),
           NEW i \in Nat, i > low
    PROVE  /\ \A j \in Nat : j <= d => LineIn(Append(s, b), i, j) = LineIn(s, i, j)
           /\ Open(Append(s, b), low, i, d) <=> Open(s, low, i, d)
           /\ \A j \in Nat : j <= d =>
                 (MessageIn(Append(s, b), low, i, j) <=> MessageIn(s, low, i, j))
<1> DEFINE t == Append(s, b)
<1>1. /\ \A k \in Nat : k >= 1 /\ k <= d => t[k] = s[k]
      /\ Len(t) = Len(s) + 1 /\ Len(s) \in Nat
  OBVIOUS
<1> HIDE DEF t
<1>2. ASSUME NEW j \in Nat, j <= d
      PROVE  /\ LineIn(t, i, j) = LineIn(s, i, j)
             /\ \A k \in i .. j : t[k] = s[k]
             /\ \A k \in i + 1 .. j : t[k] = s[k]
             /\ \A k \in i + 1 .. j - 1 : t[k] = s[k]
  <2>1. \A k \in i .. j : t[k] = s[k]
    BY <1>1, <1>2
  <2>2. /\ \A k \in i + 1 .. j : k \in i .. j
        /\ \A k \in i + 1 .. j - 1 : k \in i .. j
    BY <1>2
  <2>3. LineIn(t, i, j) = LineIn(s, i, j)
    <3>1. \A k : k \in LineIn(t, i, j) <=> k \in LineIn(s, i, j)
      BY <2>1, Zenon DEF LineIn
    <3>2. QED
      BY <3>1, Zenon
  <2>4. QED
    BY <2>1, <2>2, <2>3, Zenon
<1>3. Open(t, low, i, d) <=> Open(s, low, i, d)
  <2>1. i <= d => i \in i .. d
    OBVIOUS
  <2>2. d <= d
    OBVIOUS
  <2>3. QED
    BY <1>2, <2>1, <2>2, Zenon DEF Open
<1>4. ASSUME NEW j \in Nat, j <= d
      PROVE  MessageIn(t, low, i, j) <=> MessageIn(s, low, i, j)
  <2>1. /\ j <= Len(t) /\ j <= Len(s)
        /\ i < j => i \in i .. j /\ j \in i .. j
    BY <1>1, <1>4
  <2>2. QED
    BY <1>2, <1>4, <2>1, Zenon DEF MessageIn
<1>5. QED
  BY <1>2, <1>3, <1>4, Zenon DEF t

LEMMA WriteKeeps ==
    ASSUME MidiOutAssumption, MidiOutInv, NEW b \in OutByte, WriteThra(b)
    PROVE  MidiOutInv'
<1>1. /\ midiTx \in Seq(Nat) /\ outputSysEx \in Seq(Nat) /\ sent \in Seq(OutByte)
      /\ since \in 0 .. Len(sent) /\ Len(midiTx) <= Len(sent) /\ since <= Drained
      /\ \A k \in DOMAIN midiTx : midiTx[k] = Drained + k
      /\ delivered \in Seq(Seq(Nat))
      /\ collecting \in BOOLEAN /\ outputInSysEx \in BOOLEAN /\ refused \in BOOLEAN
      /\ count \in 0 .. Room /\ Len(outputSysEx) <= MessageSize
  BY Zenon DEF MidiOutInv, MidiOutTypeOK
<1>2. /\ Assembled(sent, since, Drained, outputInSysEx, outputSysEx)
      /\ Given(sent, since, Drained, delivered)
      /\ outputInSysEx =>
            \A n \in DOMAIN delivered : Final(delivered[n]) < outputSysEx[1]
      /\ ~refused => AllGiven(sent, since, Drained, delivered)
  BY Zenon DEF MidiOutInv
<1>3. /\ ~collecting /\ Len(midiTx) < TxSize
      /\ sent' = Append(sent, b) /\ midiTx' = Append(midiTx, Len(sent) + 1)
      /\ collecting' = collecting /\ outputSysEx' = outputSysEx
      /\ outputInSysEx' = outputInSysEx /\ count' = count /\ since' = since
      /\ delivered' = delivered /\ refused' = refused
  BY Zenon DEF WriteThra
<1>4. TxSize \in Nat
  BY DEF MidiOutAssumption
<1>5. /\ sent' \in Seq(OutByte) /\ Len(sent') = Len(sent) + 1
      /\ midiTx' \in Seq(Nat) /\ Len(midiTx') = Len(midiTx) + 1
      /\ since' \in 0 .. Len(sent') /\ Len(midiTx') <= TxSize
      /\ Len(midiTx') <= Len(sent')
  BY <1>1, <1>3, <1>4
<1>6. Drained' = Drained /\ Drained \in Nat /\ Drained <= Len(sent) /\ since \in Nat
  BY <1>1, <1>3, <1>5 DEF Drained
<1>7. \A k \in DOMAIN midiTx' : midiTx'[k] = Drained + k
  <2> SUFFICES ASSUME NEW k \in DOMAIN midiTx'
               PROVE  midiTx'[k] = Drained + k
    OBVIOUS
  <2>1. k \in DOMAIN midiTx \/ k = Len(midiTx) + 1
    <3>1. k \in 1 .. Len(midiTx) + 1 /\ Len(midiTx) \in Nat
      BY <1>1, <1>3
    <3>2. DOMAIN midiTx = 1 .. Len(midiTx)
      BY <1>1
    <3>3. QED
      BY <3>1, <3>2
  <2>2. k \in DOMAIN midiTx => midiTx'[k] = midiTx[k]
    BY <1>1, <1>3
  <2>3. k = Len(midiTx) + 1 => midiTx'[k] = Len(sent) + 1
    BY <1>1, <1>3
  <2>4. Drained + (Len(midiTx) + 1) = Len(sent) + 1
    BY <1>1 DEF Drained
  <2>5. QED
    BY <1>1, <2>1, <2>2, <2>3, <2>4, Zenon
<1>8. \A i \in Nat : i > since =>
          /\ \A j \in Nat : j <= Drained => LineIn(sent', i, j) = LineIn(sent, i, j)
          /\ Open(sent', since, i, Drained) <=> Open(sent, since, i, Drained)
          /\ \A j \in Nat : j <= Drained =>
                (MessageIn(sent', since, i, j) <=> MessageIn(sent, since, i, j))
  <2> SUFFICES ASSUME NEW i \in Nat, i > since
               PROVE
          /\ \A j \in Nat : j <= Drained => LineIn(sent', i, j) = LineIn(sent, i, j)
          /\ Open(sent', since, i, Drained) <=> Open(sent, since, i, Drained)
          /\ \A j \in Nat : j <= Drained =>
                (MessageIn(sent', since, i, j) <=> MessageIn(sent, since, i, j))
    BY Zenon
  <2>1. \A d \in Nat : d <= Len(sent) =>
          /\ \A j \in Nat : j <= d => LineIn(Append(sent, b), i, j) = LineIn(sent, i, j)
          /\ Open(Append(sent, b), since, i, d) <=> Open(sent, since, i, d)
          /\ \A j \in Nat : j <= d =>
                (MessageIn(Append(sent, b), since, i, j) <=> MessageIn(sent, since, i, j))
    BY <1>1, <1>6, StreamGrows
  <2>2. QED
    BY <1>3, <1>6, <2>1, Zenon
<1>9. /\ \A i \in Nat : Open(sent, since, i, Drained) => i > since
      /\ \A i \in Nat : Open(sent', since, i, Drained) => i > since
      /\ \A i, j \in Nat : MessageIn(sent, since, i, j) => i > since
      /\ \A i, j \in Nat : MessageIn(sent', since, i, j) => i > since
  BY <1>6 DEF Open, MessageIn
<1>10. Drained <= Drained
  BY <1>6
<1>11. Assembled(sent', since, Drained, outputInSysEx, outputSysEx)
  <2>1. CASE outputInSysEx
    <3>1. /\ outputSysEx # <<>> /\ Open(sent, since, outputSysEx[1], Drained)
          /\ Len(outputSysEx) <= MessageSize
          /\ InOrder(outputSysEx, LineIn(sent, outputSysEx[1], Drained))
          /\ Cardinality(LineIn(sent, outputSysEx[1], Drained)) = Len(outputSysEx)
      BY <1>2, <2>1, Zenon DEF Assembled
    <3>2. outputSysEx[1] \in Nat
      BY <1>1, <3>1
    <3>3. /\ LineIn(sent', outputSysEx[1], Drained) = LineIn(sent, outputSysEx[1], Drained)
          /\ Open(sent', since, outputSysEx[1], Drained)
      BY <1>6, <1>8, <1>9, <1>10, <3>1, <3>2, Zenon
    <3>4. QED
      BY <1>1, <2>1, <3>1, <3>3, Zenon DEF Assembled
  <2>2. CASE ~outputInSysEx
    <3>1. /\ outputSysEx = <<>>
          /\ \A i \in Nat : Open(sent, since, i, Drained) =>
                Cardinality(LineIn(sent, i, Drained)) > MessageSize
      BY <1>2, <2>2, Zenon DEF Assembled
    <3>2. ASSUME NEW i \in Nat, Open(sent', since, i, Drained)
          PROVE  Cardinality(LineIn(sent', i, Drained)) > MessageSize
      <4>1. i > since
        BY <1>9, <3>2, Zenon
      <4>2. Open(sent, since, i, Drained) /\ LineIn(sent', i, Drained) = LineIn(sent, i, Drained)
        BY <1>6, <1>8, <1>10, <3>2, <4>1, Zenon
      <4>3. QED
        BY <3>1, <4>2, Zenon
    <3>3. QED
      BY <1>1, <2>2, <3>1, <3>2, Zenon DEF Assembled
  <2>3. QED
    BY <2>1, <2>2
<1>12. Given(sent', since, Drained, delivered)
  <2> SUFFICES ASSUME NEW n \in DOMAIN delivered
               PROVE  LET i == First(delivered[n]) j == Final(delivered[n]) IN
                      MessageIn(sent', since, i, j) /\ LineIn(sent', i, j) = LineIn(sent, i, j)
    BY <1>2, Zenon DEF Given
  <2> DEFINE i == First(delivered[n])
             j == Final(delivered[n])
  <2>1. delivered[n] # <<>> /\ j <= Drained /\ MessageIn(sent, since, i, j)
    BY <1>2, Zenon DEF Given
  <2>2. i \in Nat /\ j \in Nat
    <3>1. delivered[n] \in Seq(Nat)
      BY <1>1
    <3>2. QED
      BY <2>1, <3>1 DEF First, Final
  <2> HIDE DEF i, j
  <2>3. i > since
    BY <1>9, <2>1, <2>2, Zenon
  <2>4. MessageIn(sent', since, i, j) /\ LineIn(sent', i, j) = LineIn(sent, i, j)
    BY <1>8, <2>1, <2>2, <2>3, Zenon
  <2>5. QED
    BY <2>4, Zenon DEF i, j
<1>13. ~refused => AllGiven(sent', since, Drained, delivered)
  <2> SUFFICES ASSUME ~refused, NEW i \in Nat, NEW j \in Nat,
                      MessageIn(sent', since, i, j), j <= Drained
               PROVE  \E n \in DOMAIN delivered : First(delivered[n]) = i
    BY Zenon DEF AllGiven
  <2>1. i > since
    BY <1>9, Zenon
  <2>2. MessageIn(sent, since, i, j)
    BY <1>8, <2>1, Zenon
  <2>3. QED
    BY <1>2, <2>2, Zenon DEF AllGiven
<1>14. MidiOutTypeOK'
  BY <1>1, <1>3, <1>5, Zenon DEF MidiOutTypeOK
<1>15. QED
  <2>1. collecting' => midiTx' # <<>>
    BY <1>3
  <2>2. since' <= Drained'
    BY <1>1, <1>3, <1>6, Zenon
  <2>3. \A k \in DOMAIN midiTx' : midiTx'[k] = Drained' + k
    BY <1>6, <1>7, Zenon
  <2>4. Assembled(sent', since', Drained', outputInSysEx', outputSysEx')
    BY <1>3, <1>6, <1>11, Zenon
  <2>5. /\ Given(sent', since', Drained', delivered')
        /\ ~refused' => AllGiven(sent', since', Drained', delivered')
        /\ outputInSysEx' =>
              \A n \in DOMAIN delivered' : Final(delivered'[n]) < outputSysEx'[1]
    BY <1>2, <1>3, <1>6, <1>12, <1>13, Zenon
  <2>6. QED
    BY <1>5, <1>14, <2>1, <2>2, <2>3, <2>4, <2>5, Zenon DEF MidiOutInv, Assembled,
       Given, AllGiven, Open, MessageIn, LineIn, InOrder, First, Final

LEMMA GivenLater ==
    ASSUME NEW low \in Nat, NEW d \in Nat, NEW messages \in Seq(Seq(Nat)),
           Given(sent, low, d, messages)
    PROVE  /\ Given(sent, low, d + 1, messages)
           /\ \A n \in DOMAIN messages :
                 /\ First(messages[n]) \in Nat /\ Final(messages[n]) \in Nat
                 /\ Final(messages[n]) < d + 1
<1>1. ASSUME NEW n \in DOMAIN messages
      PROVE  /\ First(messages[n]) \in Nat /\ Final(messages[n]) \in Nat
             /\ Final(messages[n]) < d + 1 /\ Final(messages[n]) <= d + 1
  <2>1. messages[n] \in Seq(Nat)
    OBVIOUS
  <2>2. messages[n] # <<>> /\ Final(messages[n]) <= d
    BY Zenon DEF Given
  <2>3. First(messages[n]) \in Nat /\ Final(messages[n]) \in Nat
    BY <2>1, <2>2 DEF First, Final
  <2>4. QED
    BY <2>2, <2>3
<1>2. QED
  BY <1>1, Zenon DEF Given

\* A message behind all others.
LEMMA GivenMore ==
    ASSUME NEW low \in Nat, NEW d \in Nat, NEW messages \in Seq(Seq(Nat)),
           Given(sent, low, d, messages),
           NEW message \in Seq(Nat), message # <<>>, Final(message) = d,
           MessageIn(sent, low, First(message), Final(message)),
           InOrder(message, LineIn(sent, First(message), Final(message))),
           \A n \in DOMAIN messages : Final(messages[n]) < First(message)
    PROVE  /\ Append(messages, message) \in Seq(Seq(Nat))
           /\ Given(sent, low, d, Append(messages, message))
           /\ \E n \in DOMAIN Append(messages, message) :
                 First(Append(messages, message)[n]) = First(message)
           /\ \A n \in DOMAIN messages :
                 /\ n \in DOMAIN Append(messages, message)
                 /\ Append(messages, message)[n] = messages[n]
<1> DEFINE more == Append(messages, message)
           L == Len(messages)
<1>1. /\ more \in Seq(Seq(Nat)) /\ L \in Nat /\ more[L + 1] = message
      /\ L + 1 \in DOMAIN more
      /\ \A n \in DOMAIN messages : n \in DOMAIN more /\ more[n] = messages[n]
      /\ \A n \in DOMAIN more : n \in Nat /\ (n \in DOMAIN messages \/ n = L + 1)
      /\ \A n \in DOMAIN messages : n <= L
  OBVIOUS
<1> HIDE DEF more, L
<1>2. ASSUME NEW n \in DOMAIN more
      PROVE  /\ more[n] # <<>> /\ Final(more[n]) <= d
             /\ MessageIn(sent, low, First(more[n]), Final(more[n]))
             /\ InOrder(more[n], LineIn(sent, First(more[n]), Final(more[n])))
  <2>1. CASE n \in DOMAIN messages
    BY <1>1, <2>1, Zenon DEF Given
  <2>2. CASE n = L + 1
    <3>1. d <= d
      OBVIOUS
    <3>2. QED
      BY <1>1, <2>2, <3>1, Zenon
  <2>3. QED
    BY <1>1, <2>1, <2>2, Zenon
<1>3. ASSUME NEW m \in DOMAIN more, NEW n \in DOMAIN more, m < n
      PROVE  Final(more[m]) < First(more[n])
  <2>1. m \in DOMAIN messages
    <3>1. m \in Nat /\ n \in Nat /\ L \in Nat /\ (n <= L \/ n = L + 1)
      BY <1>1, Zenon
    <3>2. m # L + 1
      BY <1>3, <3>1
    <3>3. QED
      BY <1>1, <3>2, Zenon
  <2>2. CASE n \in DOMAIN messages
    BY <1>1, <1>3, <2>1, <2>2, Zenon DEF Given
  <2>3. CASE n = L + 1
    BY <1>1, <2>1, <2>3, Zenon
  <2>4. QED
    BY <1>1, <2>2, <2>3, Zenon
<1>4. Given(sent, low, d, more)
  BY <1>2, <1>3, Zenon DEF Given
<1>5. QED
  BY <1>1, <1>4, Zenon DEF more

LEMMA CollectKeeps ==
    ASSUME MidiOutAssumption, MidiOutInv, CollectByte
    PROVE  MidiOutInv'
<1> DEFINE d == Drained
           a == Collected(outputInSysEx, outputSysEx, Head(midiTx))
           given == a.complete /\ count < Room
<1>1. /\ midiTx \in Seq(Nat) /\ outputSysEx \in Seq(Nat) /\ sent \in Seq(OutByte)
      /\ since \in 0 .. Len(sent) /\ Len(midiTx) <= Len(sent) /\ since <= d
      /\ \A k \in DOMAIN midiTx : midiTx[k] = d + k
      /\ delivered \in Seq(Seq(Nat)) /\ Len(midiTx) <= TxSize
      /\ collecting \in BOOLEAN /\ outputInSysEx \in BOOLEAN /\ refused \in BOOLEAN
      /\ count \in 0 .. Room /\ midiTx # <<>>
  BY Zenon DEF MidiOutInv, MidiOutTypeOK, CollectByte
<1>2. /\ Assembled(sent, since, d, outputInSysEx, outputSysEx)
      /\ Given(sent, since, d, delivered)
      /\ outputInSysEx =>
            \A n \in DOMAIN delivered : Final(delivered[n]) < outputSysEx[1]
      /\ ~refused => AllGiven(sent, since, d, delivered)
  BY Zenon DEF MidiOutInv
<1>3. /\ midiTx' = Tail(midiTx) /\ collecting' = (Tail(midiTx) # <<>>)
      /\ outputInSysEx' = a.in
      /\ outputSysEx' = IF a.complete THEN <<>> ELSE a.bytes
      /\ delivered' = IF given THEN Append(delivered, a.bytes) ELSE delivered
      /\ count' = IF given THEN count + 1 ELSE count
      /\ refused' = (refused \/ (a.complete /\ ~given))
      /\ sent' = sent /\ since' = since
  BY Zenon DEF CollectByte
<1>4. TxSize \in Nat /\ Room \in Nat /\ MessageSize \in Nat /\ MessageSize > 0
  BY DEF MidiOutAssumption
<1>5. /\ midiTx' \in Seq(Nat) /\ Len(midiTx') = Len(midiTx) - 1
      /\ Len(midiTx') <= TxSize /\ Len(midiTx') <= Len(sent)
      /\ Len(midiTx) \in Nat /\ Len(sent) \in Nat
      /\ \A k \in DOMAIN midiTx' : k + 1 \in DOMAIN midiTx /\ midiTx'[k] = midiTx[k + 1]
      /\ 1 \in DOMAIN midiTx /\ Head(midiTx) = midiTx[1]
      /\ \A k \in DOMAIN midiTx' : k \in Nat
  <2>1. midiTx \in Seq(Nat) /\ midiTx # <<>> /\ Len(midiTx) <= TxSize
        /\ Len(midiTx) <= Len(sent) /\ sent \in Seq(OutByte) /\ midiTx' = Tail(midiTx)
    BY <1>1, <1>3, Zenon
  <2>2. /\ midiTx' \in Seq(Nat) /\ Len(midiTx') = Len(midiTx) - 1
        /\ 1 \in DOMAIN midiTx /\ Head(midiTx) = midiTx[1]
        /\ \A k \in DOMAIN midiTx' : k \in Nat /\ k + 1 \in DOMAIN midiTx
        /\ Len(midiTx) \in Nat /\ Len(sent) \in Nat
    BY <2>1
  <2>3. \A k \in DOMAIN midiTx' : midiTx'[k] = midiTx[k + 1]
    BY <2>1
  <2>4. Len(midiTx') <= TxSize /\ Len(midiTx') <= Len(sent)
    BY <1>4, <2>1, <2>2
  <2>5. QED
    BY <2>2, <2>3, <2>4, Zenon
<1>6. /\ d \in Nat /\ d + 1 <= Len(sent) /\ Drained' = d + 1 /\ since \in Nat
      /\ since <= d + 1
  <2>1. d \in Nat /\ d + 1 <= Len(sent) /\ Len(midiTx) > 0
    BY <1>1, <1>5 DEF Drained
  <2>2. Len(sent) - (Len(midiTx) - 1) = (Len(sent) - Len(midiTx)) + 1
    BY <1>5
  <2>3. Drained' = Len(sent) - (Len(midiTx) - 1)
    BY <1>3, <1>5, Zenon DEF Drained
  <2>4. QED
    BY <1>1, <2>1, <2>2, <2>3 DEF Drained
<1>7. Head(midiTx) = d + 1
  BY <1>1, <1>5, Zenon
<1>8. \A k \in DOMAIN midiTx' : midiTx'[k] = Drained' + k
  <2> SUFFICES ASSUME NEW k \in DOMAIN midiTx'
               PROVE  midiTx'[k] = Drained' + k
    OBVIOUS
  <2>1. midiTx'[k] = d + (k + 1) /\ k \in Nat
    BY <1>1, <1>5, Zenon
  <2>2. QED
    BY <1>6, <2>1
<1>9. a = Collected(outputInSysEx, outputSysEx, d + 1)
  BY <1>7, Zenon
<1> HIDE DEF d, a
<1>10. /\ a.in \in BOOLEAN /\ a.complete \in BOOLEAN
       /\ a.complete =>
             /\ outputInSysEx /\ ~a.in /\ a.bytes # <<>>
             /\ First(a.bytes) = outputSysEx[1] /\ Final(a.bytes) = d + 1
             /\ a.bytes \in Seq(Nat)
             /\ MessageIn(sent, since, First(a.bytes), d + 1)
             /\ InOrder(a.bytes, LineIn(sent, First(a.bytes), d + 1))
             /\ Assembled(sent, since, d + 1, FALSE, <<>>)
       /\ ~a.complete =>
             /\ Assembled(sent, since, d + 1, a.in, a.bytes)
             /\ a.in => a.bytes[1] = d + 1 \/ (outputInSysEx /\ a.bytes[1] = outputSysEx[1])
       /\ \A i \in Nat : MessageIn(sent, since, i, d + 1) =>
             a.complete /\ i = First(a.bytes)
  <2>1. TakenAsSent(since, d, outputInSysEx, outputSysEx, a)
    BY <1>1, <1>2, <1>4, <1>6, <1>9, ByteTaken, Zenon
  <2>2. QED
    BY <2>1, Zenon DEF TakenAsSent
<1>11. /\ Given(sent, since, d + 1, delivered)
       /\ \A n \in DOMAIN delivered : Final(delivered[n]) < d + 1
  BY <1>1, <1>2, <1>6, GivenLater
<1>12. \A j \in Nat : j <= d + 1 => j <= d \/ j = d + 1
  BY <1>6
<1>13. outputInSysEx' \in BOOLEAN /\ Assembled(sent, since, d + 1, outputInSysEx', outputSysEx')
  <2>1. CASE a.complete
    BY <1>3, <1>10, <2>1, Zenon
  <2>2. CASE ~a.complete
    BY <1>3, <1>10, <2>2, Zenon
  <2>3. QED
    BY <2>1, <2>2
<1>14. outputSysEx' \in Seq(Nat) /\ Len(outputSysEx') <= MessageSize
  <2>1. Len(<<>>) <= MessageSize
    BY <1>4
  <2>2. QED
    BY <1>13, <2>1, Zenon DEF Assembled
<1>15. count' \in 0 .. Room
  <2>1. count < Room => count + 1 \in 0 .. Room
    BY <1>1, <1>4
  <2>2. QED
    BY <1>1, <1>3, <2>1, Zenon
<1>16. /\ delivered' \in Seq(Seq(Nat)) /\ Given(sent, since, d + 1, delivered')
       /\ ~refused' => AllGiven(sent, since, d + 1, delivered')
  <2>1. CASE given
    <3>1. a.complete /\ delivered' = Append(delivered, a.bytes) /\ (~refused' => ~refused)
      BY <1>3, <2>1, Zenon
    <3>2. /\ a.bytes \in Seq(Nat) /\ a.bytes # <<>> /\ Final(a.bytes) = d + 1
          /\ MessageIn(sent, since, First(a.bytes), Final(a.bytes))
          /\ InOrder(a.bytes, LineIn(sent, First(a.bytes), Final(a.bytes)))
          /\ \A n \in DOMAIN delivered : Final(delivered[n]) < First(a.bytes)
      BY <1>2, <1>10, <3>1, Zenon
    <3>3. d + 1 \in Nat
      BY <1>6
    <3>4. /\ Append(delivered, a.bytes) \in Seq(Seq(Nat))
          /\ Given(sent, since, d + 1, Append(delivered, a.bytes))
          /\ \E n \in DOMAIN Append(delivered, a.bytes) :
                First(Append(delivered, a.bytes)[n]) = First(a.bytes)
          /\ \A n \in DOMAIN delivered :
                /\ n \in DOMAIN Append(delivered, a.bytes)
                /\ Append(delivered, a.bytes)[n] = delivered[n]
      <4> DEFINE message == a.bytes
      <4>1. message \in Seq(Nat) /\ message # <<>> /\ Final(message) = d + 1
        BY <3>2, Zenon
      <4>2. MessageIn(sent, since, First(message), Final(message))
        BY <3>2, Zenon
      <4>3. InOrder(message, LineIn(sent, First(message), Final(message)))
        BY <3>2, Zenon
      <4>4. \A n \in DOMAIN delivered : Final(delivered[n]) < First(message)
        BY <3>2, Zenon
      <4>5. delivered \in Seq(Seq(Nat)) /\ Given(sent, since, d + 1, delivered)
        BY <1>1, <1>11, Zenon
      <4>6. since \in Nat
        BY <1>6, Zenon
      <4> HIDE DEF message
      <4>7. /\ Append(delivered, message) \in Seq(Seq(Nat))
            /\ Given(sent, since, d + 1, Append(delivered, message))
            /\ \E n \in DOMAIN Append(delivered, message) :
                  First(Append(delivered, message)[n]) = First(message)
            /\ \A n \in DOMAIN delivered :
                  /\ n \in DOMAIN Append(delivered, message)
                  /\ Append(delivered, message)[n] = delivered[n]
        BY <3>3, <4>1, <4>2, <4>3, <4>4, <4>5, <4>6, GivenMore
      <4>8. QED
        BY <4>7, Zenon DEF message
    <3>5. ASSUME ~refused', NEW i \in Nat, NEW j \in Nat,
                 MessageIn(sent, since, i, j), j <= d + 1
          PROVE  \E n \in DOMAIN delivered' : First(delivered'[n]) = i
      <4>1. CASE j = d + 1
        BY <1>10, <3>1, <3>4, <3>5, <4>1, Zenon
      <4>2. CASE j <= d
        <5>1. PICK n \in DOMAIN delivered : First(delivered[n]) = i
          BY <1>2, <3>1, <3>5, <4>2, Zenon DEF AllGiven
        <5>2. QED
          BY <3>1, <3>4, <5>1, Zenon
      <4>3. QED
        BY <1>12, <3>5, <4>1, <4>2, Zenon
    <3>6. QED
      BY <3>1, <3>4, <3>5, Zenon DEF AllGiven
  <2>2. CASE ~given
    <3>1. delivered' = delivered /\ (~refused' => ~refused /\ ~a.complete)
      BY <1>3, <1>10, <2>2, Zenon
    <3>2. ASSUME ~refused', NEW i \in Nat, NEW j \in Nat,
                 MessageIn(sent, since, i, j), j <= d + 1
          PROVE  \E n \in DOMAIN delivered : First(delivered[n]) = i
      <4>1. j # d + 1
        BY <1>10, <3>1, <3>2, Zenon
      <4>2. j <= d
        BY <1>12, <3>2, <4>1, Zenon
      <4>3. QED
        BY <1>2, <3>1, <3>2, <4>2, Zenon DEF AllGiven
    <3>3. QED
      BY <1>1, <1>11, <3>1, <3>2, Zenon DEF AllGiven
  <2>3. QED
    BY <2>1, <2>2
<1>17. outputInSysEx' => \A n \in DOMAIN delivered' : Final(delivered'[n]) < outputSysEx'[1]
  <2> SUFFICES ASSUME outputInSysEx', NEW n \in DOMAIN delivered'
               PROVE  Final(delivered'[n]) < outputSysEx'[1]
    OBVIOUS
  <2>1. ~a.complete /\ a.in
    BY <1>3, <1>10, Zenon
  <2>2. delivered' = delivered /\ outputSysEx' = a.bytes
    BY <1>3, <2>1, Zenon
  <2>3. QED
    BY <1>2, <1>10, <1>11, <2>1, <2>2, Zenon
<1>18. MidiOutTypeOK'
  <2>1. collecting' \in BOOLEAN /\ refused' \in BOOLEAN
    BY <1>3
  <2>2. since' \in 0 .. Len(sent') /\ sent' \in Seq(OutByte)
    BY <1>1, <1>3, Zenon
  <2>3. QED
    BY <1>5, <1>13, <1>14, <1>15, <1>16, <2>1, <2>2, Zenon DEF MidiOutTypeOK
<1>19. QED
  <2>1. Assembled(sent', since', Drained', outputInSysEx', outputSysEx')
    BY <1>3, <1>6, <1>13, Zenon
  <2>2. /\ Given(sent', since', Drained', delivered')
        /\ ~refused' => AllGiven(sent', since', Drained', delivered')
    BY <1>3, <1>6, <1>16, Zenon
  <2>3. Len(midiTx') <= Len(sent') /\ since' <= Drained' /\ (collecting' => midiTx' # <<>>)
    BY <1>3, <1>5, <1>6, Zenon
  <2>4. QED
    BY <1>8, <1>17, <1>18, <2>1, <2>2, <2>3, Zenon DEF MidiOutInv, Assembled,
       Given, AllGiven, Open, MessageIn, LineIn, InOrder, First, Final

\* Where nothing a message is made of has changed.
LEMMA OthersKeep ==
    ASSUME MidiOutAssumption, MidiOutInv,
           BeginCollect \/ NextBlock \/ UNCHANGED midiOutVars
    PROVE  MidiOutInv'
<1>1. /\ midiTx' = midiTx /\ outputSysEx' = outputSysEx /\ outputInSysEx' = outputInSysEx
      /\ sent' = sent /\ since' = since /\ delivered' = delivered /\ refused' = refused
      /\ collecting' \in BOOLEAN
      /\ collecting' => midiTx # <<>>
      /\ count' = count \/ count' = 0
  <2>1. MidiOutInv => (collecting => midiTx # <<>>) /\ collecting \in BOOLEAN
    BY Zenon DEF MidiOutInv, MidiOutTypeOK
  <2>2. CASE BeginCollect
    BY <2>2 DEF BeginCollect
  <2>3. CASE NextBlock
    BY <2>1, <2>3, Zenon DEF NextBlock
  <2>4. CASE UNCHANGED midiOutVars
    <3>1. /\ midiTx' = midiTx /\ outputSysEx' = outputSysEx
          /\ outputInSysEx' = outputInSysEx /\ sent' = sent /\ since' = since
          /\ delivered' = delivered /\ refused' = refused /\ collecting' = collecting
          /\ count' = count
      BY <2>4 DEF midiOutVars
    <3>2. QED
      BY <2>1, <3>1, Zenon
  <2>5. QED
    BY <2>2, <2>3, <2>4
<1>2. count' \in 0 .. Room
  <2>1. count \in 0 .. Room
    BY Zenon DEF MidiOutInv, MidiOutTypeOK
  <2>2. 0 \in 0 .. Room
    BY DEF MidiOutAssumption
  <2>3. QED
    BY <1>1, <2>1, <2>2, Zenon
<1>3. MidiOutTypeOK'
  BY <1>1, <1>2, Zenon DEF MidiOutInv, MidiOutTypeOK
<1>4. Drained' = Drained
  BY <1>1, Zenon DEF Drained
<1>5. /\ Assembled(sent', since', Drained', outputInSysEx', outputSysEx')
      /\ Given(sent', since', Drained', delivered')
      /\ ~refused' => AllGiven(sent', since', Drained', delivered')
      /\ outputInSysEx' =>
            \A n \in DOMAIN delivered' : Final(delivered'[n]) < outputSysEx'[1]
      /\ Len(midiTx') <= Len(sent') /\ since' <= Drained' /\ (collecting' => midiTx' # <<>>)
      /\ \A k \in DOMAIN midiTx' : midiTx'[k] = Drained' + k
  BY <1>1, <1>4, Zenon DEF MidiOutInv
<1>6. QED
  BY <1>3, <1>5, Zenon DEF MidiOutInv, Assembled, Given, AllGiven, Open, MessageIn,
     LineIn, InOrder, First, Final

LEMMA PrepareOutputKeeps ==
    ASSUME MidiOutAssumption, MidiOutInv, PrepareOutput
    PROVE  MidiOutInv'
<1>1. /\ midiTx \in Seq(Nat) /\ sent \in Seq(OutByte) /\ Len(midiTx) <= Len(sent)
      /\ Len(midiTx) <= TxSize /\ count \in 0 .. Room
      /\ \A k \in DOMAIN midiTx : midiTx[k] = Drained + k
  BY Zenon DEF MidiOutInv, MidiOutTypeOK
<1>2. /\ ~collecting /\ outputSysEx' = <<>> /\ outputInSysEx' = FALSE
      /\ since' = Drained /\ delivered' = <<>> /\ refused' = FALSE
      /\ midiTx' = midiTx /\ collecting' = collecting /\ count' = count /\ sent' = sent
  BY Zenon DEF PrepareOutput, Drained
<1>3. Drained' = Drained
  BY <1>2, Zenon DEF Drained
<1>4. Drained \in Nat /\ Drained \in 0 .. Len(sent) /\ Drained <= Drained
  BY <1>1 DEF Drained
<1>5. /\ <<>> \in Seq(Nat) /\ <<>> \in Seq(Seq(Nat)) /\ Len(<<>>) <= MessageSize
      /\ DOMAIN <<>> = {} /\ FALSE \in BOOLEAN
  BY DEF MidiOutAssumption
<1>6. MidiOutTypeOK'
  <2>1. collecting' \in BOOLEAN
    BY <1>2, Zenon DEF MidiOutInv, MidiOutTypeOK
  <2>2. QED
    BY <1>1, <1>2, <1>4, <1>5, <2>1, Zenon DEF MidiOutTypeOK
<1>7. \A i \in Nat : ~Open(sent, Drained, i, Drained)
  BY <1>4 DEF Open
<1>8. \A i, j \in Nat : j <= Drained => ~MessageIn(sent, Drained, i, j)
  BY <1>4 DEF MessageIn
<1>9. Assembled(sent, Drained, Drained, FALSE, <<>>)
  BY <1>5, <1>7, Zenon DEF Assembled
<1>10. /\ Given(sent, Drained, Drained, <<>>)
       /\ AllGiven(sent, Drained, Drained, <<>>)
  BY <1>5, <1>8, Zenon DEF Given, AllGiven
<1>11. QED
  <2>1. /\ Assembled(sent', since', Drained', outputInSysEx', outputSysEx')
        /\ Given(sent', since', Drained', delivered')
        /\ AllGiven(sent', since', Drained', delivered')
    BY <1>2, <1>3, <1>9, <1>10, Zenon
  <2>2. /\ Len(midiTx') <= Len(sent') /\ since' <= Drained' /\ ~collecting'
        /\ \A k \in DOMAIN midiTx' : midiTx'[k] = Drained' + k
    BY <1>1, <1>2, <1>3, <1>4, Zenon
  <2>3. QED
    BY <1>2, <1>6, <2>1, <2>2, Zenon DEF MidiOutInv, Assembled, Given, AllGiven, Open,
       MessageIn, LineIn, InOrder, First, Final

LEMMA MidiOutInvMeans ==
    ASSUME MidiOutInv
    PROVE  MidiOutTypeOK /\ DeliveredAsSent
<1>1. /\ MidiOutTypeOK /\ midiTx \in Seq(Nat) /\ sent \in Seq(OutByte)
      /\ Given(sent, since, Drained, delivered)
      /\ ~refused => AllGiven(sent, since, Drained, delivered)
  BY Zenon DEF MidiOutInv, MidiOutTypeOK
<1>2. ASSUME midiTx = <<>>, ~refused, NEW i \in DOMAIN sent, NEW j \in DOMAIN sent,
             IsMessage(i, j)
      PROVE  \E n \in DOMAIN delivered : First(delivered[n]) = i
  <2>1. i \in Nat /\ j \in Nat /\ j <= Len(sent) /\ Drained = Len(sent)
    BY <1>1, <1>2 DEF Drained
  <2>2. MessageIn(sent, since, i, j)
    BY <1>2, Zenon DEF IsMessage, MessageIn, Line, LineIn
  <2>3. QED
    BY <1>1, <1>2, <2>1, <2>2, Zenon DEF AllGiven
<1>3. ASSUME NEW n \in DOMAIN delivered
      PROVE  /\ delivered[n] # <<>>
             /\ IsMessage(First(delivered[n]), Final(delivered[n]))
             /\ InOrder(delivered[n], Line(First(delivered[n]), Final(delivered[n])))
  <2> DEFINE i == First(delivered[n])
             j == Final(delivered[n])
  <2>1. delivered[n] # <<>> /\ MessageIn(sent, since, i, j)
        /\ InOrder(delivered[n], LineIn(sent, i, j))
    BY <1>1, Zenon DEF Given
  <2> HIDE DEF i, j
  <2>2. Line(i, j) = LineIn(sent, i, j)
    BY Zenon DEF Line, LineIn
  <2>3. IsMessage(i, j)
    BY <2>1, <2>2, Zenon DEF IsMessage, MessageIn
  <2>4. QED
    BY <2>1, <2>2, <2>3, Zenon DEF i, j
<1>4. \A m, n \in DOMAIN delivered : m < n => Final(delivered[m]) < First(delivered[n])
  BY <1>1, Zenon DEF Given
<1>5. QED
  BY <1>1, <1>2, <1>3, <1>4, Zenon DEF DeliveredAsSent

\* The host gets each SysEx message of the EPS once, whole and in order, whatever
\* the sizes of the buffers and however long the EPS sends.
THEOREM MessagesDelivered ==
    MidiOutAssumption => (MidiOutSpec => [](MidiOutTypeOK /\ DeliveredAsSent))
<1> SUFFICES ASSUME MidiOutAssumption
             PROVE  MidiOutSpec => [](MidiOutTypeOK /\ DeliveredAsSent)
  OBVIOUS
<1>1. MidiOutInit => MidiOutInv
  BY MidiOutStarts
<1>2. MidiOutInv /\ [MidiOutNext]_midiOutVars => MidiOutInv'
  <2> SUFFICES ASSUME MidiOutInv, [MidiOutNext]_midiOutVars
               PROVE  MidiOutInv'
    OBVIOUS
  <2>1. CASE \E b \in OutByte : WriteThra(b)
    BY <2>1, WriteKeeps
  <2>2. CASE CollectByte
    BY <2>2, CollectKeeps
  <2>3. CASE BeginCollect \/ NextBlock \/ UNCHANGED midiOutVars
    BY <2>3, OthersKeep
  <2>4. CASE PrepareOutput
    BY <2>4, PrepareOutputKeeps
  <2>5. QED
    BY <2>1, <2>2, <2>3, <2>4, Zenon DEF MidiOutNext
<1>3. MidiOutInv => MidiOutTypeOK /\ DeliveredAsSent
  BY MidiOutInvMeans
<1>4. QED
  BY <1>1, <1>2, <1>3, PTL DEF MidiOutSpec
================================================================================
