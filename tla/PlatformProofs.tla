--------------------------- MODULE PlatformProofs ---------------------------
(***************************************************************************)
(* Theorems about Platform, for any number of services, modes, faults and  *)
(* restarts, and for rings of any size.                                    *)
(***************************************************************************)
EXTENDS Platform, SequenceTheorems, TLAPS

-----------------------------------------------------------------------------
(***************************************************************************)
(* The rings.  A bucket is named by how far it is behind the cursor; when  *)
(* the cursor moves on, the buckets move back by as much.                  *)
(***************************************************************************)
Slot(c, i) == (c + i) % Buckets

Places == 0 .. Buckets - 1

Rings == [start : Nat, cursor : Places, buckets : [Places -> Nat]]

\* A ring whose row, oldest first, is what f says of the hours.
Tells(ring, f) == \A i \in 1 .. Buckets : ring.buckets[Slot(ring.cursor, i)] = f[HourOf(ring, i)]

LEMMA SlotIs ==
  ASSUME NEW c \in Places, NEW i \in 0 .. Buckets
  PROVE  /\ Slot(c, i) \in Places
         /\ Slot(c, i) = IF c + i < Buckets THEN c + i ELSE c + i - Buckets
<1>1. \A x \in 0 .. Buckets - 1 : x % Buckets = x
  BY RingsAssumption
<1>2. \A x \in Buckets .. 2 * Buckets - 1 : x % Buckets = x - Buckets
  BY RingsAssumption
<1> QED BY <1>1, <1>2, RingsAssumption DEF Slot, Places

LEMMA SlotsApart ==
  ASSUME NEW c \in Places, NEW i \in 1 .. Buckets, NEW j \in 1 .. Buckets, Slot(c, i) = Slot(c, j)
  PROVE  i = j
<1>1. Buckets \in Nat /\ i \in 0 .. Buckets /\ j \in 0 .. Buckets
  BY RingsAssumption
<1>2. /\ Slot(c, i) = IF c + i < Buckets THEN c + i ELSE c + i - Buckets
      /\ Slot(c, j) = IF c + j < Buckets THEN c + j ELSE c + j - Buckets
  BY <1>1, SlotIs
<1>3. \A x, y \in 1 .. Buckets :
        (IF c + x < Buckets THEN c + x ELSE c + x - Buckets) = (IF c + y < Buckets THEN c + y ELSE c + y - Buckets)
          => x = y
  BY <1>1 DEF Places
<1> QED BY <1>2, <1>3

LEMMA SlotsTurn ==
  ASSUME NEW c \in Places, NEW k \in 1 .. Buckets, NEW i \in 1 .. Buckets
  PROVE  Slot(Slot(c, k), i) = Slot(c, IF i + k <= Buckets THEN i + k ELSE i + k - Buckets)
<1> DEFINE j == IF i + k <= Buckets THEN i + k ELSE i + k - Buckets
<1>1. Buckets \in Nat /\ i \in 0 .. Buckets /\ k \in 0 .. Buckets /\ j \in 0 .. Buckets
  BY RingsAssumption
<1>2. PICK d \in Places : d = Slot(c, k) /\ d = IF c + k < Buckets THEN c + k ELSE c + k - Buckets
  BY <1>1, SlotIs
<1>3. Slot(d, i) = IF d + i < Buckets THEN d + i ELSE d + i - Buckets
  BY <1>1, SlotIs
<1>4. Slot(c, j) = IF c + j < Buckets THEN c + j ELSE c + j - Buckets
  BY <1>1, SlotIs
<1>5. Slot(d, i) = Slot(c, j)
  BY <1>1, <1>2, <1>3, <1>4 DEF Places
<1> QED BY <1>2, <1>5

\* The current hour is the last of the row.
LEMMA Now ==
  ASSUME NEW ring \in Rings
  PROVE  Slot(ring.cursor, Buckets) = ring.cursor /\ HourOf(ring, Buckets) = ring.start
<1>1. Buckets \in Nat \ {0} /\ Buckets \in 0 .. Buckets /\ ring.cursor \in Places /\ ring.start \in Nat
  BY RingsAssumption DEF Rings
<1>2. Slot(ring.cursor, Buckets)
        = IF ring.cursor + Buckets < Buckets THEN ring.cursor + Buckets ELSE ring.cursor + Buckets - Buckets
  BY <1>1, SlotIs
<1> QED BY <1>1, <1>2 DEF Places, HourOf

\* Advancing keeps what a ring tells, when nothing has happened since.
LEMMA AdvancedTells ==
  ASSUME NEW ring \in Rings, NEW at \in Nat, ring.start <= at, NEW f, Tells(ring, f),
         \A h \in Int : h > ring.start => f[h] = 0
  PROVE  Advanced(ring, at) \in Rings /\ Advanced(ring, at).start = at /\ Tells(Advanced(ring, at), f)
<1>0. Buckets \in Nat \ {0} /\ ring.start \in Nat /\ ring.cursor \in Places /\ DOMAIN ring.buckets = Places
  BY RingsAssumption DEF Rings
<1>1. CASE at = ring.start
  <2>1. Advanced(ring, at) = ring
    BY <1>0, <1>1 DEF Advanced
  <2> QED BY <1>1, <2>1
<1>2. CASE at > ring.start
  <2> DEFINE k == IF at - ring.start > Buckets THEN Buckets ELSE at - ring.start
             passed == {Slot(ring.cursor, i) : i \in 1 .. k}
  <2>1. k \in 1 .. Buckets /\ (k = at - ring.start \/ (k = Buckets /\ k < at - ring.start))
    BY <1>2, RingsAssumption DEF Rings
  <2>2. PICK new : new = [start |-> at, cursor |-> Slot(ring.cursor, k),
                          buckets |-> [i \in Places |-> IF i \in passed THEN 0 ELSE ring.buckets[i]]]
    OBVIOUS
  <2>3. Advanced(ring, at) = new
    BY <1>0, <1>2, <2>1, <2>2 DEF Advanced, Slot
  <2>4. new \in Rings
    BY <2>1, <2>2, SlotIs DEF Rings
  <2>5. ASSUME NEW i \in 1 .. Buckets
        PROVE  new.buckets[Slot(new.cursor, i)] = f[HourOf(new, i)]
    <3> DEFINE j == IF i + k <= Buckets THEN i + k ELSE i + k - Buckets
    <3>1. j \in 1 .. Buckets /\ j \in 0 .. Buckets
      BY <1>0, <2>1
    <3>2. Slot(new.cursor, i) = Slot(ring.cursor, j) /\ Slot(ring.cursor, j) \in Places
      <4> HIDE DEF k
      <4>1. Slot(Slot(ring.cursor, k), i) = Slot(ring.cursor, j)
        BY <1>0, <2>1, SlotsTurn
      <4> HIDE DEF j
      <4>2. Slot(ring.cursor, j) \in Places
        BY <1>0, <3>1, SlotIs
      <4> QED BY <2>2, <4>1, <4>2
    <3>3. new.buckets[Slot(new.cursor, i)] = IF Slot(ring.cursor, j) \in passed THEN 0
                                             ELSE ring.buckets[Slot(ring.cursor, j)]
      BY <2>2, <3>2
    <3>4. Slot(ring.cursor, j) \in passed <=> j <= k
      <4> HIDE DEF j, k
      <4>1. \A m \in 1 .. k : m \in 1 .. Buckets
        BY <1>0, <2>1
      <4>2. \A m \in 1 .. k : Slot(ring.cursor, j) = Slot(ring.cursor, m) => j = m
        BY <1>0, <3>1, <4>1, SlotsApart
      <4> QED BY <2>1, <3>1, <4>2
    <3>5. CASE j <= k
      <4>1. HourOf(new, i) > ring.start /\ HourOf(new, i) \in Int
        BY <1>0, <1>2, <2>1, <2>2, <3>1, <3>5 DEF HourOf
      <4> QED BY <3>3, <3>4, <3>5, <4>1
    <3>6. CASE ~(j <= k)
      <4>1. HourOf(new, i) = HourOf(ring, j)
        BY <1>0, <1>2, <2>1, <2>2, <3>1, <3>6 DEF HourOf
      <4> QED BY <3>1, <3>3, <3>4, <3>6, <4>1 DEF Tells
    <3> QED BY <3>5, <3>6
  <2>6. Tells(new, f) /\ new.start = at
    BY <2>2, <2>5 DEF Tells
  <2> QED BY <2>3, <2>4, <2>6
<1> QED BY <1>0, <1>1, <1>2

\* Writing the current bucket changes what is told of the current hour.
LEMMA WrittenTells ==
  ASSUME NEW ring \in Rings, NEW f, Tells(ring, f), NEW v \in Nat, NEW g, g[ring.start] = v,
         \A h \in Int : h < ring.start => g[h] = f[h]
  PROVE  LET new == [ring EXCEPT !.buckets[ring.cursor] = v]
         IN  new \in Rings /\ new.start = ring.start /\ Tells(new, g)
<1>1. PICK new : new = [ring EXCEPT !.buckets[ring.cursor] = v]
  OBVIOUS
<1>2. /\ new \in Rings /\ new.start = ring.start /\ new.cursor = ring.cursor
      /\ \A p \in Places : new.buckets[p] = IF p = ring.cursor THEN v ELSE ring.buckets[p]
  BY <1>1 DEF Rings
<1>3. ASSUME NEW i \in 1 .. Buckets
      PROVE  new.buckets[Slot(new.cursor, i)] = g[HourOf(new, i)]
  <2>0. /\ i \in 0 .. Buckets /\ Buckets \in 1 .. Buckets /\ ring.cursor \in Places
        /\ Slot(ring.cursor, Buckets) = ring.cursor
    BY Now, RingsAssumption DEF Rings
  <2>1. Slot(ring.cursor, i) \in Places /\ (Slot(ring.cursor, i) = ring.cursor <=> i = Buckets)
    BY <2>0, SlotIs, SlotsApart
  <2>2. HourOf(new, i) \in Int /\ HourOf(new, i) = HourOf(ring, i)
        /\ (i = Buckets => HourOf(ring, i) = ring.start) /\ (i # Buckets => HourOf(ring, i) < ring.start)
    BY <1>2, RingsAssumption DEF HourOf, Rings
  <2> QED BY <1>2, <2>1, <2>2 DEF Tells
<1> QED BY <1>1, <1>2, <1>3 DEF Tells

LEMMA RingTells ==
  ASSUME NEW at \in Nat, NEW filled \in Nat, NEW f, \A h \in Int : h <= at => f[h] = filled
  PROVE  Ring(at, filled) \in Rings /\ Ring(at, filled).start = at /\ Tells(Ring(at, filled), f)
<1>1. Ring(at, filled) \in Rings
  BY RingsAssumption DEF Ring, Rings, Places
<1>2. \A i \in 1 .. Buckets : HourOf(Ring(at, filled), i) \in Int /\ HourOf(Ring(at, filled), i) <= at
  BY RingsAssumption DEF HourOf, Ring
<1>3. \A i \in 1 .. Buckets : Ring(at, filled).buckets[Slot(0, i)] = filled
  BY SlotIs, RingsAssumption DEF Ring, Places
<1> QED BY <1>1, <1>2, <1>3 DEF Tells, Ring

-----------------------------------------------------------------------------
(***************************************************************************)
(* What the rings tell.  Row and WellRow are what the property says of all *)
(* hours, past and to come.                                                *)
(***************************************************************************)
Kinds == {"errors", "latency", "wellness"}

Row(kind) == [h \in Int |-> Told(kind, h)]

WellRow ==
    [h \in Int |-> IF \E g \in 0 .. h - 1 : Eventful("wellness", g) THEN Told("wellness", h)
                   ELSE Max({100, Told("wellness", h)})]

Since(kind, at) == \A h \in 0 .. LastHour : h > at => happened[kind][h] = None

\* A ring is there from its first event on, starts at its last one, and tells
\* its row.
RingInv(kind, ring, f) ==
    /\ ring = None => Since(kind, -1)
    /\ ring # None =>
         /\ ring \in Rings /\ ring.start <= hour /\ Eventful(kind, ring.start) /\ Since(kind, ring.start)
         /\ Tells(ring, f)

ClockInv ==
    /\ hour \in 0 .. LastHour
    /\ window \in [errors : Nat, worst : Nat]
    /\ happened \in [Kinds -> [0 .. LastHour -> Nat \cup {None}]]

RingsInv ==
    /\ ClockInv
    /\ RingInv("errors", errors, Row("errors"))
    /\ RingInv("latency", latency, Row("latency"))
    /\ RingInv("wellness", wellness, WellRow)

LEMMA MaxIs == \A a, b \in Nat : Max({a, b}) = IF a >= b THEN a ELSE b
<1> SUFFICES ASSUME NEW a \in Nat, NEW b \in Nat
             PROVE  Max({a, b}) = IF a >= b THEN a ELSE b
  OBVIOUS
<1> DEFINE m == IF a >= b THEN a ELSE b
<1>1. m \in {a, b} /\ \A y \in {a, b} : m >= y
  OBVIOUS
<1>2. \A x \in {a, b} : (\A y \in {a, b} : x >= y) => x = m
  OBVIOUS
<1> HIDE DEF m
<1>3. Max({a, b}) = m
  BY <1>1, <1>2 DEF Max
<1> QED BY <1>3 DEF m

LEMMA RingsTell == RingsInv => RingsTellTheirHours
<1> SUFFICES ASSUME RingsInv, NEW i \in 1 .. Buckets
             PROVE  /\ errors # None => Ordered(errors)[i] = Row("errors")[HourOf(errors, i)]
                    /\ latency # None => Ordered(latency)[i] = Row("latency")[HourOf(latency, i)]
                    /\ wellness # None => Ordered(wellness)[i] = WellRow[HourOf(wellness, i)]
                    /\ \A ring \in {errors, latency, wellness} : ring # None => HourOf(ring, i) \in Int
  BY DEF RingsTellTheirHours, WellRow, Row
<1>1. \A ring \in Rings : HourOf(ring, i) \in Int /\ Ordered(ring)[i] = ring.buckets[Slot(ring.cursor, i)]
  BY RingsAssumption DEF HourOf, Rings, Ordered, Slot
<1>2. /\ errors # None => errors \in Rings /\ Tells(errors, Row("errors"))
      /\ latency # None => latency \in Rings /\ Tells(latency, Row("latency"))
      /\ wellness # None => wellness \in Rings /\ Tells(wellness, WellRow)
  BY DEF RingsInv, RingInv
<1> QED BY <1>1, <1>2 DEF Tells

LEMMA InitRings == Init => RingsInv
<1> SUFFICES ASSUME Init PROVE RingsInv
  OBVIOUS
<1>1. ClockInv
  BY RingsAssumption DEF Init, RingsInit, ClockInv, Kinds, NoSamples
<1>2. \A kind \in Kinds : Since(kind, -1)
  BY RingsAssumption DEF Init, RingsInit, Since, Kinds
<1> QED BY <1>1, <1>2 DEF Init, RingsInit, RingsInv, RingInv, Kinds

\* No event is told as nothing.
LEMMA Quiets ==
  ASSUME ClockInv, NEW kind \in Kinds, NEW at \in Int, Since(kind, at), NEW h \in Int, h > at
  PROVE  ~Eventful(kind, h) /\ Told(kind, h) = 0
<1>1. hour <= LastHour
  BY RingsAssumption DEF ClockInv
<1>2. h \in 0 .. hour => h \in 0 .. LastHour
  BY <1>1, RingsAssumption DEF ClockInv
<1>3. ~Eventful(kind, h)
  BY <1>2 DEF Eventful, Since
<1> QED BY <1>3 DEF Told

\* What is told of the hours after the last event.
LEMMA RowSince ==
  ASSUME ClockInv, NEW kind \in Kinds, NEW at \in Int, Since(kind, at)
  PROVE  \A h \in Int : h > at => Row(kind)[h] = 0
  BY Quiets DEF Row

LEMMA WellSince ==
  ASSUME ClockInv, NEW at \in Nat, Since("wellness", at), Eventful("wellness", at)
  PROVE  \A h \in Int : h > at => WellRow[h] = 0
<1> SUFFICES ASSUME NEW h \in Int, h > at PROVE WellRow[h] = 0
  OBVIOUS
<1>1. at \in 0 .. h - 1
  OBVIOUS
<1>2. Told("wellness", h) = 0
  BY Quiets DEF Kinds
<1> QED BY <1>1, <1>2 DEF WellRow

LEMMA WellFirst ==
  ASSUME ClockInv, Since("wellness", -1)
  PROVE  \A h \in Int : WellRow[h] = 100
<1> SUFFICES ASSUME NEW h \in Int PROVE WellRow[h] = 100
  OBVIOUS
<1>1. \A g \in Nat : ~Eventful("wellness", g)
  BY Quiets DEF Kinds
<1>2. Told("wellness", h) = 0
  BY <1>1 DEF Told, Eventful
<1>3. Max({100, 0}) = 100
  BY MaxIs
<1>4. \A g \in 0 .. h - 1 : g \in Nat
  OBVIOUS
<1> QED BY <1>1, <1>2, <1>3, <1>4 DEF WellRow

\* The ring an event is written into tells what the one there was told.
LEMMA CurrentTells ==
  ASSUME hour \in Nat, NEW ring, NEW filled \in Nat, NEW f,
         ring = None => \A h \in Int : h <= hour => f[h] = filled,
         ring # None => /\ ring \in Rings /\ ring.start <= hour /\ Tells(ring, f)
                        /\ \A h \in Int : h > ring.start => f[h] = 0
  PROVE  LET now == Current(ring, hour, filled)
         IN  now \in Rings /\ now.start = hour /\ Tells(now, f) /\ now.buckets[now.cursor] = f[hour]
<1>1. PICK now : now = Current(ring, hour, filled)
  OBVIOUS
<1>2. now \in Rings /\ now.start = hour /\ Tells(now, f)
  <2>1. CASE ring = None
    <3>1. PICK new : new = Ring(hour, filled)
      OBVIOUS
    <3>2. new \in Rings /\ new.start = hour /\ Tells(new, f)
      BY <2>1, <3>1, RingTells
    <3>3. now = Advanced(new, hour)
      BY <1>1, <2>1, <3>1 DEF Current
    <3>4. now = new
      BY <3>2, <3>3, RingsAssumption DEF Advanced
    <3> QED BY <3>2, <3>4
  <2>2. CASE ring # None
    <3>1. now = Advanced(ring, hour)
      BY <1>1, <2>2 DEF Current
    <3> QED BY <2>2, <3>1, AdvancedTells
  <2> QED BY <2>1, <2>2
<1>3. Buckets \in 1 .. Buckets
  BY RingsAssumption
<1>4. now.buckets[now.cursor] = f[hour]
  BY <1>2, <1>3, Now DEF Tells
<1> QED BY <1>1, <1>2, <1>4

\* A ring an event of the current hour was written into.
LEMMA RingMade ==
  ASSUME hour \in Nat, hour' = hour, NEW kind \in Kinds, NEW new \in Rings, NEW g, new.start = hour, Tells(new, g),
         happened'[kind][hour] # None, \A h \in 0 .. LastHour : h > hour => happened'[kind][h] = None
  PROVE  RingInv(kind, new, g)'
<1>1. new # None
  <2>1. new \in [start : Nat, cursor : Nat, buckets : [0 .. Buckets - 1 -> Nat]]
    BY RingsAssumption DEF Rings, Places
  <2> QED BY <2>1, RingsAssumption
<1>2. Eventful(kind, hour)' /\ Since(kind, hour)'
  BY DEF Eventful, Since
<1> QED BY <1>1, <1>2 DEF RingInv, Tells, HourOf

\* A ring nothing is written into tells what it told.
LEMMA RingSame ==
  ASSUME ClockInv, ClockInv', hour' >= hour, NEW kind \in Kinds, NEW ring, NEW f, NEW g, RingInv(kind, ring, f),
         happened'[kind] = happened[kind], \A h \in Int : g[h] = f[h]
  PROVE  RingInv(kind, ring, g)'
<1>1. CASE ring = None
  BY <1>1 DEF RingInv, Since
<1>2. CASE ring # None
  <2>1. ring \in Rings /\ ring.start <= hour /\ Eventful(kind, ring.start) /\ Since(kind, ring.start) /\ Tells(ring, f)
    BY <1>2 DEF RingInv
  <2>2. \A i \in 1 .. Buckets : HourOf(ring, i) \in Int
    BY <2>1, RingsAssumption DEF HourOf, Rings
  <2>3. Tells(ring, g)
    BY <2>1, <2>2 DEF Tells
  <2>4. Eventful(kind, ring.start)' /\ Since(kind, ring.start)' /\ ring.start <= hour'
    <3>1. hour \in Nat /\ hour' \in Nat /\ ring.start \in Nat
      BY <2>1, RingsAssumption DEF ClockInv, Rings
    <3> QED BY <2>1, <3>1 DEF Eventful, Since
  <2> QED BY <1>2, <2>1, <2>3, <2>4 DEF RingInv, Tells, HourOf
<1> QED BY <1>1, <1>2

\* While nothing of a kind happens, its row is what it was.
LEMMA RowSame ==
  ASSUME ClockInv, ClockInv', hour' >= hour, NEW kind \in Kinds, happened'[kind] = happened[kind],
         \A h \in 0 .. LastHour : h > hour => happened[kind][h] = None
  PROVE  /\ \A h \in Int : (Eventful(kind, h)' <=> Eventful(kind, h)) /\ Told(kind, h)' = Told(kind, h)
         /\ \A h \in Int : Row(kind)'[h] = Row(kind)[h]
<1>0. hour \in Nat /\ hour' \in 0 .. LastHour
  BY RingsAssumption DEF ClockInv
<1>1. \A h \in Int : Eventful(kind, h)' <=> Eventful(kind, h)
  <2> SUFFICES ASSUME NEW h \in Int PROVE Eventful(kind, h)' <=> Eventful(kind, h)
    OBVIOUS
  <2>1. h \in 0 .. hour => h \in 0 .. hour'
    BY <1>0
  <2>2. h \in 0 .. hour' => h \in 0 .. hour \/ happened[kind][h] = None
    BY <1>0, RingsAssumption
  <2>3. happened'[kind][h] = happened[kind][h]
    OBVIOUS
  <2> QED BY <2>1, <2>2, <2>3, Zenon DEF Eventful
<1>2. \A h \in Int : Told(kind, h)' = Told(kind, h)
  BY <1>1 DEF Told
<1>3. \A h \in Int : Row(kind)'[h] = Row(kind)[h]
  BY <1>2 DEF Row
<1> QED BY <1>1, <1>2, <1>3

LEMMA WellSame ==
  ASSUME ClockInv, ClockInv', hour' >= hour, happened'["wellness"] = happened["wellness"],
         \A h \in 0 .. LastHour : h > hour => happened["wellness"][h] = None
  PROVE  \A h \in Int : WellRow'[h] = WellRow[h]
<1> SUFFICES ASSUME NEW h \in Int PROVE WellRow'[h] = WellRow[h]
  OBVIOUS
<1>1. \A g \in Int : (Eventful("wellness", g)' <=> Eventful("wellness", g)) /\ Told("wellness", g)' = Told("wellness", g)
  BY RowSame DEF Kinds
<1>2. (\E g \in 0 .. h - 1 : Eventful("wellness", g)') <=> (\E g \in 0 .. h - 1 : Eventful("wellness", g))
  BY <1>1
<1> QED BY <1>1, <1>2 DEF WellRow

\* No hour to come has had an event.
LEMMA NotYet ==
  ASSUME ClockInv, NEW kind \in Kinds, NEW ring, NEW f, RingInv(kind, ring, f)
  PROVE  \A h \in 0 .. LastHour : h > hour => happened[kind][h] = None
<1>1. ring = None \/ ring.start \in Nat
  BY DEF RingInv, Rings
<1> QED BY <1>1 DEF RingInv, Since, ClockInv

LEMMA RowLeft ==
  ASSUME ClockInv, ClockInv', hour' >= hour, NEW kind \in {"errors", "latency"}, NEW ring,
         RingInv(kind, ring, Row(kind)), happened'[kind] = happened[kind]
  PROVE  RingInv(kind, ring, Row(kind))'
<1>1. PICK f, g : f = Row(kind) /\ g = Row(kind)'
  OBVIOUS
<1>2. kind \in Kinds /\ RingInv(kind, ring, f)
  BY <1>1 DEF Kinds
<1>3. \A h \in Int : g[h] = f[h]
  BY <1>1, <1>2, RowSame, NotYet
<1>4. RingInv(kind, ring, g)'
  BY <1>2, <1>3, RingSame
<1> QED BY <1>1, <1>4 DEF RingInv, Tells

LEMMA WellLeft ==
  ASSUME ClockInv, ClockInv', hour' >= hour, NEW ring, RingInv("wellness", ring, WellRow),
         happened'["wellness"] = happened["wellness"]
  PROVE  RingInv("wellness", ring, WellRow)'
<1>1. PICK f, g : f = WellRow /\ g = WellRow'
  OBVIOUS
<1>2. "wellness" \in Kinds /\ RingInv("wellness", ring, f)
  BY <1>1 DEF Kinds
<1>3. \A h \in Int : g[h] = f[h]
  BY <1>1, <1>2, WellSame, NotYet
<1>4. RingInv("wellness", ring, g)'
  BY <1>2, <1>3, RingSame
<1> QED BY <1>1, <1>4 DEF RingInv, Tells

\* What is told after an event of the current hour that makes it v.
LEMMA RowAfter ==
  ASSUME ClockInv, hour' = hour, NEW kind \in Kinds, NEW v \in Nat,
         happened'[kind] = [happened[kind] EXCEPT ![hour] = v]
  PROVE  /\ happened'[kind][hour] = v
         /\ \A h \in Int : h # hour => (Eventful(kind, h)' <=> Eventful(kind, h)) /\ Told(kind, h)' = Told(kind, h)
         /\ Told(kind, hour)' = v
         /\ Told(kind, hour) = IF happened[kind][hour] = None THEN 0 ELSE happened[kind][hour]
         /\ Told(kind, hour) \in Nat
<1>1. hour \in 0 .. hour /\ hour \in 0 .. LastHour /\ hour \in Nat /\ v # None
  BY RingsAssumption DEF ClockInv
<1>2. \A h \in 0 .. LastHour : happened'[kind][h] = IF h = hour THEN v ELSE happened[kind][h]
  BY <1>1 DEF ClockInv
<1>3. \A h \in Int : h # hour => (Eventful(kind, h)' <=> Eventful(kind, h))
  BY <1>1, <1>2 DEF Eventful, ClockInv
<1>4. \A h \in Int : h # hour => Told(kind, h)' = Told(kind, h)
  <2> SUFFICES ASSUME NEW h \in Int, h # hour PROVE Told(kind, h)' = Told(kind, h)
    OBVIOUS
  <2>1. CASE h \in 0 .. LastHour
    BY <1>2, <1>3, <2>1 DEF Told
  <2>2. CASE h \notin 0 .. LastHour
    BY <1>1, <1>3, <2>2 DEF Told, Eventful, ClockInv
  <2> QED BY <2>1, <2>2
<1>5. Eventful(kind, hour)' /\ Told(kind, hour)' = v
  BY <1>1, <1>2 DEF Eventful, Told
<1>6. Told(kind, hour) = IF happened[kind][hour] = None THEN 0 ELSE happened[kind][hour]
  BY <1>1 DEF Eventful, Told
<1>7. Told(kind, hour) \in Nat
  <2>1. happened[kind][hour] \in Nat \cup {None}
    BY <1>1 DEF ClockInv
  <2> QED BY <1>6, <2>1
<1> QED BY <1>1, <1>2, <1>3, <1>4, <1>5, <1>6, <1>7

LEMMA RowWrites ==
  ASSUME ClockInv, ClockInv', hour' = hour, NEW kind \in {"errors", "latency"}, NEW ring,
         RingInv(kind, ring, Row(kind)), NEW n \in Nat, NEW v \in Nat,
         happened'[kind] = [happened[kind] EXCEPT ![hour] = v],
         v = IF kind = "errors" THEN Summed(happened[kind][hour], n) ELSE Highest(happened[kind][hour], n)
  PROVE  LET now == Current(ring, hour, 0)
         IN  RingInv(kind, IF kind = "errors" THEN Added(now, n) ELSE Raised(now, n), Row(kind))'
<1>1. PICK now, f, g : now = Current(ring, hour, 0) /\ f = Row(kind) /\ g = Row(kind)'
  OBVIOUS
<1>2. kind \in Kinds /\ RingInv(kind, ring, f) /\ hour \in Nat /\ hour \in Int
  BY <1>1 DEF Kinds, ClockInv
<1>3. ring = None => \A h \in Int : h <= hour => f[h] = 0
  <2>1. ring = None => Since(kind, -1)
    BY <1>2 DEF RingInv
  <2>2. ring = None => \A h \in Nat : Told(kind, h) = 0
    BY <1>2, <2>1, Quiets
  <2> QED BY <1>1, <2>2 DEF Row, Told, Eventful
<1>4. ring # None => \A h \in Int : h > ring.start => f[h] = 0
  <2>1. ring # None => ring.start \in Int /\ Since(kind, ring.start)
    BY <1>2 DEF RingInv, Rings
  <2> QED BY <1>1, <1>2, <2>1, RowSince
<1>5. /\ now.buckets[now.cursor] = f[hour] /\ now.cursor \in DOMAIN now.buckets
      /\ now \in Rings /\ now.start = hour /\ Tells(now, f)
  BY <1>1, <1>2, <1>3, <1>4, CurrentTells DEF RingInv, Rings
<1>6. /\ f[hour] \in Nat /\ f[hour] = IF happened[kind][hour] = None THEN 0 ELSE happened[kind][hour]
      /\ g[hour] = v /\ \A h \in Int : h < hour => g[h] = f[h]
  BY <1>1, <1>2, RowAfter DEF Row
<1>7. Max({0, n}) = n
  BY MaxIs
<1>8. v = IF kind = "errors" THEN f[hour] + n ELSE Max({f[hour], n})
  <2>1. PICK was, t : was = happened[kind][hour] /\ t = f[hour]
    OBVIOUS
  <2>2. CASE was = None
    BY <1>6, <1>7, <2>1, <2>2 DEF Summed, Highest
  <2>3. CASE was # None
    BY <1>6, <2>1, <2>3 DEF Summed, Highest
  <2> QED BY <2>2, <2>3
<1>9. PICK new : new = IF kind = "errors" THEN Added(now, n) ELSE Raised(now, n)
  OBVIOUS
<1>10. new = [now EXCEPT !.buckets[now.cursor] = v]
  BY <1>5, <1>8, <1>9 DEF Added, Raised
<1>11. happened'[kind][hour] # None /\ \A h \in 0 .. LastHour : h > hour => happened'[kind][h] = None
  BY <1>2, RowAfter, NotYet, RingsAssumption DEF ClockInv
<1>12. RingInv(kind, new, g)'
  <2>1. new \in Rings /\ new.start = hour /\ Tells(new, g)
    BY <1>2, <1>5, <1>6, <1>10, WrittenTells
  <2> QED BY <1>2, <1>11, <2>1, RingMade
<1> QED BY <1>1, <1>9, <1>12 DEF RingInv, Tells

LEMMA WellWrites ==
  ASSUME ClockInv, ClockInv', hour' = hour, NEW ring, RingInv("wellness", ring, WellRow), NEW n \in Nat, NEW v \in Nat,
         happened'["wellness"] = [happened["wellness"] EXCEPT ![hour] = v],
         v = Highest(happened["wellness"][hour], n)
  PROVE  RingInv("wellness", Raised(Current(ring, hour, 100), n), WellRow)'
<1>1. PICK now, f, g : now = Current(ring, hour, 100) /\ f = WellRow /\ g = WellRow'
  OBVIOUS
<1>2. "wellness" \in Kinds /\ RingInv("wellness", ring, f) /\ hour \in Nat /\ hour \in Int
  BY <1>1 DEF Kinds, ClockInv
<1>3. ring = None => \A h \in Int : h <= hour => f[h] = 100
  BY <1>1, <1>2, WellFirst DEF RingInv
<1>4. ring # None => \A h \in Int : h > ring.start => f[h] = 0
  <2>1. ring # None => ring.start \in Nat /\ Since("wellness", ring.start) /\ Eventful("wellness", ring.start)
    BY <1>2 DEF RingInv, Rings
  <2> QED BY <1>1, <2>1, WellSince
<1>5. /\ now.buckets[now.cursor] = f[hour] /\ now.cursor \in DOMAIN now.buckets
      /\ now \in Rings /\ now.start = hour /\ Tells(now, f)
  BY <1>1, <1>2, <1>3, <1>4, CurrentTells DEF RingInv, Rings
<1>6. PICK t, was : t = Told("wellness", hour) /\ was = happened["wellness"][hour]
  OBVIOUS
<1>7. /\ t \in Nat /\ t = (IF was = None THEN 0 ELSE was) /\ Told("wellness", hour)' = v
      /\ \A h \in Int : h # hour => (Eventful("wellness", h)' <=> Eventful("wellness", h))
                                    /\ Told("wellness", h)' = Told("wellness", h)
  BY <1>2, <1>6, RowAfter
<1>8. v = Max({t, n})
  <2>1. Max({0, n}) = n
    BY MaxIs
  <2> QED BY <1>6, <1>7, <2>1 DEF Highest
<1>9. \A h \in Int : h <= hour =>
        ((\E e \in 0 .. h - 1 : Eventful("wellness", e)') <=> (\E e \in 0 .. h - 1 : Eventful("wellness", e)))
  BY <1>2, <1>7
<1>10. \A h \in Int : h < hour => g[h] = f[h]
  BY <1>1, <1>2, <1>7, <1>9 DEF WellRow
<1>11. f[hour] \in Nat /\ g[hour] = Max({f[hour], n}) /\ g[hour] \in Nat
  <2>1. Max({100, t}) \in Nat /\ Max({t, n}) \in Nat /\ Max({Max({100, t}), n}) = Max({100, Max({t, n})})
        /\ Max({100, Max({t, n})}) \in Nat
    BY <1>7, MaxIs
  <2>2. CASE \E e \in 0 .. hour - 1 : Eventful("wellness", e)
    <3>1. f[hour] = t /\ g[hour] = v
      BY <1>1, <1>2, <1>6, <1>7, <1>9, <2>2 DEF WellRow
    <3> QED BY <1>7, <1>8, <2>1, <3>1
  <2>3. CASE ~\E e \in 0 .. hour - 1 : Eventful("wellness", e)
    <3>1. f[hour] = Max({100, t}) /\ g[hour] = Max({100, v})
      BY <1>1, <1>2, <1>6, <1>7, <1>9, <2>3 DEF WellRow
    <3> QED BY <1>8, <2>1, <3>1
  <2> QED BY <2>2, <2>3
<1>12. PICK new : new = Raised(now, n)
  OBVIOUS
<1>13. new = [now EXCEPT !.buckets[now.cursor] = g[hour]]
  BY <1>5, <1>11, <1>12 DEF Raised
<1>14. happened'["wellness"][hour] # None /\ \A h \in 0 .. LastHour : h > hour => happened'["wellness"][h] = None
  BY <1>2, RowAfter, NotYet, RingsAssumption DEF ClockInv
<1>15. PICK x \in Nat : x = g[hour]
  BY <1>11
<1>16. RingInv("wellness", new, g)'
  <2>1. new \in Rings /\ new.start = hour /\ Tells(new, g)
    BY <1>2, <1>5, <1>10, <1>13, <1>15, WrittenTells
  <2> QED BY <1>2, <1>14, <2>1, RingMade
<1> QED BY <1>1, <1>12, <1>16 DEF RingInv, Tells

LEMMA Remembered ==
  ASSUME ClockInv, NEW kind \in Kinds, NEW n \in Nat
  PROVE  Summed(happened[kind][hour], n) \in Nat /\ Highest(happened[kind][hour], n) \in Nat
<1>1. happened[kind][hour] \in Nat \cup {None}
  BY DEF ClockInv
<1> QED BY <1>1, MaxIs DEF Summed, Highest

\* Nothing happens, though an hour may pass.
LEMMA RingsRest ==
  ASSUME RingsInv, UNCHANGED <<errors, latency, wellness, happened>>, ClockInv', hour' >= hour
  PROVE  RingsInv'
<1>1. PICK e, l, w : e = errors /\ l = latency /\ w = wellness
  OBVIOUS
<1>2. ClockInv /\ happened' = happened
  BY DEF RingsInv
<1>3. RingInv("errors", e, Row("errors"))' /\ RingInv("latency", l, Row("latency"))'
  BY <1>1, <1>2, RowLeft DEF RingsInv
<1>4. RingInv("wellness", w, WellRow)'
  BY <1>1, <1>2, WellLeft DEF RingsInv
<1>5. errors' = e /\ latency' = l /\ wellness' = w
  BY <1>1
<1> QED BY <1>3, <1>4, <1>5 DEF RingsInv, RingInv, Tells, HourOf

LEMMA RingsSame == RingsInv /\ UNCHANGED rings => RingsInv'
<1> SUFFICES ASSUME RingsInv, UNCHANGED rings PROVE RingsInv'
  OBVIOUS
<1>1. ClockInv' /\ hour' >= hour
  BY DEF rings, RingsInv, ClockInv
<1> QED BY <1>1, RingsRest DEF rings

LEMMA RingsStepKeeps ==
  ASSUME RingsInv, RingsStep
  PROVE  RingsInv'
<1>0. ClockInv /\ hour \in Nat /\ LastHour \in Nat /\ {"errors", "latency", "wellness"} = Kinds
  BY RingsAssumption DEF RingsInv, ClockInv, Kinds
<1>3. PICK e, l, w : e = errors /\ l = latency /\ w = wellness
  OBVIOUS
<1>4. RingInv("errors", e, Row("errors")) /\ RingInv("latency", l, Row("latency")) /\ RingInv("wellness", w, WellRow)
  BY <1>3 DEF RingsInv
<1>5. ASSUME UNCHANGED <<errors, latency, wellness, happened>>, ClockInv', hour' >= hour
      PROVE  RingsInv'
  BY <1>5, RingsRest
<1>6. CASE HourPasses
  BY <1>5, <1>6, <1>0 DEF HourPasses, ClockInv
<1>7. ASSUME NEW figure \in Figures, NEW isError \in BOOLEAN, Record(figure, isError)
      PROVE  RingsInv'
  <2>1. Max({window.worst, figure}) \in Nat
    BY <1>0, RingsAssumption, MaxIs DEF ClockInv
  <2> QED BY <1>5, <1>7, <1>0, <2>1 DEF Record, ClockInv
<1>8. CASE Flush
  <2>1. CASE UNCHANGED <<errors, latency, applied, happened>>
    BY <1>5, <1>8, <1>0, <2>1 DEF Flush, ClockInv, NoSamples
  <2>2. CASE ApplyMetrics(window)
    <3>1. PICK n, m \in Nat : n = window.errors /\ m = window.worst
      BY <1>0 DEF ClockInv
    <3>2. PICK a, b \in Nat : a = Summed(happened["errors"][hour], n) /\ b = Highest(happened["latency"][hour], m)
      BY <1>0, Remembered
    <3>3. /\ happened'["errors"] = IF n = 0 THEN happened["errors"] ELSE [happened["errors"] EXCEPT ![hour] = a]
          /\ happened'["latency"] = IF m = 0 THEN happened["latency"] ELSE [happened["latency"] EXCEPT ![hour] = b]
          /\ happened'["wellness"] = happened["wellness"]
      BY <1>0, <2>2, <3>1, <3>2 DEF ApplyMetrics, ClockInv
    <3>4. happened' \in [Kinds -> [0 .. LastHour -> Nat \cup {None}]]
      BY <1>0, <2>2, <3>1, <3>2 DEF ApplyMetrics, ClockInv
    <3>5. ClockInv' /\ hour' = hour
      BY <1>0, <1>8, <3>4 DEF Flush, ClockInv, NoSamples
    <3>6. PICK ne, nl : /\ ne = IF n = 0 THEN e ELSE Added(Current(e, hour, 0), n)
                        /\ nl = IF m = 0 THEN l ELSE Raised(Current(l, hour, 0), m)
      OBVIOUS
    <3>7. errors' = ne /\ latency' = nl /\ wellness' = w
      BY <1>3, <1>8, <2>2, <3>1, <3>6 DEF ApplyMetrics, Flush
    <3>8. RingInv("errors", ne, Row("errors"))'
      <4>1. CASE n = 0
        BY <1>0, <1>4, <3>3, <3>5, <3>6, <4>1, RowLeft
      <4>2. CASE n # 0
        BY <1>0, <1>4, <3>2, <3>3, <3>5, <3>6, <4>2, RowWrites
      <4> QED BY <4>1, <4>2
    <3>9. RingInv("latency", nl, Row("latency"))'
      <4>1. CASE m = 0
        BY <1>0, <1>4, <3>3, <3>5, <3>6, <4>1, RowLeft
      <4>2. CASE m # 0
        BY <1>0, <1>4, <3>2, <3>3, <3>5, <3>6, <4>2, RowWrites
      <4> QED BY <4>1, <4>2
    <3>10. RingInv("wellness", w, WellRow)'
      BY <1>0, <1>4, <3>3, <3>5, WellLeft
    <3> QED BY <3>5, <3>7, <3>8, <3>9, <3>10 DEF RingsInv, RingInv, Tells, HourOf
  <2> QED BY <1>8, <2>1, <2>2 DEF Flush
<1>9. ASSUME NEW figure \in Figures, ApplySnapshot(figure)
      PROVE  RingsInv'
  <2>1. PICK n \in Nat : n = figure
    BY RingsAssumption
  <2>2. PICK b \in Nat : b = Highest(happened["wellness"][hour], n)
    BY <1>0, Remembered
  <2>3. /\ happened'["wellness"] = [happened["wellness"] EXCEPT ![hour] = b]
        /\ happened'["errors"] = happened["errors"] /\ happened'["latency"] = happened["latency"]
        /\ happened' \in [Kinds -> [0 .. LastHour -> Nat \cup {None}]]
    BY <1>0, <1>9, <2>1, <2>2 DEF ApplySnapshot, ClockInv
  <2>4. ClockInv' /\ hour' = hour
    BY <1>0, <1>9, <2>3 DEF ApplySnapshot, ClockInv
  <2>5. PICK nw : nw = Raised(Current(w, hour, 100), n)
    OBVIOUS
  <2>6. errors' = e /\ latency' = l /\ wellness' = nw
    BY <1>3, <1>9, <2>1, <2>5 DEF ApplySnapshot
  <2>7. RingInv("errors", e, Row("errors"))' /\ RingInv("latency", l, Row("latency"))'
    BY <1>0, <1>4, <2>3, <2>4, RowLeft
  <2>8. RingInv("wellness", nw, WellRow)'
    BY <1>0, <1>4, <2>2, <2>3, <2>4, <2>5, WellWrites
  <2> QED BY <2>4, <2>6, <2>7, <2>8 DEF RingsInv, RingInv, Tells, HourOf
<1> QED BY <1>6, <1>7, <1>8, <1>9 DEF RingsStep

LEMMA NextRings == RingsInv /\ [Next]_vars => RingsInv'
<1>1. UNCHANGED vars \/ Next => UNCHANGED rings \/ RingsStep
  BY DEF vars, Next, Restart
<1> QED BY <1>1, RingsSame, RingsStepKeeps

\* For rings of any size and any events: each bucket of a row tells what
\* happened in its hour, however long the ring stood still and however often it
\* turned (advance(), toRow()).
THEOREM RingsTellAll == Spec => []RingsTellTheirHours
<1>1. RingsInv => RingsTellTheirHours
  BY RingsTell
<1>2. Init => RingsInv
  BY InitRings
<1>3. RingsInv /\ [Next]_vars => RingsInv'
  BY NextRings
<1> QED BY <1>1, <1>2, <1>3, PTL DEF Spec

-----------------------------------------------------------------------------
(***************************************************************************)
(* Incidents.  What is on its way to the service decides what it will hold *)
(* open: a service seen unwell has an open incident now, with nothing      *)
(* about it on the way, or the last message about it on the way is open.   *)
(***************************************************************************)
Incidents ==
    [id : Nat, svc : Services, severity : {"P2", "P3"}, state : {"open", "closed"}]

Silent(due, s) == \A i \in 1 .. Len(due) : due[i].svc # s

LastWord(due, s, state) ==
    \E i \in 1 .. Len(due) :
      /\ due[i].svc = s /\ due[i].state = state
      /\ \A j \in 1 .. Len(due) : due[j].svc = s => j <= i

EndsOpen(due, s, open) == (s \in open /\ Silent(due, s)) \/ LastWord(due, s, "open")

OneEach(due) == \A i, j \in 1 .. Len(due) : due[i].svc = due[j].svc => i = j

LEMMA AppendIs ==
  ASSUME NEW due \in Seq(Incidents), NEW m \in Incidents
  PROVE  /\ Append(due, m) \in Seq(Incidents) /\ Len(Append(due, m)) = Len(due) + 1 /\ Len(due) \in Nat
         /\ \A i \in 1 .. Len(due) : Append(due, m)[i] = due[i]
         /\ Append(due, m)[Len(due) + 1] = m
  OBVIOUS

LEMMA TailIs ==
  ASSUME NEW due \in Seq(Incidents), due # << >>
  PROVE  /\ Tail(due) \in Seq(Incidents) /\ Len(Tail(due)) = Len(due) - 1 /\ Len(due) \in Nat \ {0}
         /\ \A i \in 1 .. Len(due) - 1 : Tail(due)[i] = due[i + 1]
         /\ Head(due) = due[1] /\ Head(due) \in Incidents
  OBVIOUS

\* A message about another service changes nothing of what ends open.
LEMMA OpenBeside ==
  ASSUME NEW due \in Seq(Incidents), NEW m \in Incidents, NEW s, m.svc # s, NEW open, NEW open2,
         EndsOpen(due, s, open), s \in open => s \in open2
  PROVE  EndsOpen(Append(due, m), s, open2)
<1>1. PICK due2 : due2 = Append(due, m)
  OBVIOUS
<1>2. /\ Len(due2) = Len(due) + 1 /\ Len(due) \in Nat /\ due2[Len(due) + 1] = m
      /\ \A i \in 1 .. Len(due) : due2[i] = due[i]
  BY <1>1, AppendIs
<1>3. CASE s \in open /\ Silent(due, s)
  BY <1>1, <1>2, <1>3 DEF EndsOpen, Silent
<1>4. CASE LastWord(due, s, "open")
  <2>1. PICK i \in 1 .. Len(due) : due[i].svc = s /\ due[i].state = "open" /\ \A j \in 1 .. Len(due) : due[j].svc = s => j <= i
    BY <1>4 DEF LastWord
  <2>2. i \in 1 .. Len(due2) /\ due2[i].svc = s /\ due2[i].state = "open"
    BY <1>2, <2>1
  <2>3. \A j \in 1 .. Len(due2) : due2[j].svc = s => j <= i
    BY <1>2, <2>1
  <2> QED BY <1>1, <2>2, <2>3 DEF EndsOpen, LastWord
<1> QED BY <1>3, <1>4 DEF EndsOpen

\* A message that opens, behind all others, has the last word.
LEMMA OpenBehind ==
  ASSUME NEW due \in Seq(Incidents), NEW m \in Incidents, m.state = "open", NEW open
  PROVE  EndsOpen(Append(due, m), m.svc, open)
<1>1. PICK due2 : due2 = Append(due, m)
  OBVIOUS
<1>2. /\ Len(due2) = Len(due) + 1 /\ Len(due) \in Nat /\ due2[Len(due) + 1] = m
  BY <1>1, AppendIs
<1>3. Len(due2) \in 1 .. Len(due2) /\ due2[Len(due2)] = m
  BY <1>2
<1> QED BY <1>1, <1>3 DEF EndsOpen, LastWord

\* The service applies the first message.
LEMMA OpenTaken ==
  ASSUME NEW due \in Seq(Incidents), due # << >>, NEW s, NEW open, NEW open2, EndsOpen(due, s, open),
         Head(due).state = "open" => open2 = open \cup {Head(due).svc},
         Head(due).state = "closed" => open2 = open \ {Head(due).svc}
  PROVE  EndsOpen(Tail(due), s, open2)
<1>1. PICK rest, m : rest = Tail(due) /\ m = Head(due)
  OBVIOUS
<1>2. /\ Len(rest) = Len(due) - 1 /\ Len(due) \in Nat \ {0} /\ m = due[1] /\ m \in Incidents
      /\ \A i \in 1 .. Len(due) - 1 : rest[i] = due[i + 1]
  BY <1>1, TailIs
<1>3. m.state \in {"open", "closed"}
  BY <1>2 DEF Incidents
<1>4. CASE s \in open /\ Silent(due, s)
  <2>1. m.svc # s
    BY <1>2, <1>4 DEF Silent
  <2>2. Silent(rest, s)
    BY <1>2, <1>4 DEF Silent
  <2> QED BY <1>1, <1>3, <1>4, <2>1, <2>2 DEF EndsOpen
<1>5. CASE LastWord(due, s, "open")
  <2>1. PICK i \in 1 .. Len(due) : due[i].svc = s /\ due[i].state = "open" /\ \A j \in 1 .. Len(due) : due[j].svc = s => j <= i
    BY <1>5 DEF LastWord
  <2>2. CASE i = 1
    <3>1. Silent(rest, s)
      BY <1>2, <2>1, <2>2 DEF Silent
    <3>2. s \in open2
      BY <1>1, <1>2, <2>1, <2>2
    <3> QED BY <1>1, <3>1, <3>2 DEF EndsOpen
  <2>3. CASE i # 1
    <3>1. PICK k \in 1 .. Len(rest) : k = i - 1
      BY <1>2, <2>1, <2>3
    <3>2. rest[k].svc = s /\ rest[k].state = "open"
      BY <1>2, <2>1, <3>1
    <3>3. \A j \in 1 .. Len(rest) : rest[j].svc = s => j <= k
      BY <1>2, <2>1, <3>1
    <3> QED BY <1>1, <3>2, <3>3 DEF EndsOpen, LastWord
  <2> QED BY <2>2, <2>3
<1> QED BY <1>4, <1>5 DEF EndsOpen

\* ... and it comes again, behind the others.
LEMMA OpenAgain ==
  ASSUME NEW due \in Seq(Incidents), due # << >>, OneEach(due), NEW s, NEW open, NEW open2, EndsOpen(due, s, open),
         Head(due).state = "open" => open2 = open \cup {Head(due).svc},
         Head(due).state = "closed" => open2 = open \ {Head(due).svc}
  PROVE  EndsOpen(Append(Tail(due), Head(due)), s, open2)
<1>1. PICK rest, m : rest = Tail(due) /\ m = Head(due)
  OBVIOUS
<1>2. /\ rest \in Seq(Incidents) /\ Len(due) \in Nat \ {0} /\ m = due[1] /\ m \in Incidents
  BY <1>1, TailIs
<1>3. EndsOpen(rest, s, open2)
  BY <1>1, OpenTaken
<1>4. CASE m.svc # s
  BY <1>1, <1>2, <1>3, <1>4, OpenBeside
<1>5. CASE m.svc = s
  <2>1. 1 \in 1 .. Len(due) /\ due[1].svc = s
    BY <1>2, <1>5
  <2>2. PICK i \in 1 .. Len(due) : due[i].svc = s /\ due[i].state = "open"
    BY <2>1 DEF EndsOpen, Silent, LastWord
  <2>3. m.state = "open"
    BY <1>2, <2>1, <2>2 DEF OneEach
  <2> QED BY <1>1, <1>2, <1>5, <2>3, OpenBehind
<1> QED BY <1>4, <1>5

LEMMA OneEachTail ==
  ASSUME NEW due \in Seq(Incidents), due # << >>, OneEach(due)
  PROVE  /\ OneEach(Tail(due)) /\ Silent(Tail(due), Head(due).svc)
         /\ \A s : Silent(due, s) => Silent(Tail(due), s)
<1>1. PICK rest, m : rest = Tail(due) /\ m = Head(due)
  OBVIOUS
<1>2. /\ Len(rest) = Len(due) - 1 /\ Len(due) \in Nat \ {0} /\ m = due[1]
      /\ \A i \in 1 .. Len(due) - 1 : rest[i] = due[i + 1]
  BY <1>1, TailIs
<1>3. \A i \in 1 .. Len(rest) : i + 1 \in 1 .. Len(due) /\ rest[i] = due[i + 1]
  BY <1>2
<1>4. OneEach(rest)
  BY <1>2, <1>3 DEF OneEach
<1>5. Silent(rest, m.svc)
  BY <1>2, <1>3 DEF OneEach, Silent
<1>6. \A s : Silent(due, s) => Silent(rest, s)
  BY <1>3 DEF Silent
<1> QED BY <1>1, <1>4, <1>5, <1>6

LEMMA OneEachMore ==
  ASSUME NEW due \in Seq(Incidents), NEW m \in Incidents, OneEach(due), Silent(due, m.svc)
  PROVE  /\ OneEach(Append(due, m))
         /\ \A s : s # m.svc /\ Silent(due, s) => Silent(Append(due, m), s)
<1>1. PICK due2 : due2 = Append(due, m)
  OBVIOUS
<1>2. /\ Len(due2) = Len(due) + 1 /\ Len(due) \in Nat /\ due2[Len(due) + 1] = m
      /\ \A i \in 1 .. Len(due) : due2[i] = due[i]
  BY <1>1, AppendIs
<1>3. OneEach(due2)
  BY <1>2 DEF OneEach, Silent
<1>4. \A s : s # m.svc /\ Silent(due, s) => Silent(due2, s)
  BY <1>2 DEF Silent
<1> QED BY <1>1, <1>3, <1>4

-----------------------------------------------------------------------------
(* The invariant of the incidents. *)

Due == feed.due["health"]

Busy == sampling # IdleSampler

\* Services a pass has still to settle.
Underway(s) == s \in DOMAIN listed \/ (Busy /\ sampling.svc = s)

\* The status the incidents of a service follow: during its snapshot the one before.
Followed(s) == IF Busy /\ sampling.svc = s THEN sampling.from ELSE lastStatus[s]

Calm == NoFault("emit") /\ (NoFault("ack") \/ FirstLife)

FaultInv ==
    /\ mode \in Modes
    /\ left \in [FaultKinds -> Nat] /\ \A k \in FaultKinds : left[k] <= mode.faults[k]

FeedTyped == feed \in [kept : Seq(Incidents), due : [{"health", "alerts", "logs"} -> Seq(Incidents)]]

SamplerInv ==
    /\ samples \in Nat
    /\ \A s \in DOMAIN openIncidents : openIncidents[s] \in Incidents /\ openIncidents[s].svc = s
    /\ Busy => /\ sampling.at = "snapshot" /\ sampling.svc \in Services
               /\ sampling.svc \in DOMAIN lastStatus /\ lastStatus[sampling.svc] = sampling.to
               /\ sampling.svc \notin DOMAIN listed

\* The listener binds before the first pass, or never.
BindInv ==
    /\ polls = [p \in Projections |-> polls[p]]
    /\ DOMAIN listed # {} => lastStatus # << >>
    /\ lastStatus # << >> => Attached("health") \/ polls["health"] = 0

\* Before its first pass the first process has nothing to hear.
FreshInv == FirstLife /\ lastStatus = << >> => feed.kept = << >> /\ Due = << >>

\* A process that hears nothing of the past has each pass behind it before the next.
OneInv ==
    FirstLife /\ Attached("health") =>
      OneEach(Due) /\ \A s \in Services : Underway(s) => Silent(Due, s)

ReportInv ==
    Calm /\ Attached("health") =>
      \A s \in DOMAIN lastStatus : Followed(s) # "online" => EndsOpen(Due, s, DOMAIN openIncidents)

OutageInv == FaultInv /\ FeedTyped /\ SamplerInv /\ BindInv /\ FreshInv /\ OneInv /\ ReportInv

Wears == UNCHANGED left \/ \E k \in FaultKinds : Fault(k)

LEMMA WearsDown ==
  ASSUME FaultInv, mode' = mode, Wears
  PROVE  /\ FaultInv' /\ (FirstLife' => FirstLife) /\ (Calm' => Calm)
         /\ Fault("restart") => ~FirstLife'
         /\ NoFault("emit") => ~Fault("emit")
         /\ NoFault("ack") => ~Fault("ack")
<1>1. mode.faults \in [FaultKinds -> Nat] /\ {"emit", "ack", "restart"} \subseteq FaultKinds
  BY PlatformAssumption DEF FaultInv, FaultKinds
<1>2. \A k \in FaultKinds : left'[k] \in Nat /\ left'[k] <= left[k] /\ (Fault(k) => left'[k] < left[k] /\ left[k] > 0)
  BY DEF FaultInv, Wears, Fault
<1>3. left' \in [FaultKinds -> Nat]
  BY DEF FaultInv, Wears, Fault
<1>4. \A k \in FaultKinds : left[k] \in Nat /\ mode.faults[k] \in Nat /\ left[k] <= mode.faults[k]
  BY <1>1 DEF FaultInv
<1>5. \A k \in FaultKinds : left'[k] <= mode.faults[k]
  BY <1>2, <1>4
<1>6. FaultInv'
  BY <1>3, <1>5 DEF FaultInv
<1>7. (FirstLife' => FirstLife) /\ (Fault("restart") => ~FirstLife')
  <2>1. PICK a, b, c \in Nat : a = left["restart"] /\ b = left'["restart"] /\ c = mode.faults["restart"]
    BY <1>1, <1>2, <1>4
  <2>2. b <= a /\ a <= c /\ (Fault("restart") => b < a)
    BY <1>1, <1>2, <1>4, <2>1
  <2> QED BY <2>1, <2>2 DEF FirstLife
<1>8. (NoFault("emit") => ~Fault("emit")) /\ (NoFault("ack") => ~Fault("ack"))
  BY <1>1, <1>2, <1>4 DEF NoFault
<1> QED BY <1>6, <1>7, <1>8 DEF Calm, NoFault

\* A step that is about neither the sampler nor what the service hears.
Aside ==
    /\ mode' = mode /\ Wears
    /\ UNCHANGED <<samples, lastStatus, openIncidents, sampling>>
    /\ feed'.kept = feed.kept /\ feed'.due["health"] = feed.due["health"] /\ FeedTyped'
    /\ DOMAIN listed' = DOMAIN listed
    /\ Attached("health")' <=> Attached("health")
    /\ polls' = [p \in Projections |-> polls'[p]] /\ (polls["health"] = 0 => polls'["health"] = 0)

LEMMA AsideKeeps ==
  ASSUME OutageInv, Aside
  PROVE  OutageInv'
<1>0. FaultInv' /\ (FirstLife' => FirstLife) /\ (Calm' => Calm)
  BY WearsDown DEF OutageInv, Aside
<1>1. PICK due : due = Due /\ due = Due'
  BY DEF Aside, Due
<1>2. FeedTyped' /\ SamplerInv' /\ BindInv'
  BY DEF OutageInv, Aside, SamplerInv, BindInv, Busy
<1>3. FreshInv'
  BY <1>0, <1>1 DEF OutageInv, Aside, FreshInv
<1>4. OneInv'
  BY <1>0, <1>1 DEF OutageInv, Aside, OneInv, Underway, Busy
<1>5. ReportInv'
  BY <1>0, <1>1 DEF OutageInv, Aside, ReportInv, Followed, Busy
<1> QED BY <1>0, <1>2, <1>3, <1>4, <1>5 DEF OutageInv

LEMMA InitOutage == Init => OutageInv
<1> SUFFICES ASSUME Init PROVE OutageInv
  OBVIOUS
<1>1. FaultInv
  BY PlatformAssumption DEF Init, FaultInv
<1>2. FeedTyped /\ feed.kept = << >> /\ Due = << >>
  BY DEF Init, HealthInit, Stream, FeedTyped, Due
<1>3. DOMAIN lastStatus = {} /\ DOMAIN openIncidents = {} /\ ~Busy /\ samples = 0
  BY DEF Init, HealthInit, Busy
<1>4. polls = [p \in Projections |-> polls[p]] /\ lastStatus = << >> /\ ~Attached("health") /\ DOMAIN listed = {}
  BY DEF Init, ClientInit, AllPolls, HealthInit, RegistryInit, Attached
<1> QED BY <1>1, <1>2, <1>3, <1>4 DEF OutageInv, SamplerInv, BindInv, FreshInv, OneInv, ReportInv

\* A consumer of its own is none of the service's business.
LEMMA OtherConsumer ==
  ASSUME FeedTyped, NEW p \in {"alerts", "logs"}, NEW queue \in Seq(Incidents), feed' = [feed EXCEPT !.due[p] = queue]
  PROVE  feed'.kept = feed.kept /\ feed'.due["health"] = feed.due["health"] /\ FeedTyped'
  BY DEF FeedTyped

LEMMA Queues ==
  ASSUME FeedTyped, NEW p \in {"health", "alerts", "logs"}
  PROVE  /\ feed.due[p] \in Seq(Incidents) /\ feed.kept \in Seq(Incidents)
         /\ feed.due[p] # << >> => /\ Tail(feed.due[p]) \in Seq(Incidents)
                                   /\ Append(Tail(feed.due[p]), Head(feed.due[p])) \in Seq(Incidents)
<1>1. feed.due[p] \in Seq(Incidents) /\ feed.kept \in Seq(Incidents)
  BY DEF FeedTyped
<1>2. PICK due \in Seq(Incidents) : due = feed.due[p]
  BY <1>1
<1>3. due # << >> => Tail(due) \in Seq(Incidents) /\ Append(Tail(due), Head(due)) \in Seq(Incidents)
  BY TailIs, AppendIs
<1> QED BY <1>1, <1>2, <1>3

LEMMA AcksAside ==
  ASSUME FeedTyped, NEW p \in {"alerts", "logs"}, Waiting(feed, p), Acks(p) \/ feed' = Acknowledged(feed, p)
  PROVE  feed'.kept = feed.kept /\ feed'.due["health"] = feed.due["health"] /\ FeedTyped'
<1>1. PICK queue \in Seq(Incidents) : feed' = [feed EXCEPT !.due[p] = queue]
  <2>1. feed' = [feed EXCEPT !.due[p] = Tail(feed.due[p])]
        \/ feed' = [feed EXCEPT !.due[p] = Append(Tail(feed.due[p]), Head(feed.due[p]))]
    BY DEF Acks, Acknowledged, Redelivered
  <2> QED BY <2>1, Queues DEF Waiting
<1> QED BY <1>1, OtherConsumer

LEMMA PollsSame ==
  ASSUME OutageInv, UNCHANGED polls
  PROVE  polls' = [p \in Projections |-> polls'[p]] /\ (polls["health"] = 0 => polls'["health"] = 0)
  BY DEF OutageInv, BindInv

LEMMA RegistryAside ==
  ASSUME OutageInv, RegistryStep, UNCHANGED <<monitored, rings>>
  PROVE  Aside
<1>1. UNCHANGED <<samples, lastStatus, openIncidents, sampling, feed>> /\ FeedTyped'
  BY DEF monitored, OutageInv, FeedTyped
<1>2. /\ mode' = mode /\ Wears /\ DOMAIN listed' = DOMAIN listed
      /\ UNCHANGED bound \/ Binds("registry")
  <2>1. CASE StartProjection
    BY <2>1 DEF StartProjection, Binds, Wears
  <2>2. CASE BroadcastDiscover
    BY <2>2 DEF BroadcastDiscover, Wears, FaultKinds
  <2>3. CASE DeliverRegistry
    <3>1. DOMAIN listed' = DOMAIN listed
      BY <2>3, Zenon DEF DeliverRegistry, HandleRegister, HandleHeartbeat, HandleDeregister
    <3>2. mode' = mode /\ Wears /\ UNCHANGED bound
      BY <2>3, Zenon DEF DeliverRegistry, Wears, FaultKinds
    <3> QED BY <3>1, <3>2
  <2>4. CASE ExpireRegistry \/ CheckStaleness
    BY <2>4 DEF ExpireRegistry, CheckStaleness, Wears
  <2>5. ASSUME NEW s \in Services,
               \/ \E version \in mode.versions : Arrives(s, version)
               \/ Beats(s) \/ Leaves(s) \/ Crashes(s) \/ Answers(s) \/ Probe(s) \/ Probed(s)
        PROVE  mode' = mode /\ Wears /\ DOMAIN listed' = DOMAIN listed /\ UNCHANGED bound
    BY <2>5 DEF Arrives, Beats, Leaves, Crashes, Answers, Probe, Probed, Wears, FaultKinds
  <2> QED BY <2>1, <2>2, <2>3, <2>4, <2>5 DEF RegistryStep
<1>3. (Attached("health")' <=> Attached("health")) /\ UNCHANGED polls
  BY <1>2 DEF bound, Binds, Attached
<1> QED BY <1>1, <1>2, <1>3, PollsSame DEF Aside

LEMMA ClientAside ==
  ASSUME OutageInv, Flap \/ ClientStep \/ \E p \in Projections : Poll(p), UNCHANGED <<registered, monitored, rings>>
  PROVE  Aside
<1>1. UNCHANGED <<samples, lastStatus, openIncidents, sampling, feed, listed>> /\ FeedTyped'
  BY DEF monitored, registered, OutageInv, FeedTyped
<1>2. CASE Flap
  BY <1>1, <1>2, PollsSame DEF Flap, bound, Wears, FaultKinds, Aside, Attached
<1>3. CASE ClientStep
  <2>1. mode' = mode /\ Wears /\ UNCHANGED bound
    BY <1>3 DEF ClientStep, Attempt, Announce, Stop, Connect, Wears, FaultKinds
  <2> QED BY <1>1, <2>1, PollsSame DEF bound, Aside, Attached
<1>4. ASSUME NEW p \in Projections, Poll(p)
      PROVE  Aside
  <2>1. polls = [q \in Projections |-> polls[q]] /\ "health" \in Projections
    BY PlatformAssumption DEF OutageInv, BindInv
  <2>2. polls' = [q \in Projections |-> polls'[q]] /\ (polls["health"] = 0 => polls'["health"] = 0)
    BY <1>4, <2>1 DEF Poll
  <2> QED BY <1>1, <1>4, <2>2 DEF Poll, Aside, Wears, Attached
<1> QED BY <1>2, <1>3, <1>4

LEMMA ListenerAside ==
  ASSUME OutageInv, StartAlerts \/ StartLogs, UNCHANGED <<registered, rings>>
  PROVE  Aside
<1>1. PICK p \in {"alerts", "logs"} : Binds(p) /\ feed' = Recreated(feed, p)
  BY DEF StartAlerts, StartLogs, StartListener
<1>2. feed' = [feed EXCEPT !.due[p] = feed.kept] /\ feed.kept \in Seq(Incidents)
  BY <1>1, Queues DEF Recreated, OutageInv
<1>3. feed'.kept = feed.kept /\ feed'.due["health"] = feed.due["health"] /\ FeedTyped'
  BY <1>2, OtherConsumer DEF OutageInv
<1>4. UNCHANGED <<samples, lastStatus, openIncidents, sampling, listed>>
  BY DEF StartAlerts, StartLogs, StartListener, registered
<1>5. mode' = mode /\ Wears /\ UNCHANGED polls /\ (Attached("health")' <=> Attached("health"))
  BY <1>1 DEF Binds, Wears, Attached
<1> QED BY <1>3, <1>4, <1>5, PollsSame DEF Aside

LEMMA ConsumerAside ==
  ASSUME OutageInv, Alert \/ Ingest, UNCHANGED <<mode, client, bound, registryOnly, rings>>
  PROVE  Aside
<1>1. UNCHANGED <<samples, lastStatus, openIncidents, sampling, listed>>
  BY DEF Alert, Ingest
<1>2. \E p \in {"alerts", "logs"} : Waiting(feed, p) /\ (Acks(p) \/ feed' = Acknowledged(feed, p))
  BY Zenon DEF Alert, Ingest
<1>3. feed'.kept = feed.kept /\ feed'.due["health"] = feed.due["health"] /\ FeedTyped'
  BY <1>2, AcksAside DEF OutageInv
<1>4. Wears
  BY DEF Alert, Ingest, Acks, Wears, FaultKinds
<1> QED BY <1>1, <1>3, <1>4, PollsSame DEF Aside, bound, Attached

LEMMA RingsAside ==
  ASSUME OutageInv, RingsStep, UNCHANGED <<mode, client, bound, registered, monitored>>
  PROVE  Aside
<1>1. Wears
  BY DEF RingsStep, HourPasses, Record, Flush, ApplySnapshot, Wears, FaultKinds
<1>2. FeedTyped'
  BY DEF monitored, OutageInv, FeedTyped
<1> QED BY <1>1, <1>2, PollsSame DEF Aside, bound, registered, monitored, Attached

LEMMA NothingAside == OutageInv /\ UNCHANGED vars => Aside
<1> SUFFICES ASSUME OutageInv, UNCHANGED vars PROVE Aside
  OBVIOUS
<1>1. FeedTyped'
  BY DEF vars, monitored, OutageInv, FeedTyped
<1> QED BY <1>1, PollsSame DEF vars, bound, registered, monitored, Aside, Wears, Attached

LEMMA NoneDue ==
  ASSUME NEW due, due = << >>
  PROVE  OneEach(due) /\ (\A s : Silent(due, s)) /\ (\A s, open : EndsOpen(due, s, open) => s \in open)
<1>1. Len(due) = 0
  OBVIOUS
<1> QED BY <1>1 DEF OneEach, Silent, EndsOpen, LastWord

LEMMA StartHealthKeeps ==
  ASSUME OutageInv, StartHealth, UNCHANGED <<registered, rings>>
  PROVE  OutageInv'
<1>1. /\ polls["health"] > 0 /\ ~Attached("health") /\ mode' = mode /\ left' = left /\ polls' = polls
      /\ Attached("health")' /\ feed' = [feed EXCEPT !.due["health"] = feed.kept]
      /\ UNCHANGED <<samples, lastStatus, openIncidents, sampling, listed>>
  BY DEF StartHealth, StartListener, Binds, Attached, Recreated, registered
<1>2. lastStatus = << >> /\ DOMAIN lastStatus = {} /\ ~Busy
  BY <1>1 DEF OutageInv, BindInv, SamplerInv
<1>3. FaultInv' /\ (FirstLife' <=> FirstLife)
  BY <1>1 DEF OutageInv, FaultInv, FirstLife
<1>4. FeedTyped' /\ feed'.kept = feed.kept /\ Due' = feed.kept
  BY <1>1 DEF OutageInv, FeedTyped, Due
<1>5. FirstLife' => Due' = << >>
  BY <1>2, <1>3, <1>4 DEF OutageInv, FreshInv
<1>6. SamplerInv' /\ BindInv'
  BY <1>1, <1>2 DEF OutageInv, SamplerInv, BindInv, Busy
<1>7. FreshInv' /\ OneInv' /\ ReportInv'
  <2>1. FirstLife' => OneEach(Due)' /\ \A s : Silent(Due, s)'
    <3>1. PICK due : due = Due'
      OBVIOUS
    <3> QED BY <1>5, <3>1, NoneDue
  <2>2. FreshInv'
    BY <1>1, <1>2, <1>3, <1>4, <1>5 DEF OutageInv, FreshInv
  <2>3. OneInv'
    BY <2>1 DEF OneInv
  <2>4. ReportInv'
    BY <1>1, <1>2 DEF ReportInv
  <2> QED BY <2>2, <2>3, <2>4
<1> QED BY <1>3, <1>4, <1>6, <1>7 DEF OutageInv

\* A look at a service, during which its incidents follow its last status.
LEMMA LooksKeeps ==
  ASSUME OutageInv, NEW s \in Services, NEW status, NEW others, Looks(s, status, others), s \notin DOMAIN others,
         ~Busy, UNCHANGED <<mode, left, bound, openIncidents, feed>>, samples' \in Nat,
         Attached("health") \/ polls["health"] = 0,
         FirstLife /\ Attached("health") =>
           \A t \in Services : t \in DOMAIN others \/ t = s => Silent(Due, t)
  PROVE  OutageInv'
<1>1. /\ DOMAIN lastStatus' = DOMAIN lastStatus \cup {s} /\ lastStatus'[s] = status
      /\ \A t \in DOMAIN lastStatus : t # s => lastStatus'[t] = lastStatus[t]
      /\ listed' = others
  BY DEF Looks, With
<1>2. /\ sampling'.at = "snapshot" /\ sampling'.svc = s /\ sampling'.to = status /\ Busy'
      /\ sampling'.from = IF s \in DOMAIN lastStatus THEN lastStatus[s] ELSE "online"
  BY DEF Looks, Busy, IdleSampler
<1>3. lastStatus' # << >>
  BY <1>1
<1>4. FaultInv' /\ FeedTyped' /\ (FirstLife' <=> FirstLife) /\ (Calm' <=> Calm) /\ (Attached("health")' <=> Attached("health"))
  BY DEF OutageInv, FaultInv, FeedTyped, FirstLife, Calm, NoFault, bound, Attached
<1>5. SamplerInv' /\ BindInv' /\ FreshInv'
  BY <1>1, <1>2, <1>3, <1>4 DEF OutageInv, SamplerInv, BindInv, FreshInv, bound
<1>6. PICK due : due = Due /\ due = Due'
  BY DEF Due
<1>7. OneInv'
  BY <1>1, <1>2, <1>4, <1>6 DEF OutageInv, OneInv, Underway
<1>8. ReportInv'
  <2> SUFFICES ASSUME Calm, Attached("health"), NEW t \in DOMAIN lastStatus', Followed(t)' # "online"
               PROVE  EndsOpen(due, t, DOMAIN openIncidents')
    BY <1>4, <1>6 DEF ReportInv
  <2>1. t \in DOMAIN lastStatus /\ lastStatus[t] # "online"
    BY <1>1, <1>2 DEF Followed
  <2> QED BY <1>6, <2>1 DEF OutageInv, ReportInv, Followed
<1> QED BY <1>4, <1>5, <1>7, <1>8 DEF OutageInv

LEMMA StartPassKeeps ==
  ASSUME OutageInv, NEW s \in Services, StartPass(s), UNCHANGED <<mode, client, bound, registryOnly, rings>>
  PROVE  OutageInv'
<1>1. PICK status, others : Looks(s, status, others) /\ s \notin DOMAIN others
  BY DEF StartPass
<1>2. /\ ~Busy /\ UNCHANGED <<mode, left, bound, openIncidents, feed>> /\ samples' \in Nat
      /\ Attached("health") \/ polls["health"] = 0
  BY DEF StartPass, Busy, OutageInv, SamplerInv
<1>3. FirstLife /\ Attached("health") => Due = << >>
  BY DEF StartPass, OutageInv, FreshInv, Waiting, Due
<1>4. FirstLife /\ Attached("health") => \A t \in Services : Silent(Due, t)
  BY <1>3, NoneDue
<1> QED BY <1>1, <1>2, <1>4, LooksKeeps

LEMMA LookNextKeeps ==
  ASSUME OutageInv, NEW s \in Services, LookNext(s), UNCHANGED <<mode, client, bound, registryOnly, rings>>
  PROVE  OutageInv'
<1>1. PICK status, others : Looks(s, status, others) /\ others = Without(listed, {s})
  BY DEF LookNext
<1>2. DOMAIN others = DOMAIN listed \ {s} /\ s \in DOMAIN listed
  BY <1>1 DEF LookNext, Without
<1>3. /\ ~Busy /\ UNCHANGED <<mode, left, bound, openIncidents, feed>> /\ samples' \in Nat
      /\ Attached("health") \/ polls["health"] = 0
  BY <1>2 DEF LookNext, Busy, OutageInv, SamplerInv, BindInv
<1>4. FirstLife /\ Attached("health") => \A t \in Services : t \in DOMAIN others \/ t = s => Silent(Due, t)
  BY <1>2 DEF OutageInv, OneInv, Underway
<1> QED BY <1>1, <1>2, <1>3, <1>4, LooksKeeps

LEMMA RestartKeeps ==
  ASSUME OutageInv, Restart
  PROVE  OutageInv'
<1>1. /\ mode' = mode /\ Fault("restart") /\ Wears /\ polls' = AllPolls /\ ~Attached("health")'
      /\ lastStatus' = << >> /\ openIncidents' = << >> /\ sampling' = IdleSampler /\ listed' = << >>
      /\ UNCHANGED <<samples, feed>>
  BY DEF Restart, ClientRestarts, RegistryRestarts, HealthRestarts, Wears, FaultKinds, Attached, registered
<1>2. FaultInv' /\ ~FirstLife'
  BY <1>1, WearsDown DEF OutageInv
<1>3. DOMAIN lastStatus' = {} /\ DOMAIN openIncidents' = {} /\ DOMAIN listed' = {} /\ ~Busy'
  BY <1>1 DEF Busy
<1>4. polls' = [p \in Projections |-> polls'[p]]
  BY <1>1, mode' = mode DEF AllPolls
<1> QED BY <1>1, <1>2, <1>3, <1>4 DEF OutageInv, FeedTyped, SamplerInv, BindInv, FreshInv, OneInv, ReportInv

\* The end of a snapshot.  Whether or not a message m about the service goes
\* out, nothing changes for the others.
LEMMA SettlesKeeps ==
  ASSUME OutageInv, Busy, NEW m \in Incidents, m.svc = sampling.svc,
         mode' = mode, Wears, sampling' = IdleSampler, UNCHANGED <<samples, lastStatus, listed, bound>>,
         \A t \in DOMAIN openIncidents' : openIncidents'[t] \in Incidents /\ openIncidents'[t].svc = t,
         \A t \in DOMAIN openIncidents : t # sampling.svc => t \in DOMAIN openIncidents',
         \/ feed' = Emitted(feed, m) /\ (m.state = "open" \/ lastStatus[sampling.svc] = "online")
         \/ /\ feed' = feed
            /\ \/ ~Attached("health") \/ ~Calm
               \/ lastStatus[sampling.svc] = "online"
               \/ Followed(sampling.svc) # "online" /\ openIncidents' = openIncidents
  PROVE  OutageInv'
<1>1. PICK s, due, due2 : s = sampling.svc /\ due = Due /\ due2 = Due'
  OBVIOUS
<1>2. FaultInv' /\ (FirstLife' => FirstLife) /\ (Calm' => Calm) /\ (Attached("health")' <=> Attached("health"))
  BY WearsDown DEF OutageInv, bound, Attached
<1>3. s \in DOMAIN lastStatus /\ lastStatus # << >> /\ s \notin DOMAIN listed /\ s \in Services /\ Underway(s)
  BY <1>1 DEF OutageInv, SamplerInv, Underway
<1>4. due \in Seq(Incidents) /\ ((due2 = Append(due, m) /\ feed' = Emitted(feed, m)) \/ (due2 = due /\ feed' = feed))
  BY <1>1 DEF OutageInv, FeedTyped, Due, Emitted
<1>5. FeedTyped'
  <2>1. CASE feed' = feed
    BY <2>1 DEF OutageInv, FeedTyped
  <2>2. CASE feed' = Emitted(feed, m)
    <3>1. /\ feed.kept \in Seq(Incidents) /\ DOMAIN feed.due = {"health", "alerts", "logs"}
          /\ \A c \in {"health", "alerts", "logs"} : feed.due[c] \in Seq(Incidents)
      BY DEF OutageInv, FeedTyped
    <3>2. PICK kept : kept = Append(feed.kept, m) /\ kept \in Seq(Incidents)
      BY <3>1, AppendIs
    <3>3. \A c \in {"health", "alerts", "logs"} : Append(feed.due[c], m) \in Seq(Incidents)
      BY <3>1, AppendIs
    <3>4. PICK more : more = [c \in {"health", "alerts", "logs"} |-> Append(feed.due[c], m)]
      OBVIOUS
    <3>5. more \in [{"health", "alerts", "logs"} -> Seq(Incidents)]
      BY <3>3, <3>4
    <3>6. feed' = [kept |-> kept, due |-> more]
      BY <2>2, <3>1, <3>2, <3>4 DEF Emitted, OutageInv, FeedTyped
    <3> QED BY <3>2, <3>5, <3>6 DEF FeedTyped
  <2> QED BY <1>4, <2>1, <2>2
<1>6. SamplerInv' /\ BindInv' /\ FreshInv' /\ ~Busy'
  BY <1>2, <1>3 DEF OutageInv, SamplerInv, BindInv, FreshInv, Busy, bound
<1>7. OneInv'
  <2> SUFFICES ASSUME FirstLife, Attached("health")
               PROVE  OneEach(due2) /\ \A t \in Services : t \in DOMAIN listed => Silent(due2, t)
    BY <1>1, <1>2, <1>6 DEF OneInv, Underway
  <2>1. OneEach(due) /\ Silent(due, s) /\ \A t \in Services : t \in DOMAIN listed => Silent(due, t)
    BY <1>1, <1>3 DEF OutageInv, OneInv, Underway
  <2>2. \A t \in DOMAIN listed : t # s
    BY <1>3
  <2>3. CASE due2 = due
    BY <2>1, <2>3
  <2>4. CASE due2 = Append(due, m)
    <3>1. m.svc = s /\ due \in Seq(Incidents)
      BY <1>1, <1>4
    <3>2. OneEach(Append(due, m)) /\ \A t : t # m.svc /\ Silent(due, t) => Silent(Append(due, m), t)
      BY <2>1, <3>1, OneEachMore
    <3> QED BY <2>1, <2>2, <2>4, <3>1, <3>2
  <2> QED BY <1>4, <2>3, <2>4
<1>8. ReportInv'
  <2>1. PICK open, open2 : open = DOMAIN openIncidents /\ open2 = DOMAIN openIncidents'
    OBVIOUS
  <2> SUFFICES ASSUME Calm, Attached("health"), NEW t \in DOMAIN lastStatus, lastStatus[t] # "online"
               PROVE  EndsOpen(due2, t, open2)
    BY <1>1, <1>2, <1>6, <2>1 DEF ReportInv, Followed
  <2>2. CASE t # s
    <3>1. EndsOpen(due, t, open) /\ (t \in open => t \in open2)
      BY <1>1, <2>1, <2>2 DEF OutageInv, ReportInv, Followed
    <3> DEFINE same == due2 = due
    <3>2. CASE due2 = due
      BY <3>1, <3>2 DEF EndsOpen
    <3>3. CASE due2 = Append(due, m)
      BY <1>1, <1>4, <2>2, <3>1, <3>3, OpenBeside
    <3> QED BY <1>4, <3>2, <3>3
  <2>3. CASE t = s
    <3>1. CASE due2 = Append(due, m) /\ feed' = Emitted(feed, m)
      <4>1. feed' # feed
        <5>1. Len(due2) = Len(due) + 1 /\ Len(due) \in Nat
          BY <1>4, <3>1, AppendIs
        <5> QED BY <1>1, <5>1 DEF Due
      <4>2. m.state = "open"
        BY <1>1, <2>3, <4>1
      <4> QED BY <1>1, <1>4, <2>3, <3>1, <4>2, OpenBehind
    <3>2. CASE due2 = due /\ feed' = feed
      <4>1. feed' # Emitted(feed, m)
        <5>1. Len(Append(due, m)) = Len(due) + 1 /\ Len(due) \in Nat
          BY <1>4, AppendIs
        <5>2. Emitted(feed, m).due["health"] = Append(due, m)
          BY <1>1 DEF OutageInv, FeedTyped, Emitted, Due
        <5> QED BY <1>1, <3>2, <5>1, <5>2 DEF Due
      <4>2. Followed(s) # "online" /\ open2 = open
        BY <1>1, <2>1, <2>3, <3>2, <4>1
      <4>3. EndsOpen(due, s, open)
        BY <1>1, <1>3, <2>1, <4>2 DEF OutageInv, ReportInv
      <4> QED BY <2>3, <3>2, <4>2, <4>3
    <3> QED BY <1>4, <3>1, <3>2
  <2> QED BY <2>2, <2>3
<1> QED BY <1>2, <1>5, <1>6, <1>7, <1>8 DEF OutageInv

LEMMA TransitionKeeps ==
  ASSUME OutageInv, Transition, UNCHANGED <<mode, client, bound, registryOnly, rings>>
  PROVE  OutageInv'
<1>1. /\ Busy /\ sampling' = IdleSampler /\ UNCHANGED <<samples, lastStatus, listed, bound>> /\ mode' = mode
  BY DEF Transition, Busy, IdleSampler
<1>2. /\ sampling.svc \in Services /\ lastStatus[sampling.svc] = sampling.to /\ Followed(sampling.svc) = sampling.from
      /\ samples \in Nat
  BY <1>1 DEF OutageInv, SamplerInv, Followed
<1>3. \A m : Emits(m) => /\ Wears
                         /\ feed' = Emitted(feed, m) \/ (feed' = feed /\ (~Attached("health") \/ ~Calm))
  BY WearsDown, <1>1 DEF Emits, Persists, Calm, Wears, FaultKinds, OutageInv
<1>4. CASE sampling.from = "online" /\ sampling.to # "online"
  <2>1. PICK m : /\ m = Incident(sampling.svc, IF sampling.to = "offline" THEN "P2" ELSE "P3")
                 /\ openIncidents' = With(openIncidents, sampling.svc, m) /\ Emits(m)
    BY <1>4 DEF Transition, Opens
  <2>2. m \in Incidents /\ m.svc = sampling.svc /\ m.state = "open"
    BY <1>2, <2>1 DEF Incident, Incidents
  <2>3. /\ \A t \in DOMAIN openIncidents' : openIncidents'[t] \in Incidents /\ openIncidents'[t].svc = t
        /\ \A t \in DOMAIN openIncidents : t \in DOMAIN openIncidents'
    BY <2>1, <2>2 DEF With, OutageInv, SamplerInv
  <2> QED BY <1>1, <1>3, <2>1, <2>2, <2>3, SettlesKeeps
<1>5. CASE sampling.from # "online" /\ sampling.to = "online"
  <2>1. CASE sampling.svc \notin DOMAIN openIncidents
    <3>1. PICK m \in Incidents : m = [id |-> samples, svc |-> sampling.svc, severity |-> "P2", state |-> "open"]
      BY <1>2 DEF Incidents
    <3>2. UNCHANGED <<left, openIncidents, feed>>
      BY <1>5, <2>1 DEF Transition, Closes
    <3> QED BY <1>1, <1>2, <1>5, <3>1, <3>2, SettlesKeeps DEF OutageInv, SamplerInv, Wears
  <2>2. CASE sampling.svc \in DOMAIN openIncidents
    <3>1. PICK m : /\ m = [openIncidents[sampling.svc] EXCEPT !.state = "closed"]
                   /\ openIncidents' = Without(openIncidents, {sampling.svc}) /\ Emits(m)
      BY <1>5, <2>2 DEF Transition, Closes
    <3>2. m \in Incidents /\ m.svc = sampling.svc
      BY <2>2, <3>1 DEF Incidents, OutageInv, SamplerInv
    <3>3. /\ \A t \in DOMAIN openIncidents' : openIncidents'[t] \in Incidents /\ openIncidents'[t].svc = t
          /\ \A t \in DOMAIN openIncidents : t # sampling.svc => t \in DOMAIN openIncidents'
      BY <3>1 DEF Without, OutageInv, SamplerInv
    <3> QED BY <1>1, <1>2, <1>3, <1>5, <3>1, <3>2, <3>3, SettlesKeeps
  <2> QED BY <2>1, <2>2
<1>6. CASE ~(sampling.from = "online" /\ sampling.to # "online") /\ ~(sampling.from # "online" /\ sampling.to = "online")
  <2>1. PICK m \in Incidents : m = [id |-> samples, svc |-> sampling.svc, severity |-> "P2", state |-> "open"]
    BY <1>2 DEF Incidents
  <2>2. UNCHANGED <<left, openIncidents, feed>>
    BY <1>6 DEF Transition
  <2>3. lastStatus[sampling.svc] = "online" \/ Followed(sampling.svc) # "online"
    BY <1>2, <1>6
  <2> QED BY <1>1, <2>1, <2>2, <2>3, SettlesKeeps DEF OutageInv, SamplerInv, Wears
<1> QED BY <1>4, <1>5, <1>6

LEMMA ApplyKeeps ==
  ASSUME OutageInv, ApplyIncident, UNCHANGED <<mode, client, bound, registryOnly, rings>>
  PROVE  OutageInv'
<1>1. /\ Attached("health") /\ Due # << >> /\ mode' = mode /\ Acks("health")
      /\ UNCHANGED <<listed, samples, lastStatus, sampling, bound>>
  BY DEF ApplyIncident, Waiting, Due
<1>2. PICK due, due2, m : due = Due /\ due2 = Due' /\ m = Head(due)
  OBVIOUS
<1>3. due \in Seq(Incidents) /\ due # << >> /\ m \in Incidents /\ m = due[1] /\ Len(due) \in Nat \ {0} /\ Tail(due) \in Seq(Incidents)
  BY <1>1, <1>2, TailIs DEF OutageInv, FeedTyped, Due
<1>4. \/ m.state = "open" /\ openIncidents' = With(openIncidents, m.svc, m)
      \/ m.state = "closed" /\ openIncidents' = Without(openIncidents, {m.svc})
  BY <1>2, Zenon DEF ApplyIncident, Delivered, Due
<1>5. PICK open, open2 : open = DOMAIN openIncidents /\ open2 = DOMAIN openIncidents'
  OBVIOUS
<1>6. /\ m.state = "open" => open2 = open \cup {m.svc}
      /\ m.state = "closed" => open2 = open \ {m.svc}
      /\ \A t \in open2 : openIncidents'[t] \in Incidents /\ openIncidents'[t].svc = t
  BY <1>3, <1>4, <1>5 DEF With, Without, OutageInv, SamplerInv
<1>7. Wears
  BY <1>1 DEF Acks, Wears, FaultKinds
<1>8. FaultInv' /\ (FirstLife' => FirstLife) /\ (Calm' => Calm) /\ (Attached("health")' <=> Attached("health"))
  BY <1>1, <1>7, WearsDown DEF OutageInv, bound, Attached
<1>9. /\ due2 = Tail(due) \/ (due2 = Append(Tail(due), m) /\ Fault("ack"))
      /\ FeedTyped' /\ feed'.kept = feed.kept
  <2>1. PICK queue \in Seq(Incidents) : /\ feed' = [feed EXCEPT !.due["health"] = queue]
                                        /\ queue = Tail(due) \/ (queue = Append(Tail(due), m) /\ Fault("ack"))
    BY <1>1, <1>2, <1>3, AppendIs DEF Acks, Acknowledged, Redelivered, Due
  <2> QED BY <1>2, <2>1 DEF OutageInv, FeedTyped, Due
<1>10. SamplerInv' /\ BindInv'
  BY <1>1, <1>5, <1>6, <1>8 DEF OutageInv, SamplerInv, BindInv, Busy, bound
<1>11. FreshInv'
  BY <1>1, <1>8 DEF OutageInv, FreshInv
<1>12. OneInv'
  <2> SUFFICES ASSUME FirstLife, Attached("health")
               PROVE  OneEach(due2) /\ \A t \in Services : Underway(t) => Silent(due2, t)
    BY <1>1, <1>2, <1>8 DEF OneInv, Underway, Busy
  <2>1. OneEach(due) /\ \A t \in Services : Underway(t) => Silent(due, t)
    BY <1>1, <1>2 DEF OutageInv, OneInv
  <2>2. /\ OneEach(Tail(due)) /\ Silent(Tail(due), m.svc)
        /\ \A t : Silent(due, t) => Silent(Tail(due), t)
    BY <1>2, <1>3, <2>1, OneEachTail
  <2>3. \A t : Silent(due, t) => t # m.svc
    BY <1>3 DEF Silent
  <2>4. OneEach(Append(Tail(due), m)) /\ \A t : t # m.svc /\ Silent(Tail(due), t) => Silent(Append(Tail(due), m), t)
    BY <1>3, <2>2, OneEachMore
  <2> QED BY <1>9, <2>1, <2>2, <2>3, <2>4
<1>13. ReportInv'
  <2> SUFFICES ASSUME Calm, NEW t \in DOMAIN lastStatus, Followed(t) # "online"
               PROVE  EndsOpen(due2, t, open2)
    BY <1>1, <1>2, <1>5, <1>8 DEF ReportInv, Followed, Busy
  <2>1. EndsOpen(due, t, open)
    BY <1>1, <1>2, <1>5 DEF OutageInv, ReportInv
  <2>2. CASE due2 = Tail(due)
    BY <1>2, <1>3, <1>6, <2>1, <2>2, OpenTaken
  <2>3. CASE due2 = Append(Tail(due), m) /\ Fault("ack")
    <3>1. FirstLife
      BY <1>1, <1>7, <2>3, WearsDown DEF Calm, OutageInv
    <3>2. OneEach(due)
      BY <1>1, <1>2, <3>1 DEF OutageInv, OneInv
    <3> QED BY <1>2, <1>3, <1>6, <2>1, <2>3, <3>2, OpenAgain
  <2> QED BY <1>9, <2>2, <2>3
<1> QED BY <1>8, <1>9, <1>10, <1>11, <1>12, <1>13 DEF OutageInv

LEMMA NextOutage == OutageInv /\ [Next]_vars => OutageInv'
<1> SUFFICES ASSUME OutageInv, [Next]_vars PROVE OutageInv'
  OBVIOUS
<1>1. CASE UNCHANGED vars
  BY <1>1, NothingAside, AsideKeeps
<1>2. CASE (Flap \/ ClientStep \/ \E p \in Projections : Poll(p)) /\ UNCHANGED <<registered, monitored, rings>>
  BY <1>2, ClientAside, AsideKeeps
<1>3. CASE RegistryStep /\ UNCHANGED <<monitored, rings>>
  BY <1>3, RegistryAside, AsideKeeps
<1>4. CASE (StartHealth \/ StartAlerts \/ StartLogs) /\ UNCHANGED <<registered, rings>>
  BY <1>4, StartHealthKeeps, ListenerAside, AsideKeeps
<1>5. CASE HealthStep /\ UNCHANGED <<mode, client, bound, registryOnly, rings>>
  BY <1>5, StartPassKeeps, LookNextKeeps, TransitionKeeps, ApplyKeeps, ConsumerAside, AsideKeeps DEF HealthStep
<1>6. CASE RingsStep /\ UNCHANGED <<mode, client, bound, registered, monitored>>
  BY <1>6, RingsAside, AsideKeeps
<1>7. CASE Restart
  BY <1>7, RestartKeeps
<1> QED BY <1>1, <1>2, <1>3, <1>4, <1>5, <1>6, <1>7 DEF Next

\* A service last seen unwell has an incident open whenever nothing about it is
\* under way, however often the process was restarted and its own events were
\* replayed to it (applyIncident(), sample()).
THEOREM OutagesAreReported == Spec => []UnwellIsReported
<1>1. OutageInv => UnwellIsReported
  <2> SUFFICES ASSUME OutageInv, Quiet, Calm, NEW s \in DOMAIN lastStatus, lastStatus[s] # "online"
               PROVE  s \in DOMAIN openIncidents
    BY DEF UnwellIsReported, Calm
  <2>1. Attached("health") /\ ~Busy /\ Due = << >>
    BY DEF Quiet, Busy, Waiting, Due
  <2>2. PICK due, open : due = Due /\ open = DOMAIN openIncidents
    OBVIOUS
  <2>3. EndsOpen(due, s, open)
    BY <2>1, <2>2 DEF OutageInv, ReportInv, Followed
  <2> QED BY <2>1, <2>2, <2>3, NoneDue
<1> QED BY <1>1, InitOutage, NextOutage, PTL DEF Spec
=============================================================================
