---------------------------- MODULE RoadmapProofs ----------------------------
(***************************************************************************)
(* A key result that has to fall reads as its mirror image, for any plan,  *)
(* any points and any measures: the arithmetic of roadmap.trajectory.ts is *)
(* even in the direction.  One request at a time leaves every ticket the   *)
(* reference its row gave it.  And milestones ticked off never take an     *)
(* objective back.                                                         *)
(***************************************************************************)
EXTENDS Roadmap, FiniteSetTheorems, WellFoundedInduction, TLAPS

-----------------------------------------------------------------------------
(***************************************************************************)
(* The arithmetic.                                                         *)
(***************************************************************************)
Mirror(f) == [d \in DOMAIN f |-> -f[d]]

\* Values by date: what a plan, its actuals and a metric's snapshots are.
IsSeries(f) == DOMAIN f \subseteq Days /\ \A d \in DOMAIN f : f[d] \in Int

Opposite(value) == IF value = None THEN None ELSE -value

LEMMA NoneIsNoNumber == None \notin Int /\ None \notin Int \X Int /\ LastDay \in Nat
  BY RoadmapAssumption

LEMMA MirrorIsSeries ==
    ASSUME NEW f, IsSeries(f)
    PROVE  /\ IsSeries(Mirror(f)) /\ DOMAIN Mirror(f) = DOMAIN f
           /\ \A d \in DOMAIN f : Mirror(f)[d] = -f[d]
  BY DEF Mirror, IsSeries

\* Days have a first and a last.
LEMMA FirstDay ==
    ASSUME NEW S, S \subseteq Days, S # {}
    PROVE  Min(S) \in S /\ \A d \in S : Min(S) <= d
  <1> DEFINE Less == OpToRel(<, Nat)
  <1>1. S \subseteq Nat
    BY DEF Days
  <1>2. IsWellFoundedOn(Less, Nat) /\ \A x, y \in Nat : y < x => <<y, x>> \in Less
    BY NatLessThanWellFounded DEF OpToRel
  <1> HIDE DEF Less
  <1>3. PICK x \in S : \A y \in S : ~(<<y, x>> \in Less)
    BY <1>1, <1>2, WFMin
  <1>4. \A y \in S : ~(y < x)
    BY <1>1, <1>2, <1>3
  <1>5. \A y \in S : x <= y
    BY <1>1, <1>4
  <1> QED
    BY <1>5 DEF Min

LEMMA FinalDay ==
    ASSUME NEW S, S \subseteq Days, S # {}
    PROVE  Max(S) \in S /\ \A d \in S : d <= Max(S)
  <1> DEFINE left == {LastDay - d : d \in S}
  <1>1. left \subseteq Days /\ left # {}
    <2>1. \A d \in Days : LastDay - d \in Days
      BY NoneIsNoNumber DEF Days
    <2> QED
      BY <2>1
  <1>2. Min(left) \in left /\ \A d \in left : Min(left) <= d
    BY <1>1, FirstDay
  <1>3. PICK x \in S : Min(left) = LastDay - x
    BY <1>2
  <1>4. \A d \in S : LastDay - x <= LastDay - d
    BY <1>2, <1>3
  <1>5. \A d \in S : x >= d
    BY <1>4, NoneIsNoNumber DEF Days
  <1>6. Max(S) \in S /\ \A d \in S : Max(S) >= d
    BY <1>5 DEF Max
  <1> QED
    BY <1>6 DEF Days

LEMMA RatioMirrors ==
    ASSUME NEW n \in Int, NEW d \in Int, d # 0
    PROVE  ClampRatio(-n, -d) = ClampRatio(n, d)
  <1>1. -(-n) = n /\ -(-d) = d /\ (-d < 0 <=> ~(d < 0))
    OBVIOUS
  <1> QED
    BY <1>1 DEF ClampRatio

LEMMA ProgressMirrors ==
    ASSUME NEW current \in Int \cup {None}, NEW baseline \in Int, NEW target \in Int
    PROVE  KeyResultProgress(Opposite(current), -baseline, -target)
             = KeyResultProgress(current, baseline, target)
  <1>1. CASE current = None \/ target = baseline
    BY <1>1, NoneIsNoNumber DEF KeyResultProgress, Opposite
  <1>2. CASE current # None /\ target # baseline
    <2>1. current \in Int /\ Opposite(current) = -current /\ -current \in Int
      BY <1>2 DEF Opposite
    <2>2. -current - (-baseline) = -(current - baseline) /\ -target - (-baseline) = -(target - baseline)
      BY <2>1
    <2>3. ClampRatio(-(current - baseline), -(target - baseline)) = ClampRatio(current - baseline, target - baseline)
      BY <1>2, <2>1, RatioMirrors
    <2>4. KeyResultProgress(current, baseline, target) = ClampRatio(current - baseline, target - baseline)
      BY <1>2 DEF KeyResultProgress
    <2>5. Opposite(current) # None /\ -target # -baseline
      BY <1>2, <2>1, NoneIsNoNumber
    <2>6. KeyResultProgress(Opposite(current), -baseline, -target)
            = ClampRatio(-current - (-baseline), -target - (-baseline))
      BY <2>1, <2>5 DEF KeyResultProgress
    <2> QED
      BY <2>2, <2>3, <2>4, <2>6
  <1> QED
    BY <1>1, <1>2

LEMMA CurrentMirrors ==
    ASSUME NEW metric, NEW actuals, IsSeries(actuals), NEW measures, IsSeries(measures), NEW now \in Days
    PROVE  /\ CurrentValue(metric, actuals, measures, now) \in Int \cup {None}
           /\ CurrentValue(metric, Mirror(actuals), Mirror(measures), now)
                = Opposite(CurrentValue(metric, actuals, measures, now))
  <1> DEFINE seen(f) == {d \in DOMAIN f : d <= now}
             series(a, s) == IF metric # None THEN Restrict(s, seen(s)) ELSE a
             f == series(actuals, measures)
             g == series(Mirror(actuals), Mirror(measures))
  <1>1. IsSeries(f) /\ DOMAIN g = DOMAIN f /\ \A d \in DOMAIN f : g[d] = -f[d]
    BY MirrorIsSeries DEF IsSeries, Restrict
  <1>2. /\ CurrentValue(metric, actuals, measures, now) = IF DOMAIN f = {} THEN None ELSE f[Max(DOMAIN f)]
        /\ CurrentValue(metric, Mirror(actuals), Mirror(measures), now)
             = IF DOMAIN g = {} THEN None ELSE g[Max(DOMAIN g)]
    BY DEF CurrentValue
  <1> HIDE DEF f, g
  <1>3. DOMAIN f # {} => Max(DOMAIN f) \in DOMAIN f
    BY <1>1, FinalDay DEF IsSeries
  <1>4. CASE DOMAIN f = {}
    BY <1>1, <1>2, <1>4 DEF Opposite
  <1>5. CASE DOMAIN f # {}
    <2>1. Max(DOMAIN f) \in DOMAIN f /\ f[Max(DOMAIN f)] \in Int
      BY <1>1, <1>3, <1>5 DEF IsSeries
    <2>2. g[Max(DOMAIN g)] = -f[Max(DOMAIN f)]
      BY <1>1, <2>1
    <2> QED
      BY <1>1, <1>2, <1>5, <2>1, <2>2, NoneIsNoNumber DEF Opposite
  <1> QED
    BY <1>4, <1>5

LEMMA LineMirrors ==
    ASSUME NEW a \in Int, NEW b \in Int, NEW x \in Int, NEW y \in Int
    PROVE  /\ a * x + (b - a) * y \in Int
           /\ (-a) * x + (-b - (-a)) * y = -(a * x + (b - a) * y)
  <1>1. (-a) * x = -(a * x) /\ a * x \in Int
    OBVIOUS
  <1>2. (-b - (-a)) * y = -((b - a) * y) /\ (b - a) * y \in Int
    OBVIOUS
  <1> HIDE <1>1
  <1> QED
    BY <1>1, <1>2

\* A plan and its mirror image, at one date: nothing, or opposite fractions.
Opposed(p, q) ==
    \/ p = None /\ q = None
    \/ \E n \in Int, d \in Nat \ {0} : p = <<n, d>> /\ q = <<-n, d>>

LEMMA PlannedMirrors ==
    ASSUME NEW f, IsSeries(f), NEW baseline \in Int, NEW now \in Days
    PROVE  Opposed(PlannedValueAt(now, baseline, f), PlannedValueAt(now, -baseline, Mirror(f)))
  <1> DEFINE dates == DOMAIN f
             g == Mirror(f)
             p == PlannedValueAt(now, baseline, f)
             q == PlannedValueAt(now, -baseline, g)
  <1>1. IsSeries(g) /\ DOMAIN g = dates /\ \A d \in dates : g[d] = -f[d]
    BY MirrorIsSeries
  <1>2. dates \subseteq Days /\ Days \subseteq Nat /\ \A d \in dates : f[d] \in Int
    BY DEF IsSeries, Days
  <1> HIDE DEF g
  <1>3. CASE dates = {}
    <2>1. p = None /\ q = None
      BY <1>1, <1>3 DEF PlannedValueAt
    <2> QED
      BY <2>1 DEF Opposed, g
  <1>4. CASE dates # {} /\ now < Min(dates)
    <2>1. p = <<baseline, 1>> /\ q = <<-baseline, 1>>
      <3>0. ~(now >= Max(dates))
        <4>1. Min(dates) \in Nat /\ Max(dates) \in Nat /\ Min(dates) <= Max(dates) /\ now \in Nat
          BY <1>2, <1>4, FirstDay, FinalDay
        <4> QED
          BY <1>4, <4>1
      <3>1. p = <<baseline, 1>>
        BY <1>4, <3>0 DEF PlannedValueAt
      <3>2. q = <<-baseline, 1>>
        BY <1>1, <1>4, <3>0 DEF PlannedValueAt
      <3> QED
        BY <3>1, <3>2
    <2> QED
      BY <2>1 DEF Opposed, g
  <1>5. CASE dates # {} /\ ~(now < Min(dates)) /\ now >= Max(dates)
    <2>1. Max(dates) \in dates
      BY <1>2, <1>5, FinalDay
    <2>2. p = <<f[Max(dates)], 1>>
      BY <1>5 DEF PlannedValueAt
    <2>3. q = <<g[Max(dates)], 1>>
      BY <1>1, <1>5 DEF PlannedValueAt
    <2>4. f[Max(dates)] \in Int /\ g[Max(dates)] = -f[Max(dates)]
      BY <1>1, <1>2, <2>1
    <2> QED
      BY <2>2, <2>3, <2>4 DEF Opposed, g
  <1>6. CASE dates # {} /\ ~(now < Min(dates)) /\ ~(now >= Max(dates))
    <2> DEFINE before == {d \in dates : d <= now}
               after == {d \in dates : d > now}
               from == Max(before)
               to == Min(after)
               n == f[from] * (to - from) + (f[to] - f[from]) * (now - from)
               m == g[from] * (to - from) + (g[to] - g[from]) * (now - from)
    <2>1. Min(dates) \in dates /\ Max(dates) \in dates
      BY <1>2, <1>6, FirstDay, FinalDay
    <2>2. Min(dates) \in before /\ Max(dates) \in after
      <3>1. now \in Nat /\ Min(dates) \in Nat /\ Max(dates) \in Nat
        BY <1>2, <2>1
      <3>2. Min(dates) <= now /\ Max(dates) > now
        BY <1>6, <3>1
      <3> QED
        BY <2>1, <3>2
    <2>3. before \subseteq Days /\ before # {} /\ after \subseteq Days /\ after # {}
      BY <1>2, <2>2
    <2>4. from \in before /\ to \in after
      BY <2>3, FirstDay, FinalDay
    <2>5. from \in Nat /\ to \in Nat /\ to - from \in Nat \ {0} /\ now - from \in Int
      <3>1. from \in Nat /\ to \in Nat /\ now \in Nat /\ from <= now /\ now < to
        BY <1>2, <2>4
      <3> QED
        BY <3>1
    <2>6. p = <<n, to - from>>
      BY <1>6 DEF PlannedValueAt, LatestBefore
    <2>7. q = <<m, to - from>>
      BY <1>1, <1>6 DEF PlannedValueAt, LatestBefore
    <2>8. f[from] \in Int /\ f[to] \in Int /\ g[from] = -f[from] /\ g[to] = -f[to]
      BY <1>1, <1>2, <2>4
    <2> HIDE DEF from, to
    <2>9. n \in Int /\ m = -n
      BY <2>5, <2>8, LineMirrors
    <2> HIDE DEF n, m
    <2> QED
      BY <2>5, <2>6, <2>7, <2>9 DEF Opposed, g
  <1> QED
    BY <1>3, <1>4, <1>5, <1>6

LEMMA StatusMirrors ==
    ASSUME NEW current \in Int \cup {None}, NEW p, NEW q, Opposed(p, q),
           NEW baseline \in Int, NEW target \in Int
    PROVE  OnTrackStatus(Opposite(current), q, -baseline, -target)
             = OnTrackStatus(current, p, baseline, target)
  <1>1. CASE current = None
    BY <1>1 DEF OnTrackStatus, Opposite
  <1>2. CASE p = None /\ q = None
    BY <1>2 DEF OnTrackStatus
  <1>3. CASE target = baseline
    BY <1>3 DEF OnTrackStatus
  <1>4. ASSUME current # None, target # baseline,
               NEW n \in Int, NEW d \in Nat \ {0}, p = <<n, d>>, q = <<-n, d>>, p # None, q # None
        PROVE  OnTrackStatus(Opposite(current), q, -baseline, -target)
                 = OnTrackStatus(current, p, baseline, target)
    <2> DEFINE Place(delta, span) ==
                 CASE delta >= span -> "ahead"
                   [] delta < span /\ delta >= -span -> "on_track"
                   [] delta < -span /\ delta >= -4 * span -> "at_risk"
                   [] OTHER -> "behind"
               sign == IF target > baseline THEN 1 ELSE -1
               turned == IF -target > -baseline THEN 1 ELSE -1
    <2>1. current \in Int /\ Opposite(current) = -current /\ -current \in Int /\ -current # None
          /\ -target # -baseline
      BY <1>4, NoneIsNoNumber DEF Opposite
    <2>2. OnTrackStatus(current, p, baseline, target)
            = Place(20 * sign * (current * d - n), sign * (target - baseline) * d)
      BY <1>4, <2>1 DEF OnTrackStatus
    <2>3. OnTrackStatus(-current, q, -baseline, -target)
            = Place(20 * turned * ((-current) * d - (-n)), turned * (-target - (-baseline)) * d)
      BY <1>4, <2>1 DEF OnTrackStatus
    <2> DEFINE x == current * d
    <2>4. (-current) * d = -x /\ x \in Int
      BY <2>1
    <2>5. turned = -sign /\ sign \in {1, -1}
      BY <1>4
    <2> HIDE DEF x, sign, turned, Place
    <2>6. 20 * turned * (-x - (-n)) = 20 * sign * (x - n)
      <3>1. CASE sign = 1
        BY <2>4, <2>5, <3>1
      <3>2. CASE sign = -1
        BY <2>4, <2>5, <3>2
      <3> QED
        BY <2>5, <3>1, <3>2
    <2>7. turned * (-target - (-baseline)) = sign * (target - baseline)
      <3>1. CASE sign = 1
        BY <2>5, <3>1
      <3>2. CASE sign = -1
        BY <2>5, <3>2
      <3> QED
        BY <2>5, <3>1, <3>2
    <2>8. 20 * turned * ((-current) * d - (-n)) = 20 * sign * (current * d - n)
      BY <2>4, <2>6 DEF x
    <2> QED
      BY <2>1, <2>2, <2>3, <2>7, <2>8
  <1>5. \A n \in Int, d \in Nat \ {0} : <<n, d>> # None /\ <<-n, d>> # None
    <2>1. \A n \in Int, d \in Nat \ {0} : <<n, d>> \in Int \X Int /\ <<-n, d>> \in Int \X Int
      OBVIOUS
    <2> QED
      BY <2>1, NoneIsNoNumber
  <1> QED
    BY <1>1, <1>2, <1>3, <1>4, <1>5 DEF Opposed

-----------------------------------------------------------------------------
(***************************************************************************)
(* The rows, and what a request in flight has read of them.                *)
(***************************************************************************)
IsText(text) == \E S : text \in Seq(S)

KeyResultRow(row) ==
    /\ row = [objective |-> row.objective, metric |-> row.metric, direction |-> row.direction,
              baseline |-> row.baseline, target |-> row.target]
    /\ row.metric \in DOMAIN Metrics \cup {None} /\ row.baseline \in Int /\ row.target \in Int

PointRow(row) ==
    /\ row = [keyResult |-> row.keyResult, date |-> row.date, target |-> row.target, actual |-> row.actual]
    /\ row.date \in Days /\ row.target \in Int \cup {None} /\ row.actual \in Int \cup {None}

ObjectiveRow(row) == "progress" \in DOMAIN row /\ row.progress \in Int

InitiativeRow(row) == {"prefix", "progress"} \subseteq DOMAIN row /\ IsText(row.prefix) /\ row.progress \in Int

TicketRow(row) == {"project", "open", "numbered", "number", "reference"} \subseteq DOMAIN row

Lone(m) == Cardinality(m.handlers) = 1

\* A row that is there still has the prefix that was read.
Current(table, i, prefix) == i \in DOMAIN table => table[i].prefix = prefix

Filed(filed, i) == \E t \in DOMAIN filed : filed[t].numbered = i

\* The row that numbered a ticket, if it is there, made its reference.
Numbered(row, table) ==
    /\ row.numbered \in DOMAIN table \cup {None}
    /\ row.numbered \in DOMAIN table =>
          row.reference = TaskReference(table[row.numbered].prefix, row.number)

\* A request h that waits at r, the rows being `table` and the tickets `filed`.
HandOK(h, r, m, table, filed) ==
    /\ "at" \in DOMAIN r
    /\ r.at # "idle" => h \in m.handlers
    /\ r.at \in {"parent", "children", "saveObjective"} => "row" \in DOMAIN r /\ ObjectiveRow(r.row)
    /\ r.at = "saveKeyResult" => KeyResultRow(r.row)
    /\ r.at = "savePoint" => PointRow(r.row)
    /\ r.at = "saveInitiatives" =>
          /\ DOMAIN r.rows \subseteq Initiatives
          /\ \A i \in DOMAIN r.rows :
                /\ InitiativeRow(r.rows[i])
                /\ Lone(m) => Current(table, i, r.rows[i].prefix) \/ ~Filed(filed, i)
    /\ r.at = "prefix" =>
          /\ IsText(r.prefix)
          /\ \E i \in Initiatives :
                /\ DOMAIN r.rows = {i} /\ InitiativeRow(r.rows[i])
                /\ Lone(m) => Current(table, i, r.rows[i].prefix)
    /\ r.at = "open" =>
          /\ r.id \in Initiatives /\ InitiativeRow(r.row)
          /\ Lone(m) => Current(table, r.id, r.row.prefix)
    /\ r.at = "nextTaskSeq" => (Lone(m) => Current(table, r.project, r.prefix))
    /\ r.at = "saveTicket" => TicketRow(r.row) /\ (Lone(m) => Numbered(r.row, table))

PlanOK ==
    /\ \A o \in DOMAIN objectives : ObjectiveRow(objectives[o])
    /\ \A k \in DOMAIN keyResults : KeyResultRow(keyResults[k])
    /\ \A p \in DOMAIN points : PointRow(points[p])

MeasuredOK ==
    /\ day \in Days
    /\ DOMAIN snapshots = DOMAIN Metrics /\ \A m \in DOMAIN Metrics : IsSeries(snapshots[m])

TableOK(table) == DOMAIN table \subseteq Initiatives /\ \A i \in DOMAIN table : InitiativeRow(table[i])

FiledOK(filed) == \A t \in DOMAIN filed : TicketRow(filed[t])

Readable(filed, table) == \A t \in DOMAIN filed : Numbered(filed[t], table)

WorkOK ==
    /\ TableOK(initiatives) /\ FiledOK(tickets)
    /\ Lone(mode) => Readable(tickets, initiatives)

HandsOK ==
    /\ req = [h \in Handlers |-> req[h]]
    /\ \A h \in Handlers : HandOK(h, req[h], mode, initiatives, tickets)

RoadmapInv == mode \in Modes /\ PlanOK /\ MeasuredOK /\ WorkOK /\ HandsOK

LEMMA ModesKnown ==
    ASSUME NEW m \in Modes
    PROVE  /\ m.handlers \subseteq Handlers /\ m.fresh \subseteq Initiatives
           /\ m.rows \in [DOMAIN m.rows -> InitiativeRows] /\ DOMAIN m.rows \subseteq Initiatives
  BY RoadmapAssumption

LEMMA OnlyOne ==
    ASSUME NEW m \in Modes, Lone(m), NEW h \in m.handlers, NEW g \in m.handlers
    PROVE  g = h
  <1>1. IsFiniteSet(m.handlers)
    BY RoadmapAssumption, ModesKnown, FS_Subset
  <1> QED
    BY <1>1, FS_Singleton DEF Lone

\* Whatever happens to the rows, the other requests stand: what one knows of
\* them matters only when there is no other.
LEMMA OthersStand ==
    ASSUME NEW m \in Modes, NEW h \in m.handlers, NEW g, g # h, NEW r,
           NEW table, NEW filed, HandOK(g, r, m, table, filed)
    PROVE  \A after, then : HandOK(g, r, m, after, then)
  <1>1. Lone(m) => r.at = "idle"
    BY OnlyOne DEF HandOK
  <1>2. CASE r.at = "idle"
    BY <1>2 DEF HandOK
  <1>3. CASE ~Lone(m)
    BY <1>3 DEF HandOK
  <1> QED
    BY <1>1, <1>2, <1>3

\* One step of request h, which waits at r after it.
LEMMA Moves ==
    ASSUME RoadmapInv, NEW h \in Handlers, h \in mode.handlers, NEW r, req' = [req EXCEPT ![h] = r],
           UNCHANGED mode, HandOK(h, r, mode, initiatives', tickets'),
           PlanOK', MeasuredOK', WorkOK'
    PROVE  RoadmapInv'
  <1>1. \A g \in Handlers : HandOK(g, req[g], mode, initiatives, tickets)
    BY DEF RoadmapInv, HandsOK
  <1>2. \A g \in Handlers : g # h => HandOK(g, req[g], mode, initiatives', tickets')
    BY <1>1, OthersStand DEF RoadmapInv
  <1>3. req' = [g \in Handlers |-> req'[g]] /\ \A g \in Handlers : req'[g] = IF g = h THEN r ELSE req[g]
    BY DEF RoadmapInv, HandsOK
  <1>4. HandsOK'
    BY <1>2, <1>3 DEF HandsOK
  <1> QED
    BY <1>4 DEF RoadmapInv

\* A request that has begun is one of those the behaviour explores.
LEMMA Begun ==
    ASSUME RoadmapInv, NEW h \in Handlers
    PROVE  /\ MayStart(h) => h \in mode.handlers
           /\ req[h].at # "idle" => h \in mode.handlers
           /\ HandOK(h, req[h], mode, initiatives, tickets)
  BY DEF RoadmapInv, HandsOK, HandOK, MayStart

\* It waits or ends, and nothing is written.
LEMMA Waits ==
    ASSUME RoadmapInv, NEW h \in Handlers, h \in mode.handlers, NEW r, Awaits(h, r),
           HandOK(h, r, mode, initiatives, tickets), UNCHANGED <<plan, measured, work>>
    PROVE  RoadmapInv'
  <1>1. req' = [req EXCEPT ![h] = r] /\ UNCHANGED mode
    BY DEF Awaits
  <1>2. PlanOK' /\ MeasuredOK' /\ WorkOK' /\ UNCHANGED <<initiatives, tickets>>
    BY <1>1 DEF RoadmapInv, plan, measured, work, PlanOK, MeasuredOK, WorkOK
  <1> QED
    BY <1>1, <1>2, Moves

\* It ends, or does without waiting, and the rows change.
LEMMA IdleOK ==
    ASSUME NEW h, NEW m, NEW table, NEW filed
    PROVE  HandOK(h, Idle, m, table, filed)
  BY DEF HandOK, Idle

LEMMA EndsWith ==
    ASSUME RoadmapInv, NEW h \in Handlers, h \in mode.handlers,
           Ends(h) \/ (req[h].at = "idle" /\ UNCHANGED <<mode, req>>),
           PlanOK', MeasuredOK', WorkOK'
    PROVE  RoadmapInv'
  <1>1. CASE Ends(h)
    BY <1>1, IdleOK, Moves DEF Ends, Awaits
  <1>2. CASE req[h].at = "idle" /\ UNCHANGED <<mode, req>>
    <2>1. req' = [req EXCEPT ![h] = req[h]]
      BY <1>2 DEF RoadmapInv, HandsOK
    <2>2. HandOK(h, req[h], mode, initiatives', tickets')
      BY <1>2, Begun DEF HandOK
    <2> QED
      BY <1>2, <2>1, <2>2, Moves
  <1> QED
    BY <1>1, <1>2

-----------------------------------------------------------------------------
\* Requests about objectives: what they hold is no row of the others.
Elsewhere(at) ==
    at \notin {"idle", "parent", "children", "saveObjective", "saveKeyResult", "savePoint",
               "saveInitiatives", "prefix", "open", "nextTaskSeq", "saveTicket"}

LEMMA ElsewhereOK ==
    ASSUME NEW h, NEW m, h \in m.handlers, NEW r, "at" \in DOMAIN r, Elsewhere(r.at), NEW table, NEW filed
    PROVE  HandOK(h, r, m, table, filed)
  BY DEF HandOK, Elsewhere

LEMMA GivenKnown ==
    ASSUME NEW S, NEW value \in S \cup {Keep}, NEW current \in S
    PROVE  Given(value, current) \in S
  BY DEF Given

\* The percentages that the bodies bring.
LEMMA ProgressKnown ==
    /\ \A dto \in ObjectiveBodies : ObjectiveRow(dto)
    /\ \A dto \in ObjectivePatches : dto.progress \in Int \cup {Keep}
    /\ \A dto \in InitiativeBodies : dto.progress \in Int
    /\ \A dto \in InitiativePatches : dto.progress \in Int \cup {Keep}
  <1>1. \A dto \in CreateObjectiveDto : ObjectiveRow(dto)
    BY DEF CreateObjectiveDto, ObjectiveRows, ObjectiveRow
  <1>2. \A dto \in UpdateObjectiveDto : dto.progress \in Int \cup {Keep}
    BY DEF UpdateObjectiveDto
  <1>3. \A dto \in CreateInitiativeDto : dto.progress \in Int
    BY DEF CreateInitiativeDto
  <1>4. \A dto \in UpdateInitiativeDto : dto.progress \in Int \cup {Keep}
    BY DEF UpdateInitiativeDto
  <1> QED
    BY <1>1, <1>2, <1>3, <1>4, WellFormedBodies

LEMMA ObjectivesKeep ==
    ASSUME RoadmapInv, NEW h \in Handlers, ObjectiveRequests(h), UNCHANGED <<measured, work>>
    PROVE  RoadmapInv'
  <1>0. PlanOK
    BY DEF RoadmapInv
  <1>1. ASSUME NEW r, Awaits(h, r), UNCHANGED plan, h \in mode.handlers, {"at", "row"} \subseteq DOMAIN r,
               r.at \in {"parent", "children", "saveObjective"}, ObjectiveRow(r.row)
        PROVE  RoadmapInv'
    <2>1. HandOK(h, r, mode, initiatives, tickets)
      BY <1>1 DEF HandOK
    <2> QED
      BY <1>1, <2>1, Waits
  <1>2. ASSUME Ends(h), UNCHANGED plan, h \in mode.handlers
        PROVE  RoadmapInv'
    BY <1>2, IdleOK, Waits DEF Ends
  <1>3. ASSUME NEW o, NEW dto \in ObjectiveBodies, CreateObjective(h, o, dto)
        PROVE  RoadmapInv'
    <2> DEFINE r == [at |-> "saveObjective", id |-> o, row |-> dto]
    <2>1. Awaits(h, r) /\ UNCHANGED plan /\ MayStart(h)
      BY <1>3 DEF CreateObjective
    <2>2. {"at", "row"} \subseteq DOMAIN r /\ r.at = "saveObjective" /\ ObjectiveRow(r.row)
      BY ProgressKnown
    <2> HIDE DEF r
    <2> QED
      BY <1>1, <2>1, <2>2, Begun
  <1>4. ASSUME NEW o, NEW dto \in ObjectivePatches, UpdateObjective(h, o, dto)
        PROVE  RoadmapInv'
    <2>1. PICK at, parent, year, quarter :
             /\ at \in {"parent", "saveObjective"} /\ MayStart(h) /\ UNCHANGED plan /\ o \in DOMAIN objectives
             /\ Awaits(h, [at |-> at, id |-> o,
                           row |-> [parent |-> parent, year |-> year, quarter |-> quarter,
                                    progress |-> Given(dto.progress, objectives[o].progress)]])
      BY <1>4 DEF UpdateObjective
    <2>2. PICK progress \in Int : progress = Given(dto.progress, objectives[o].progress)
      BY <1>0, <2>1, ProgressKnown, GivenKnown DEF PlanOK, ObjectiveRow
    <2> DEFINE row == [parent |-> parent, year |-> year, quarter |-> quarter, progress |-> progress]
               r == [at |-> at, id |-> o, row |-> row]
    <2>3. Awaits(h, r)
      BY <2>1, <2>2
    <2>4. {"at", "row"} \subseteq DOMAIN r /\ r.at \in {"parent", "saveObjective"} /\ ObjectiveRow(r.row)
      BY <2>1 DEF ObjectiveRow
    <2> HIDE DEF r
    <2> QED
      BY <1>1, <2>1, <2>3, <2>4, Begun
  <1>5. ASSUME CheckParent(h) \/ CheckChildren(h)
        PROVE  RoadmapInv'
    <2>1. req[h].at \in {"parent", "children"} /\ UNCHANGED plan
      BY <1>5 DEF CheckParent, CheckChildren, At
    <2>2. PICK at \in {"children", "saveObjective"} : Ends(h) \/ Awaits(h, [req[h] EXCEPT !.at = at])
      BY <1>5 DEF CheckParent, CheckChildren
    <2>3. h \in mode.handlers
      BY <2>1, Begun
    <2> DEFINE r == [req[h] EXCEPT !.at = at]
    <2>4. {"at", "row"} \subseteq DOMAIN r /\ r.at = at /\ ObjectiveRow(r.row)
      <3>1. {"at", "row"} \subseteq DOMAIN req[h] /\ ObjectiveRow(req[h].row)
        BY <2>1, Begun DEF HandOK
      <3>2. DOMAIN r = DOMAIN req[h] /\ r.at = at /\ r.row = req[h].row
        BY <3>1
      <3> QED
        BY <3>1, <3>2
    <2> HIDE DEF r
    <2>5. CASE Ends(h)
      BY <1>2, <2>1, <2>3, <2>5
    <2>6. CASE Awaits(h, r)
      BY <1>1, <2>1, <2>3, <2>4, <2>6
    <2> QED
      BY <2>2, <2>5, <2>6 DEF r
  <1>6. ASSUME SaveObjective(h)
        PROVE  RoadmapInv'
    <2>1. h \in mode.handlers /\ req[h].at = "saveObjective" /\ Ends(h) /\ UNCHANGED <<keyResults, points>>
      BY <1>6, Begun DEF SaveObjective, At
    <2>2. PICK o, row : o = req[h].id /\ row = req[h].row
      OBVIOUS
    <2>3. ObjectiveRow(row)
      BY <2>1, <2>2, Begun DEF HandOK
    <2>4. objectives' \in {With(objectives, o, row), objectives}
      BY <1>6, <2>2 DEF SaveObjective
    <2>5. \A q \in DOMAIN objectives' : ObjectiveRow(objectives'[q])
      BY <1>0, <2>3, <2>4 DEF PlanOK, With
    <2>6. PlanOK'
      BY <1>0, <2>1, <2>5 DEF PlanOK
    <2>7. MeasuredOK' /\ WorkOK'
      BY <2>1 DEF RoadmapInv, MeasuredOK, WorkOK, measured, work, Ends, Awaits
    <2> QED
      BY <2>1, <2>6, <2>7, EndsWith
  <1> QED
    BY <1>3, <1>4, <1>5, <1>6 DEF ObjectiveRequests

-----------------------------------------------------------------------------
\* Key results and the points of their trajectories.
LEMMA PlanWritten ==
    ASSUME RoadmapInv, NEW h \in Handlers, h \in mode.handlers,
           Ends(h) \/ (req[h].at = "idle" /\ UNCHANGED <<mode, req>>),
           PlanOK', UNCHANGED <<measured, work>>
    PROVE  RoadmapInv'
  <1>1. MeasuredOK' /\ WorkOK'
    BY DEF RoadmapInv, MeasuredOK, WorkOK, measured, work, Ends, Awaits
  <1> QED
    BY <1>1, EndsWith

LEMMA BodiesKnown ==
    /\ \A dto \in KeyResultBodies :
          dto.metric \in DOMAIN Metrics \cup {None} /\ dto.baseline \in Int /\ dto.target \in Int
    /\ \A dto \in KeyResultPatches :
          /\ dto.metric \in DOMAIN Metrics \cup {None, Keep}
          /\ dto.baseline \in Int \cup {Keep} /\ dto.target \in Int \cup {Keep}
    /\ \A dto \in PointPatches :
          dto.target \in Int \cup {None, Keep} /\ dto.actual \in Int \cup {None, Keep}
    /\ \A values \in MetricValues, m \in DOMAIN Metrics : values[m] \in Int
  <1>1. \A dto \in CreateKeyResultDto :
           dto.metric \in DOMAIN Metrics \cup {None} /\ dto.baseline \in Int /\ dto.target \in Int
    BY DEF CreateKeyResultDto
  <1>2. \A dto \in UpdateKeyResultDto :
           /\ dto.metric \in DOMAIN Metrics \cup {None, Keep}
           /\ dto.baseline \in Int \cup {Keep} /\ dto.target \in Int \cup {Keep}
    BY DEF UpdateKeyResultDto
  <1>3. \A dto \in TrajectoryPointDto :
           dto.target \in Int \cup {None, Keep} /\ dto.actual \in Int \cup {None, Keep}
    BY DEF TrajectoryPointDto
  <1> QED
    BY <1>1, <1>2, <1>3, WellFormedBodies

LEMMA PointPatched ==
    ASSUME NEW point, PointRow(point), NEW dto \in PointPatches
    PROVE  PointRow(Patched(point, dto)) /\ Patched(point, dto).date = point.date
  <1>1. /\ dto.target \in (Int \cup {None}) \cup {Keep} /\ dto.actual \in (Int \cup {None}) \cup {Keep}
        /\ point.target \in Int \cup {None} /\ point.actual \in Int \cup {None}
    BY BodiesKnown DEF PointRow
  <1>2. /\ Given(dto.target, point.target) \in Int \cup {None}
        /\ Given(dto.actual, point.actual) \in Int \cup {None}
    BY <1>1, GivenKnown
  <1> DEFINE target == Given(dto.target, point.target)
             actual == Given(dto.actual, point.actual)
  <1>3. PICK k, d, t, a : point = [keyResult |-> k, date |-> d, target |-> t, actual |-> a]
    BY DEF PointRow
  <1>4. Patched(point, dto) = [point EXCEPT !.target = target, !.actual = actual]
    BY DEF Patched
  <1>5. target \in Int \cup {None} /\ actual \in Int \cup {None} /\ d \in Days /\ d = point.date
    BY <1>2, <1>3 DEF PointRow
  <1> HIDE DEF target, actual
  <1>6. Patched(point, dto) = [keyResult |-> k, date |-> d, target |-> target, actual |-> actual]
    BY <1>3, <1>4
  <1> QED
    BY <1>5, <1>6 DEF PointRow

RowWith(row, metric, direction, baseline, target) ==
    [row EXCEPT !.metric = metric, !.direction = direction, !.baseline = baseline, !.target = target]

LEMMA RowPatched ==
    ASSUME NEW row, KeyResultRow(row), NEW metric, NEW direction, NEW baseline, NEW target
    PROVE  RowWith(row, metric, direction, baseline, target)
             = [objective |-> row.objective, metric |-> metric, direction |-> direction,
                baseline |-> baseline, target |-> target]
  <1> DEFINE patched == RowWith(row, metric, direction, baseline, target)
  <1>1. DOMAIN row = {"objective", "metric", "direction", "baseline", "target"}
    <2>1. PICK o, m, d, b, t : row = [objective |-> o, metric |-> m, direction |-> d,
                                      baseline |-> b, target |-> t]
      BY DEF KeyResultRow
    <2> QED
      BY <2>1
  <1>2. patched = [f \in DOMAIN row |->
                     CASE f = "metric" -> metric [] f = "direction" -> direction
                       [] f = "baseline" -> baseline [] f = "target" -> target [] OTHER -> row[f]]
    BY <1>1 DEF RowWith
  <1> HIDE DEF patched
  <1> QED
    BY <1>1, <1>2 DEF patched

LEMMA KeyResultsKeep ==
    ASSUME RoadmapInv, NEW h \in Handlers, KeyResultRequests(h), UNCHANGED <<measured, work>>
    PROVE  RoadmapInv'
  <1>0. PlanOK
    BY DEF RoadmapInv
  <1>1. ASSUME NEW k, NEW o, NEW dto \in KeyResultBodies, CreateKeyResult(h, k, o, dto)
        PROVE  RoadmapInv'
    <2>1. PICK direction : /\ MayStart(h) /\ UNCHANGED plan
                           /\ Awaits(h, [at |-> "saveKeyResult", id |-> k, row |-> KeyResult(o, direction, dto)])
      BY <1>1 DEF CreateKeyResult
    <2> DEFINE row == KeyResult(o, direction, dto)
               r == [at |-> "saveKeyResult", id |-> k, row |-> row]
    <2>2. KeyResultRow(row)
      BY BodiesKnown DEF KeyResultRow, KeyResult
    <2>3. h \in mode.handlers
      BY <2>1, Begun
    <2> HIDE DEF row
    <2>4. HandOK(h, r, mode, initiatives, tickets)
      BY <2>2, <2>3 DEF HandOK
    <2>5. Awaits(h, r)
      BY <2>1 DEF row
    <2> HIDE DEF r
    <2> QED
      BY <2>1, <2>3, <2>4, <2>5, Waits
  <1>2. ASSUME NEW k, NEW dto \in KeyResultPatches, UpdateKeyResult(h, k, dto)
        PROVE  RoadmapInv'
    <2>1. PICK direction : /\ MayStart(h) /\ UNCHANGED plan /\ k \in DOMAIN keyResults
                           /\ Awaits(h, [at |-> "saveKeyResult", id |-> k,
                                         row |-> [keyResults[k] EXCEPT !.metric = Given(dto.metric, @),
                                                                       !.direction = direction,
                                                                       !.baseline = Given(dto.baseline, @),
                                                                       !.target = Given(dto.target, @)]])
      BY <1>2 DEF UpdateKeyResult
    <2> DEFINE was == keyResults[k]
               metric == Given(dto.metric, was.metric)
               baseline == Given(dto.baseline, was.baseline)
               target == Given(dto.target, was.target)
               row == [was EXCEPT !.metric = metric, !.direction = direction,
                                  !.baseline = baseline, !.target = target]
               r == [at |-> "saveKeyResult", id |-> k, row |-> row]
    <2>2. KeyResultRow(was)
      BY <1>0, <2>1 DEF PlanOK
    <2>3. metric \in DOMAIN Metrics \cup {None} /\ baseline \in Int /\ target \in Int
      <3>1. dto.metric \in (DOMAIN Metrics \cup {None}) \cup {Keep} /\ dto.baseline \in Int \cup {Keep}
            /\ dto.target \in Int \cup {Keep}
        BY BodiesKnown
      <3> QED
        BY <2>2, <3>1, GivenKnown DEF KeyResultRow
    <2>4. Awaits(h, r)
      BY <2>1
    <2> HIDE DEF metric, baseline, target, was
    <2>5. row = [objective |-> was.objective, metric |-> metric, direction |-> direction,
                 baseline |-> baseline, target |-> target]
      <3>1. row = RowWith(was, metric, direction, baseline, target)
        BY DEF RowWith
      <3> QED
        BY <2>2, <3>1, RowPatched
    <2> HIDE DEF row
    <2>6. KeyResultRow(row)
      BY <2>3, <2>5 DEF KeyResultRow
    <2>7. h \in mode.handlers
      BY <2>1, Begun
    <2>8. HandOK(h, r, mode, initiatives, tickets)
      BY <2>6, <2>7 DEF HandOK
    <2> HIDE DEF r
    <2> QED
      BY <2>1, <2>4, <2>7, <2>8, Waits
  <1>3. ASSUME NEW k, RemoveKeyResult(h, k)
        PROVE  RoadmapInv'
    <2>1. PlanOK'
      BY <1>0, <1>3 DEF RemoveKeyResult, PlanOK, Without
    <2> QED
      BY <1>3, <2>1, Begun, PlanWritten DEF RemoveKeyResult, MayStart
  <1>4. ASSUME NEW p, NEW k, NEW date \in Days, NEW dto \in PointPatches,
               AddTrajectoryPoint(h, p, k, date, dto)
        PROVE  RoadmapInv'
    <2> DEFINE point == IF PointAt(k, date) # {} THEN points[p] ELSE TrajectoryPoint(k, date)
               row == Patched(point, dto)
               r == [at |-> "savePoint", id |-> p, row |-> row]
    <2>1. /\ MayStart(h) /\ UNCHANGED plan /\ Awaits(h, r)
          /\ IF PointAt(k, date) = {} THEN TRUE ELSE p \in PointAt(k, date)
      BY <1>4 DEF AddTrajectoryPoint
    <2>2. PointRow(point)
      <3>1. PointRow(TrajectoryPoint(k, date))
        BY DEF PointRow, TrajectoryPoint
      <3>2. p \in PointAt(k, date) => PointRow(points[p])
        BY <1>0 DEF PlanOK, PointAt
      <3> QED
        BY <2>1, <3>1, <3>2
    <2> HIDE DEF point
    <2>3. PointRow(row)
      BY <2>2, PointPatched
    <2>4. h \in mode.handlers
      BY <2>1, Begun
    <2> HIDE DEF row
    <2>5. HandOK(h, r, mode, initiatives, tickets)
      BY <2>3, <2>4 DEF HandOK
    <2> HIDE DEF r
    <2> QED
      BY <2>1, <2>4, <2>5, Waits
  <1>5. ASSUME NEW p, NEW date \in Days \cup {Keep}, NEW dto \in PointPatches,
               UpdateTrajectoryPoint(h, p, date, dto)
        PROVE  RoadmapInv'
    <2> DEFINE moved == Given(date, points[p].date)
               patched == Patched(points[p], dto)
               row == [patched EXCEPT !.date = moved]
               r == [at |-> "savePoint", id |-> p, row |-> row]
    <2>1. MayStart(h) /\ UNCHANGED plan /\ Awaits(h, r) /\ p \in DOMAIN points
      BY <1>5 DEF UpdateTrajectoryPoint
    <2>2. PointRow(points[p])
      BY <1>0, <2>1 DEF PlanOK
    <2>3. PointRow(patched)
      BY <2>2, PointPatched
    <2>4. moved \in Days
      BY <2>2, GivenKnown DEF PointRow
    <2> HIDE DEF patched, moved
    <2>5. PointRow(row)
      BY <2>3, <2>4 DEF PointRow
    <2>6. h \in mode.handlers
      BY <2>1, Begun
    <2> HIDE DEF row
    <2>7. HandOK(h, r, mode, initiatives, tickets)
      BY <2>5, <2>6 DEF HandOK
    <2> HIDE DEF r
    <2> QED
      BY <2>1, <2>6, <2>7, Waits
  <1>6. ASSUME NEW p, RemoveTrajectoryPoint(h, p)
        PROVE  RoadmapInv'
    <2>1. PlanOK'
      BY <1>0, <1>6 DEF RemoveTrajectoryPoint, PlanOK, Without
    <2> QED
      BY <1>6, <2>1, Begun, PlanWritten DEF RemoveTrajectoryPoint, MayStart
  <1>7. ASSUME SaveKeyResult(h)
        PROVE  RoadmapInv'
    <2>1. req[h].at = "saveKeyResult" /\ h \in mode.handlers /\ Ends(h)
      BY <1>7, Begun DEF SaveKeyResult, At
    <2>2. KeyResultRow(req[h].row)
      BY <2>1, Begun DEF HandOK
    <2>3. PlanOK'
      BY <1>0, <1>7, <2>2 DEF SaveKeyResult, PlanOK, With
    <2> QED
      BY <2>1, <2>3, PlanWritten
  <1>8. ASSUME SavePoint(h)
        PROVE  RoadmapInv'
    <2>1. req[h].at = "savePoint" /\ h \in mode.handlers /\ Ends(h)
      BY <1>8, Begun DEF SavePoint, At
    <2>2. PointRow(req[h].row)
      BY <2>1, Begun DEF HandOK
    <2>3. PlanOK'
      BY <1>0, <1>8, <2>2 DEF SavePoint, PlanOK, With
    <2> QED
      BY <2>1, <2>3, PlanWritten
  <1> QED
    BY <1>1, <1>2, <1>3, <1>4, <1>5, <1>6, <1>7, <1>8 DEF KeyResultRequests

\* The calendar and the daily capture.
LEMMA MeasuresKeep ==
    ASSUME RoadmapInv, UNCHANGED <<mode, req, plan, work>>,
           NextDay \/ \E values \in MetricValues, tenants \in SUBSET {"tenant"} : CaptureDaily(values, tenants)
    PROVE  RoadmapInv'
  <1>1. MeasuredOK
    BY DEF RoadmapInv
  <1>2. ASSUME NextDay
        PROVE  MeasuredOK'
    <2>1. day' \in Days /\ snapshots' = snapshots
      BY <1>1, <1>2, NoneIsNoNumber DEF NextDay, MeasuredOK, Days
    <2> QED
      BY <1>1, <2>1 DEF MeasuredOK
  <1>3. ASSUME NEW values \in MetricValues, NEW tenants, CaptureDaily(values, tenants)
        PROVE  MeasuredOK'
    <2>1. /\ snapshots' = [m \in DOMAIN Metrics |-> With(snapshots[m], day, values[m])]
          /\ day' = day
      BY <1>3 DEF CaptureDaily
    <2>2. ASSUME NEW m \in DOMAIN Metrics
          PROVE  IsSeries(With(snapshots[m], day, values[m]))
      BY <1>1, BodiesKnown DEF MeasuredOK, IsSeries, With
    <2> QED
      BY <1>1, <2>1, <2>2 DEF MeasuredOK
  <1>4. MeasuredOK'
    <2>1. CASE NextDay
      BY <1>2, <2>1
    <2>2. CASE \E values \in MetricValues, tenants \in SUBSET {"tenant"} : CaptureDaily(values, tenants)
      BY <1>3, <2>2
    <2> QED
      BY <2>1, <2>2
  <1> QED
    BY <1>4 DEF RoadmapInv, PlanOK, WorkOK, HandsOK, plan, work

-----------------------------------------------------------------------------
(***************************************************************************)
(* Requests about initiatives, projects and their tickets.                 *)
(***************************************************************************)
LEMMA WorkWritten ==
    ASSUME RoadmapInv, NEW h \in Handlers, h \in mode.handlers,
           Ends(h) \/ (req[h].at = "idle" /\ UNCHANGED <<mode, req>>),
           WorkOK', UNCHANGED <<plan, measured>>
    PROVE  RoadmapInv'
  <1>1. PlanOK' /\ MeasuredOK'
    BY DEF RoadmapInv, PlanOK, MeasuredOK, plan, measured
  <1> QED
    BY <1>1, EndsWith

LEMMA EndsQuietly ==
    ASSUME RoadmapInv, NEW h \in Handlers, h \in mode.handlers, Ends(h), UNCHANGED <<plan, measured, work>>
    PROVE  RoadmapInv'
  BY IdleOK, Waits DEF Ends

\* It waits for something no invariant is about.
LEMMA WaitsElsewhere ==
    ASSUME RoadmapInv, NEW h \in Handlers, h \in mode.handlers, NEW r, Awaits(h, r),
           "at" \in DOMAIN r, Elsewhere(r.at), UNCHANGED <<plan, measured, work>>
    PROVE  RoadmapInv'
  BY ElsewhereOK, Waits

\* It waits to save rows that are theirs, or that no ticket is filed under.
LEMMA RowsWait ==
    ASSUME RoadmapInv, NEW h \in Handlers, h \in mode.handlers, NEW rows,
           Awaits(h, [at |-> "saveInitiatives", rows |-> rows]), UNCHANGED <<plan, measured, work>>,
           DOMAIN rows \subseteq Initiatives,
           \A i \in DOMAIN rows :
              /\ InitiativeRow(rows[i])
              /\ Lone(mode) => Current(initiatives, i, rows[i].prefix) \/ ~Filed(tickets, i)
    PROVE  RoadmapInv'
  <1> DEFINE r == [at |-> "saveInitiatives", rows |-> rows]
  <1>1. HandOK(h, r, mode, initiatives, tickets)
    BY DEF HandOK
  <1>2. Awaits(h, r)
    OBVIOUS
  <1> HIDE DEF r
  <1> QED
    BY <1>1, <1>2, Waits

LEMMA SingleKnown ==
    ASSUME NEW i, NEW row
    PROVE  DOMAIN Single(i, row) = {i} /\ Single(i, row)[i] = row
  BY DEF Single

\* A row saved with the prefix it had.
LEMMA RowWaits ==
    ASSUME RoadmapInv, NEW h \in Handlers, h \in mode.handlers, NEW i \in Initiatives, NEW row,
           Awaits(h, [at |-> "saveInitiatives", rows |-> Single(i, row)]), UNCHANGED <<plan, measured, work>>,
           InitiativeRow(row), Lone(mode) => Current(initiatives, i, row.prefix)
    PROVE  RoadmapInv'
  <1> DEFINE rows == Single(i, row)
  <1>1. DOMAIN rows = {i} /\ rows[i] = row
    BY SingleKnown
  <1>2. Awaits(h, [at |-> "saveInitiatives", rows |-> rows])
    OBVIOUS
  <1> HIDE DEF rows
  <1> QED
    BY <1>1, <1>2, RowsWait

\* A text and its continuation.
LEMMA Joined ==
    ASSUME NEW a, NEW b, IsText(a), IsText(b)
    PROVE  IsText(a \o b)
  <1>1. PICK S : a \in Seq(S)
    BY DEF IsText
  <1>2. PICK T : b \in Seq(T)
    BY DEF IsText
  <1>3. a \in Seq(S \cup T) /\ b \in Seq(S \cup T)
    BY <1>1, <1>2
  <1>4. a \o b \in Seq(S \cup T)
    BY <1>3
  <1> QED
    BY <1>4 DEF IsText

LEMMA DigitsAreText ==
    ASSUME NEW n
    PROVE  IsText(Digits(n)) /\ IsText(Padded(n))
  <1>1. IsText(Digits(n))
    <2>1. <<ToString(n)>> \in Seq({ToString(n)})
      OBVIOUS
    <2>2. <<ToString(n \div 10), ToString(n % 10)>> \in Seq({ToString(n \div 10), ToString(n % 10)})
      OBVIOUS
    <2> QED
      BY <2>1, <2>2 DEF Digits, IsText
  <1>2. IsText(<<"0">>)
    <2>1. <<"0">> \in Seq({"0"})
      OBVIOUS
    <2> QED
      BY <2>1 DEF IsText
  <1>3. IsText(<<"0">> \o Digits(n))
    BY <1>1, <1>2, Joined
  <1> QED
    BY <1>1, <1>3 DEF Padded

LEMMA TypedIsText ==
    /\ \A prefix \in TypedPrefixes : IsText(prefix)
    /\ \A base \in Bases : IsText(base)
  BY WellFormedBodies DEF IsText

LEMMA CandidateIsText ==
    ASSUME NEW base \in Bases, NEW n
    PROVE  IsText(Candidate(base, n))
  BY TypedIsText, DigitsAreText, Joined DEF Candidate

\* A reference starts with the prefix it is made of.
LEMMA ReferenceStarts ==
    ASSUME NEW prefix, IsText(prefix), NEW n
    PROVE  IsPrefix(prefix, TaskReference(prefix, n))
  <1> DEFINE tail == Padded(n)
  <1>1. IsText(tail)
    BY DigitsAreText
  <1>2. PICK S : prefix \in Seq(S)
    BY DEF IsText
  <1>3. PICK T : tail \in Seq(T)
    BY <1>1 DEF IsText
  <1> HIDE DEF tail
  <1> DEFINE A == S \cup T
  <1>4. prefix \in Seq(A) /\ tail \in Seq(A)
    BY <1>2, <1>3
  <1> HIDE DEF A
  <1>5. Len(prefix) <= Len(prefix \o tail)
    BY <1>4
  <1>6. SubSeq(prefix, 1, Len(prefix)) = SubSeq(prefix \o tail, 1, Len(prefix))
    BY <1>4
  <1> QED
    BY <1>5, <1>6 DEF IsPrefix, TaskReference, tail

\* A row that goes leaves its tickets without a project, and its numbers.
LEMMA RowDeleted ==
    ASSUME WorkOK, NEW i, DeleteInitiative(i), UNCHANGED mode
    PROVE  WorkOK'
  <1>1. /\ DOMAIN initiatives' = DOMAIN initiatives \ {i}
        /\ \A j \in DOMAIN initiatives' : initiatives'[j] = initiatives[j]
    BY DEF DeleteInitiative, Without
  <1>2. TableOK(initiatives')
    BY <1>1 DEF WorkOK, TableOK
  <1>3. None \notin DOMAIN initiatives'
    BY <1>2, RoadmapAssumption DEF TableOK
  <1>4. DOMAIN tickets' = DOMAIN tickets
    BY DEF DeleteInitiative
  <1>5. ASSUME NEW t \in DOMAIN tickets
        PROVE  /\ TicketRow(tickets'[t])
               /\ tickets'[t].numbered = IF tickets[t].numbered = i THEN None ELSE tickets[t].numbered
               /\ tickets'[t].reference = tickets[t].reference /\ tickets'[t].number = tickets[t].number
    <2>1. TicketRow(tickets[t])
      BY <1>5 DEF WorkOK, FiledOK
    <2>2. tickets'[t] = [tickets[t] EXCEPT !.project = IF @ = i THEN None ELSE @,
                                           !.numbered = IF @ = i THEN None ELSE @]
      BY <1>5 DEF DeleteInitiative
    <2> QED
      BY <2>1, <2>2 DEF TicketRow
  <1>6. FiledOK(tickets')
    BY <1>4, <1>5 DEF FiledOK
  <1>7. ASSUME Lone(mode), NEW t \in DOMAIN tickets
        PROVE  Numbered(tickets'[t], initiatives')
    <2>1. Numbered(tickets[t], initiatives)
      BY <1>7 DEF WorkOK, Readable
    <2> QED
      BY <1>1, <1>3, <1>5, <2>1 DEF Numbered
  <1> QED
    BY <1>2, <1>4, <1>6, <1>7 DEF WorkOK, Readable

\* Rows that are saved leave the references of the tickets what they are.
LEMMA RowsSaved ==
    ASSUME WorkOK, NEW rows, initiatives' = WithAll(initiatives, rows), UNCHANGED <<mode, tickets>>,
           DOMAIN rows \subseteq Initiatives,
           \A i \in DOMAIN rows :
              /\ InitiativeRow(rows[i])
              /\ Lone(mode) => Current(initiatives, i, rows[i].prefix) \/ ~Filed(tickets, i)
    PROVE  WorkOK'
  <1>1. /\ DOMAIN initiatives' = DOMAIN initiatives \cup DOMAIN rows
        /\ \A i \in DOMAIN initiatives' : initiatives'[i] = IF i \in DOMAIN rows THEN rows[i] ELSE initiatives[i]
    BY DEF WithAll
  <1>2. TableOK(initiatives')
    BY <1>1 DEF WorkOK, TableOK
  <1>3. FiledOK(tickets')
    BY DEF WorkOK, FiledOK
  <1>4. ASSUME Lone(mode), NEW t \in DOMAIN tickets
        PROVE  Numbered(tickets[t], initiatives')
    <2> DEFINE i == tickets[t].numbered
    <2>1. Numbered(tickets[t], initiatives)
      BY <1>4 DEF WorkOK, Readable
    <2>2. CASE i \in DOMAIN initiatives
      <3>1. initiatives'[i].prefix = initiatives[i].prefix
        <4>1. Filed(tickets, i)
          BY <1>4 DEF Filed
        <4>2. CASE i \in DOMAIN rows
          BY <1>1, <1>4, <2>2, <4>1, <4>2 DEF Current
        <4>3. CASE i \notin DOMAIN rows
          BY <1>1, <2>2, <4>3
        <4> QED
          BY <4>2, <4>3
      <3> QED
        BY <1>1, <2>1, <2>2, <3>1 DEF Numbered
    <2>3. CASE i = None
      <3>1. None \notin DOMAIN initiatives'
        BY <1>2, RoadmapAssumption DEF TableOK
      <3> QED
        BY <2>3, <3>1 DEF Numbered
    <2> QED
      BY <2>1, <2>2, <2>3 DEF Numbered
  <1>5. Lone(mode') => Readable(tickets', initiatives')
    BY <1>4 DEF Readable
  <1> QED
    BY <1>2, <1>3, <1>5 DEF WorkOK

\* Ranking the columns anew writes the status and the position of their cards.
Ranked(changed, rows) ==
    /\ DOMAIN changed \subseteq DOMAIN rows
    /\ \A j \in DOMAIN changed : \E s, n : changed[j] = [rows[j] EXCEPT !.status = s, !.position = n]

LEMMA PlanMoves ==
    ASSUME NEW rows, NEW moved \in DOMAIN rows, NEW status, NEW position
    PROVE  Ranked(PlanMove(rows, moved, status, position), rows)
  <1> DEFINE target == Column(rows, status, moved)
             source == Column(rows, rows[moved].status, moved) \ target
             index  == Min({position, Cardinality(target)})
             rank(i) == IF i = moved THEN index
                        ELSE IF i \in source THEN Rank(rows, source, i)
                        ELSE Rank(rows, target, i) + (IF Rank(rows, target, i) < index THEN 0 ELSE 1)
             placed(i) == [rows[i] EXCEPT !.status = IF i \in source THEN @ ELSE status,
                                          !.position = rank(i)]
             cards == {j \in target \cup source \cup {moved} : placed(j) # rows[j]}
  <1>1. PlanMove(rows, moved, status, position) = [i \in cards |-> placed(i)]
    BY DEF PlanMove
  <1>2. target \cup source \cup {moved} \subseteq DOMAIN rows
    BY DEF Column
  <1>3. cards \subseteq DOMAIN rows
    BY <1>2
  <1>4. \A i : \E s, n : placed(i) = [rows[i] EXCEPT !.status = s, !.position = n]
    OBVIOUS
  <1> HIDE DEF cards, placed
  <1> QED
    BY <1>1, <1>3, <1>4 DEF Ranked

\* Rows taken from the table with another field written are saved as theirs.
LEMMA RowsThere ==
    ASSUME RoadmapInv, NEW i \in DOMAIN initiatives
    PROVE  i \in Initiatives /\ InitiativeRow(initiatives[i])
  BY DEF RoadmapInv, WorkOK, TableOK

LEMMA BoardKeeps ==
    ASSUME RoadmapInv, NEW h \in Handlers, BoardRequests(h), UNCHANGED <<plan, measured>>
    PROVE  RoadmapInv'
  <1>0. WorkOK
    BY DEF RoadmapInv
  <1>1. ASSUME NEW i, NEW scope, NEW dto \in InitiativePatches, UpdateInitiative(h, i, scope, dto)
        PROVE  RoadmapInv'
    <2>1. h \in mode.handlers /\ i \in DOMAIN initiatives /\ UNCHANGED work
      BY <1>1, Begun DEF UpdateInitiative, VisibleAs, Visible
    <2>2. i \in Initiatives /\ InitiativeRow(initiatives[i])
      BY <2>1, RowsThere
    <2>3. PICK row : /\ row = [initiatives[i] EXCEPT !.objective = Given(dto.objective, @),
                                                     !.status = Given(dto.status, @),
                                                     !.progress = Given(dto.progress, @)]
                     /\ Awaits(h, [at |-> "saveInitiatives", rows |-> Single(i, row)])
      BY <1>1 DEF UpdateInitiative
    <2>4. InitiativeRow(row) /\ row.prefix = initiatives[i].prefix
      <3>1. PICK progress \in Int : progress = Given(dto.progress, initiatives[i].progress)
        BY <2>2, ProgressKnown, GivenKnown DEF InitiativeRow
      <3>2. DOMAIN row = DOMAIN initiatives[i] /\ row.prefix = initiatives[i].prefix /\ row.progress = progress
        BY <2>2, <2>3, <3>1 DEF InitiativeRow
      <3> QED
        BY <2>2, <3>2 DEF InitiativeRow
    <2> QED
      BY <2>1, <2>2, <2>3, <2>4, RowWaits DEF Current
  <1>2. ASSUME NEW i, NEW status, NEW n, Move(h, i, status, n)
        PROVE  RoadmapInv'
    <2> DEFINE r == [at |-> "columns", id |-> i, from |-> initiatives[i].status, to |-> status, position |-> n]
    <2>1. Awaits(h, r) /\ UNCHANGED work /\ h \in mode.handlers
      BY <1>2, Begun DEF Move
    <2>2. "at" \in DOMAIN r /\ Elsewhere(r.at)
      BY DEF Elsewhere
    <2> HIDE DEF r
    <2> QED
      BY <2>1, <2>2, WaitsElsewhere
  <1>3. ASSUME NEW i, RemoveInitiative(h, i)
        PROVE  RoadmapInv'
    <2>1. /\ h \in mode.handlers /\ req[h].at = "idle" /\ UNCHANGED <<mode, req>>
          /\ i \in Initiatives /\ DeleteInitiative(i)
      BY <1>3, Begun, RowsThere DEF RemoveInitiative, MayStart, VisibleAs, Visible
    <2>2. WorkOK'
      BY <1>0, <2>1, RowDeleted
    <2> QED
      BY <2>1, <2>2, WorkWritten
  <1>4. ASSUME PlanColumns(h)
        PROVE  RoadmapInv'
    <2>1. h \in mode.handlers /\ UNCHANGED work
      BY <1>4, Begun DEF PlanColumns, At
    <2> DEFINE r == req[h]
               columns == [j \in {k \in DOMAIN initiatives :
                                     VisibleAs(k, "initiative")
                                       /\ initiatives[k].status \in {r.from, r.to}} |-> initiatives[j]]
               changed == IF r.id \in DOMAIN columns THEN PlanMove(columns, r.id, r.to, r.position)
                             ELSE << >>
    <2>2. Ends(h) \/ Awaits(h, [at |-> "saveInitiatives", rows |-> changed])
      BY <1>4 DEF PlanColumns
    <2>3. Ranked(changed, columns)
      <3>1. CASE r.id \in DOMAIN columns
        <4>1. PICK rows, id, to, position :
                   rows = columns /\ id = r.id /\ to = r.to /\ position = r.position
          OBVIOUS
        <4>2. changed = PlanMove(rows, id, to, position)
          BY <3>1, <4>1
        <4> HIDE DEF columns, changed, r
        <4>3. id \in DOMAIN rows
          BY <3>1, <4>1
        <4>4. Ranked(PlanMove(rows, id, to, position), rows)
          BY <4>3, PlanMoves
        <4> QED
          BY <4>1, <4>2, <4>4
      <3>2. CASE r.id \notin DOMAIN columns
        BY <3>2 DEF Ranked
      <3> QED
        BY <3>1, <3>2
    <2>4. DOMAIN columns \subseteq DOMAIN initiatives /\ \A j \in DOMAIN columns : columns[j] = initiatives[j]
      OBVIOUS
    <2> HIDE DEF changed, columns
    <2>5. ASSUME NEW j \in DOMAIN changed
          PROVE  j \in Initiatives /\ InitiativeRow(changed[j]) /\ Current(initiatives, j, changed[j].prefix)
      <3>1. j \in DOMAIN initiatives /\ columns[j] = initiatives[j]
        BY <2>3, <2>4 DEF Ranked
      <3>2. j \in Initiatives /\ InitiativeRow(initiatives[j])
        BY <3>1, RowsThere
      <3>3. PICK s, n : changed[j] = [initiatives[j] EXCEPT !.status = s, !.position = n]
        BY <2>3, <3>1 DEF Ranked
      <3> QED
        BY <3>2, <3>3 DEF InitiativeRow, Current
    <2>6. CASE Awaits(h, [at |-> "saveInitiatives", rows |-> changed])
      <3>1. PICK rows : rows = changed
        OBVIOUS
      <3>2. Awaits(h, [at |-> "saveInitiatives", rows |-> rows])
        BY <2>6, <3>1
      <3>3. DOMAIN rows \subseteq Initiatives
            /\ \A j \in DOMAIN rows : InitiativeRow(rows[j]) /\ Current(initiatives, j, rows[j].prefix)
        BY <2>5, <3>1
      <3> QED
        BY <2>1, <3>2, <3>3, RowsWait
    <2> QED
      BY <2>1, <2>2, <2>6, EndsQuietly
  <1>5. ASSUME SaveInitiatives(h)
        PROVE  RoadmapInv'
    <2> DEFINE rows == req[h].rows
    <2>1. req[h].at = "saveInitiatives" /\ h \in mode.handlers /\ Ends(h) /\ UNCHANGED <<milestones, tickets>>
      BY <1>5, Begun DEF SaveInitiatives, At
    <2>2. initiatives' \in {WithAll(initiatives, rows), initiatives}
      BY <1>5 DEF SaveInitiatives
    <2>3. /\ DOMAIN rows \subseteq Initiatives
          /\ \A i \in DOMAIN rows :
                /\ InitiativeRow(rows[i])
                /\ Lone(mode) => Current(initiatives, i, rows[i].prefix) \/ ~Filed(tickets, i)
      BY <2>1, Begun DEF HandOK
    <2>4. WorkOK'
      <3> HIDE DEF rows
      <3>1. CASE initiatives' = WithAll(initiatives, rows)
        BY <1>0, <2>1, <2>3, <3>1, RowsSaved DEF Ends, Awaits
      <3>2. CASE initiatives' = initiatives
        BY <1>0, <2>1, <3>2 DEF WorkOK, Ends, Awaits
      <3> QED
        BY <2>2, <3>1, <3>2
    <2> QED
      BY <2>1, <2>4, WorkWritten
  <1> QED
    BY <1>1, <1>2, <1>3, <1>4, <1>5 DEF BoardRequests

LEMMA MilestonesKeep ==
    ASSUME RoadmapInv, NEW h \in Handlers, MilestoneRequests(h), UNCHANGED <<plan, measured>>
    PROVE  RoadmapInv'
  <1>1. ASSUME NEW m, NEW row, Awaits(h, [at |-> "saveMilestone", id |-> m, row |-> row]),
               MayStart(h), UNCHANGED work
        PROVE  RoadmapInv'
    <2> DEFINE r == [at |-> "saveMilestone", id |-> m, row |-> row]
    <2>1. "at" \in DOMAIN r /\ Elsewhere(r.at)
      BY DEF Elsewhere
    <2>2. Awaits(h, r)
      BY <1>1
    <2> HIDE DEF r
    <2> QED
      BY <1>1, <2>1, <2>2, Begun, WaitsElsewhere
  <1>2. ASSUME NEW m, NEW i, NEW done, AddMilestone(h, m, i, done)
        PROVE  RoadmapInv'
    BY <1>1, <1>2 DEF AddMilestone
  <1>3. ASSUME NEW m, NEW done, UpdateMilestone(h, m, done)
        PROVE  RoadmapInv'
    <2>1. PICK row : Awaits(h, [at |-> "saveMilestone", id |-> m, row |-> row])
      BY <1>3 DEF UpdateMilestone
    <2> QED
      BY <1>1, <1>3, <2>1 DEF UpdateMilestone
  <1>4. ASSUME SaveMilestone(h) \/ \E m \in Milestones : RemoveMilestone(h, m)
        PROVE  RoadmapInv'
    <2>1. /\ h \in mode.handlers /\ UNCHANGED <<initiatives, tickets>>
          /\ Ends(h) \/ (req[h].at = "idle" /\ UNCHANGED <<mode, req>>)
      BY <1>4, Begun DEF SaveMilestone, RemoveMilestone, MayStart, At
    <2>2. WorkOK'
      BY <2>1 DEF RoadmapInv, WorkOK, Ends, Awaits
    <2> QED
      BY <2>1, <2>2, WorkWritten
  <1> QED
    BY <1>2, <1>3, <1>4 DEF MilestoneRequests

LEMMA ReferencesKeep ==
    ASSUME RoadmapInv, NEW h \in Handlers, ReferenceRequests(h), UNCHANGED <<plan, measured>>
    PROVE  RoadmapInv'
  <1>0. WorkOK
    BY DEF RoadmapInv
  <1>1. ASSUME NEW i \in mode.fresh, NEW scope, NEW base \in Bases, NEW dto \in InitiativeBodies,
               CreateInitiative(h, i, scope, base, dto)
        PROVE  RoadmapInv'
    <2>1. PICK rank, n, row :
             /\ row = Initiative(scope, rank, Candidate(base, n), dto)
             /\ Awaits(h, [at |-> "saveInitiatives", rows |-> Single(i, row)])
      BY <1>1 DEF CreateInitiative, GenerateKeyPrefix
    <2>2. InitiativeRow(row)
      BY <2>1, CandidateIsText, ProgressKnown DEF Initiative, InitiativeRow
    <2>3. i \in Initiatives
      BY ModesKnown DEF RoadmapInv
    <2>4. h \in mode.handlers /\ i \notin DOMAIN initiatives /\ UNCHANGED work
      BY <1>1, Begun DEF CreateInitiative, Unused
    <2> QED
      BY <2>1, <2>2, <2>3, <2>4, RowWaits DEF Current
  <1>2. ASSUME NEW i, NEW prefix \in TypedPrefixes, UpdateKeyPrefix(h, i, prefix)
        PROVE  RoadmapInv'
    <2> DEFINE rows == Single(i, initiatives[i])
               r == [at |-> "prefix", rows |-> rows, prefix |-> prefix]
    <2>1. h \in mode.handlers /\ i \in DOMAIN initiatives /\ UNCHANGED work
      BY <1>2, Begun DEF UpdateKeyPrefix, VisibleAs, Visible
    <2>2. i \in Initiatives /\ InitiativeRow(initiatives[i])
      BY <2>1, RowsThere
    <2>3. DOMAIN rows = {i} /\ rows[i] = initiatives[i]
      BY DEF Single
    <2>4. Awaits(h, r)
      BY <1>2 DEF UpdateKeyPrefix
    <2> HIDE DEF rows
    <2>5. HandOK(h, r, mode, initiatives, tickets)
      BY <2>1, <2>2, <2>3, TypedIsText DEF HandOK, Current
    <2> HIDE DEF r
    <2> QED
      BY <2>1, <2>4, <2>5, Waits
  <1>3. ASSUME NEW i, NEW scope, UpdateScope(h, i, scope)
        PROVE  RoadmapInv'
    <2>1. h \in mode.handlers /\ i \in DOMAIN initiatives /\ UNCHANGED work
      BY <1>3, Begun DEF UpdateScope, Visible
    <2>2. i \in Initiatives /\ InitiativeRow(initiatives[i])
      BY <2>1, RowsThere
    <2>3. PICK row : /\ row = [initiatives[i] EXCEPT !.scope = scope]
                     /\ Awaits(h, [at |-> "saveInitiatives", rows |-> Single(i, row)])
      BY <1>3 DEF UpdateScope
    <2>4. InitiativeRow(row) /\ row.prefix = initiatives[i].prefix
      BY <2>2, <2>3 DEF InitiativeRow
    <2> QED
      BY <2>1, <2>2, <2>3, <2>4, RowWaits DEF Current
  <1>4. ASSUME NEW i, RemoveProject(h, i)
        PROVE  RoadmapInv'
    <2> DEFINE r == [at |-> "removeProject", id |-> i]
    <2>1. Awaits(h, r) /\ UNCHANGED work /\ h \in mode.handlers
      BY <1>4, Begun DEF RemoveProject
    <2>2. "at" \in DOMAIN r /\ Elsewhere(r.at)
      BY DEF Elsewhere
    <2> HIDE DEF r
    <2> QED
      BY <2>1, <2>2, WaitsElsewhere
  <1>5. ASSUME NEW i, ArchiveProject(h, i)
        PROVE  RoadmapInv'
    <2> DEFINE r == [at |-> "open", id |-> i, row |-> initiatives[i]]
    <2>1. Awaits(h, r) /\ UNCHANGED work /\ h \in mode.handlers /\ i \in DOMAIN initiatives
      BY <1>5, Begun DEF ArchiveProject, VisibleAs, Visible
    <2>2. i \in Initiatives /\ InitiativeRow(initiatives[i])
      BY <2>1, RowsThere
    <2>3. HandOK(h, r, mode, initiatives, tickets)
      BY <2>1, <2>2 DEF HandOK, Current
    <2> HIDE DEF r
    <2> QED
      BY <2>1, <2>3, Waits
  <1>6. ASSUME NEW i, UnarchiveProject(h, i)
        PROVE  RoadmapInv'
    <2>1. h \in mode.handlers /\ i \in DOMAIN initiatives /\ UNCHANGED work
      BY <1>6, Begun DEF UnarchiveProject, VisibleAs, Visible
    <2>2. i \in Initiatives /\ InitiativeRow(initiatives[i])
      BY <2>1, RowsThere
    <2>3. PICK row : /\ row = [initiatives[i] EXCEPT !.archived = FALSE]
                     /\ Awaits(h, [at |-> "saveInitiatives", rows |-> Single(i, row)])
      BY <1>6 DEF UnarchiveProject
    <2>4. InitiativeRow(row) /\ row.prefix = initiatives[i].prefix
      BY <2>2, <2>3 DEF InitiativeRow
    <2> QED
      BY <2>1, <2>2, <2>3, <2>4, RowWaits DEF Current
  <1>7. ASSUME CheckKeyPrefix(h)
        PROVE  RoadmapInv'
    <2>1. req[h].at = "prefix" /\ h \in mode.handlers /\ UNCHANGED work
      BY <1>7, Begun DEF CheckKeyPrefix, At
    <2>2. PICK rows, prefix : rows = req[h].rows /\ prefix = req[h].prefix
      OBVIOUS
    <2>3. IsText(prefix) /\ \E i \in Initiatives : /\ DOMAIN rows = {i} /\ InitiativeRow(rows[i])
                                                   /\ Lone(mode) => Current(initiatives, i, rows[i].prefix)
      BY <2>1, <2>2, Begun DEF HandOK
    <2>4. PICK i \in Initiatives : /\ DOMAIN rows = {i} /\ InitiativeRow(rows[i])
                                   /\ Lone(mode) => Current(initiatives, i, rows[i].prefix)
      BY <2>3
    <2>5. (CHOOSE j \in DOMAIN rows : TRUE) = i
      BY <2>4
    <2>6. \/ Ends(h)
          \/ /\ \A t \in DOMAIN tickets : ~IsPrefix(rows[i].prefix, tickets[t].reference)
             /\ Awaits(h, [at |-> "saveInitiatives", rows |-> [rows EXCEPT ![i].prefix = prefix]])
      BY <1>7, <2>2, <2>5 DEF CheckKeyPrefix
    <2>7. ASSUME \A t \in DOMAIN tickets : ~IsPrefix(rows[i].prefix, tickets[t].reference), Lone(mode)
          PROVE  ~Filed(tickets, i)
      <3> SUFFICES ASSUME NEW t \in DOMAIN tickets, tickets[t].numbered = i PROVE FALSE
        BY DEF Filed
      <3>1. Numbered(tickets[t], initiatives)
        BY <1>0, <2>7 DEF WorkOK, Readable
      <3>2. i \in DOMAIN initiatives
        BY <3>1, RoadmapAssumption DEF Numbered
      <3>3. tickets[t].reference = TaskReference(rows[i].prefix, tickets[t].number)
        BY <2>4, <2>7, <3>1, <3>2 DEF Numbered, Current
      <3> QED
        BY <2>4, <2>7, <3>3, ReferenceStarts DEF InitiativeRow
    <2>8. ASSUME \A t \in DOMAIN tickets : ~IsPrefix(rows[i].prefix, tickets[t].reference),
                 Awaits(h, [at |-> "saveInitiatives", rows |-> [rows EXCEPT ![i].prefix = prefix]])
          PROVE  RoadmapInv'
      <3>1. PICK new : new = [rows EXCEPT ![i].prefix = prefix]
        OBVIOUS
      <3>2. DOMAIN new = {i} /\ InitiativeRow(new[i])
        BY <2>3, <2>4, <3>1 DEF InitiativeRow
      <3>3. Awaits(h, [at |-> "saveInitiatives", rows |-> new])
        BY <2>8, <3>1
      <3> QED
        BY <2>1, <2>7, <2>8, <3>2, <3>3, RowsWait
    <2> QED
      BY <2>1, <2>6, <2>8, EndsQuietly
  <1>8. ASSUME DeleteProject(h)
        PROVE  RoadmapInv'
    <2>1. h \in mode.handlers /\ Ends(h) /\ DeleteInitiative(req[h].id)
      BY <1>8, Begun DEF DeleteProject, At
    <2>2. PICK i : i = req[h].id
      OBVIOUS
    <2>3. WorkOK'
      BY <1>0, <2>1, <2>2, RowDeleted DEF Ends, Awaits
    <2> QED
      BY <2>1, <2>3, WorkWritten
  <1>9. ASSUME CountOpenTickets(h)
        PROVE  RoadmapInv'
    <2>1. req[h].at = "open" /\ h \in mode.handlers /\ UNCHANGED work
      BY <1>9, Begun DEF CountOpenTickets, At
    <2>2. PICK i, was : i = req[h].id /\ was = req[h].row
      OBVIOUS
    <2>3. i \in Initiatives /\ InitiativeRow(was) /\ (Lone(mode) => Current(initiatives, i, was.prefix))
      BY <2>1, <2>2, Begun DEF HandOK
    <2>4. PICK row : row = [was EXCEPT !.archived = TRUE]
      OBVIOUS
    <2>5. InitiativeRow(row) /\ row.prefix = was.prefix
      BY <2>3, <2>4 DEF InitiativeRow
    <2>6. Ends(h) \/ Awaits(h, [at |-> "saveInitiatives", rows |-> Single(i, row)])
      BY <1>9, <2>2, <2>4 DEF CountOpenTickets
    <2>7. CASE Awaits(h, [at |-> "saveInitiatives", rows |-> Single(i, row)])
      BY <2>1, <2>3, <2>5, <2>7, RowWaits
    <2> QED
      BY <2>1, <2>6, <2>7, EndsQuietly
  <1> QED
    BY <1>1, <1>2, <1>3, <1>4, <1>5, <1>6, <1>7, <1>8, <1>9 DEF ReferenceRequests

LEMMA TicketsKeep ==
    ASSUME RoadmapInv, NEW h \in Handlers, TicketRequests(h), UNCHANGED <<plan, measured>>
    PROVE  RoadmapInv'
  <1>0. WorkOK
    BY DEF RoadmapInv
  <1>1. ASSUME NEW t, NEW i, NEW open, CreateTicket(h, t, i, open)
        PROVE  RoadmapInv'
    <2> DEFINE r == [at |-> "nextTaskSeq", id |-> t, open |-> open, project |-> i,
                     prefix |-> initiatives[i].prefix]
    <2>1. Awaits(h, r) /\ UNCHANGED work /\ h \in mode.handlers
      BY <1>1, Begun DEF CreateTicket
    <2>2. HandOK(h, r, mode, initiatives, tickets)
      BY <2>1 DEF HandOK, Current
    <2> HIDE DEF r
    <2> QED
      BY <2>1, <2>2, Waits
  <1>2. ASSUME NEW t, NEW i, NEW open, UpdateTicket(h, t, i, open)
        PROVE  RoadmapInv'
    <2>1. t \in DOMAIN tickets /\ UNCHANGED work /\ h \in mode.handlers
      BY <1>2, Begun DEF UpdateTicket
    <2>2. PICK row : row = [tickets[t] EXCEPT !.project = Given(i, @), !.open = open]
      OBVIOUS
    <2> DEFINE r == [at |-> "saveTicket", id |-> t, row |-> row]
    <2>3. Awaits(h, r)
      BY <1>2, <2>2 DEF UpdateTicket
    <2>4. TicketRow(tickets[t]) /\ (Lone(mode) => Numbered(tickets[t], initiatives))
      BY <1>0, <2>1 DEF WorkOK, FiledOK, Readable
    <2>5. /\ TicketRow(row) /\ row.numbered = tickets[t].numbered
          /\ row.number = tickets[t].number /\ row.reference = tickets[t].reference
      BY <2>2, <2>4 DEF TicketRow
    <2>6. Lone(mode) => Numbered(row, initiatives)
      BY <2>4, <2>5 DEF Numbered
    <2>7. HandOK(h, r, mode, initiatives, tickets)
      BY <2>1, <2>5, <2>6 DEF HandOK
    <2> HIDE DEF r
    <2> QED
      BY <2>1, <2>3, <2>7, Waits
  <1>3. ASSUME NEW t, RemoveTicket(h, t)
        PROVE  RoadmapInv'
    <2>1. /\ h \in mode.handlers /\ UNCHANGED <<initiatives, mode, req>> /\ req[h].at = "idle"
          /\ tickets' = Without(tickets, {t})
      BY <1>3, Begun DEF RemoveTicket, MayStart
    <2>2. WorkOK'
      BY <1>0, <2>1 DEF WorkOK, FiledOK, Readable, Without
    <2> QED
      BY <2>1, <2>2, WorkWritten
  <1>4. ASSUME NextTaskSeq(h)
        PROVE  RoadmapInv'
    <2>1. req[h].at = "nextTaskSeq" /\ h \in mode.handlers /\ UNCHANGED <<milestones, tickets>>
      BY <1>4, Begun DEF NextTaskSeq, At
    <2>2. PICK i, id, open, prefix : i = req[h].project /\ id = req[h].id /\ open = req[h].open
                                     /\ prefix = req[h].prefix
      OBVIOUS
    <2>3. Lone(mode) => Current(initiatives, i, prefix)
      BY <2>1, <2>2, Begun DEF HandOK
    <2>4. CASE i \notin DOMAIN initiatives
      <3>1. Ends(h) /\ UNCHANGED initiatives
        BY <1>4, <2>2, <2>4 DEF NextTaskSeq
      <3> QED
        BY <2>1, <3>1, EndsQuietly DEF work
    <2>5. CASE i \in DOMAIN initiatives
      <3>1. PICK n : n = initiatives[i].seq + 1
        OBVIOUS
      <3> DEFINE row == Ticket(i, open, prefix, n)
                 r == [at |-> "saveTicket", id |-> id, row |-> row]
      <3>2. Awaits(h, r) /\ initiatives' = [initiatives EXCEPT ![i].seq = @ + 1]
        BY <1>4, <2>2, <2>5, <3>1 DEF NextTaskSeq
      <3>3. DOMAIN initiatives' = DOMAIN initiatives
        BY <3>2
      <3>4. ASSUME NEW j \in DOMAIN initiatives
            PROVE  InitiativeRow(initiatives'[j]) /\ initiatives'[j].prefix = initiatives[j].prefix
        <4>1. InitiativeRow(initiatives[j])
          BY RowsThere
        <4>2. initiatives'[j] = IF j = i THEN [initiatives[j] EXCEPT !.seq = @ + 1] ELSE initiatives[j]
          BY <3>2
        <4> QED
          BY <4>1, <4>2 DEF InitiativeRow
      <3>5. TicketRow(row) /\ row.numbered = i /\ row.number = n /\ row.reference = TaskReference(prefix, n)
        BY DEF TicketRow, Ticket
      <3> HIDE DEF row
      <3>6. HandOK(h, r, mode, initiatives', tickets')
        BY <2>1, <2>3, <2>5, <3>3, <3>4, <3>5 DEF HandOK, Current, Numbered
      <3> HIDE DEF r
      <3>7. WorkOK'
        BY <1>0, <2>1, <3>2, <3>3, <3>4 DEF WorkOK, TableOK, FiledOK, Readable, Numbered, Awaits
      <3>8. PlanOK' /\ MeasuredOK'
        BY DEF RoadmapInv, PlanOK, MeasuredOK, plan, measured
      <3> QED
        BY <2>1, <3>2, <3>6, <3>7, <3>8, Moves DEF Awaits
    <2> QED
      BY <2>4, <2>5
  <1>5. ASSUME SaveTicket(h)
        PROVE  RoadmapInv'
    <2>1. req[h].at = "saveTicket" /\ h \in mode.handlers /\ Ends(h) /\ UNCHANGED initiatives
      BY <1>5, Begun DEF SaveTicket, At
    <2>2. PICK id, row : id = req[h].id /\ row = req[h].row
      OBVIOUS
    <2>3. TicketRow(row) /\ (Lone(mode) => Numbered(row, initiatives))
      BY <2>1, <2>2, Begun DEF HandOK
    <2>4. tickets' = tickets \/ tickets' = With(tickets, id, row)
      BY <1>5, <2>2 DEF SaveTicket
    <2>5. WorkOK'
      <3>1. CASE tickets' = tickets
        BY <1>0, <2>1, <3>1 DEF WorkOK, Ends, Awaits
      <3>2. CASE tickets' = With(tickets, id, row)
        BY <1>0, <2>1, <2>3, <3>2 DEF WorkOK, FiledOK, Readable, With, Ends, Awaits
      <3> QED
        BY <2>4, <3>1, <3>2
    <2> QED
      BY <2>1, <2>5, WorkWritten
  <1> QED
    BY <1>1, <1>2, <1>3, <1>4, <1>5 DEF TicketRequests

\* An objective that goes takes its plan with it and detaches its initiatives.
LEMMA RemovalKeeps ==
    ASSUME RoadmapInv, NEW h \in Handlers, NEW o, RemoveObjectiveDetaching(h, o), UNCHANGED measured
    PROVE  RoadmapInv'
  <1>0. PlanOK /\ MeasuredOK /\ WorkOK
    BY DEF RoadmapInv
  <1>1. h \in mode.handlers /\ req[h].at = "idle" /\ UNCHANGED <<mode, req, tickets>>
    BY Begun DEF RemoveObjectiveDetaching, RemoveObjective, MayStart
  <1>2. PlanOK'
    <2>1. ASSUME NEW q \in DOMAIN objectives'
          PROVE  ObjectiveRow(objectives'[q])
      <3>1. /\ q \in DOMAIN objectives
            /\ objectives'[q] = IF objectives[q].parent = o THEN [objectives[q] EXCEPT !.parent = None]
                               ELSE objectives[q]
        BY <2>1 DEF RemoveObjectiveDetaching, RemoveObjective
      <3>2. ObjectiveRow(objectives[q])
        BY <1>0, <3>1 DEF PlanOK
      <3> QED
        BY <3>1, <3>2 DEF ObjectiveRow
    <2> QED
      BY <1>0, <2>1 DEF RemoveObjectiveDetaching, RemoveObjective, PlanOK, Without
  <1>3. MeasuredOK'
    BY <1>0 DEF MeasuredOK, measured
  <1>4. DOMAIN initiatives' = DOMAIN initiatives
    BY DEF RemoveObjectiveDetaching
  <1>5. ASSUME NEW i \in DOMAIN initiatives
        PROVE  InitiativeRow(initiatives'[i]) /\ initiatives'[i].prefix = initiatives[i].prefix
    <2>1. InitiativeRow(initiatives[i])
      BY RowsThere
    <2>2. initiatives'[i] = IF initiatives[i].objective = o THEN [initiatives[i] EXCEPT !.objective = None]
                            ELSE initiatives[i]
      BY DEF RemoveObjectiveDetaching
    <2> QED
      BY <2>1, <2>2 DEF InitiativeRow
  <1>6. WorkOK'
    BY <1>0, <1>1, <1>4, <1>5 DEF WorkOK, TableOK, FiledOK, Readable, Numbered
  <1> QED
    BY <1>1, <1>2, <1>3, <1>6, EndsWith

-----------------------------------------------------------------------------
(***************************************************************************)
(* The invariant.                                                          *)
(***************************************************************************)
LEMMA RoadmapStarts == Init => RoadmapInv
  <1> SUFFICES ASSUME Init PROVE RoadmapInv
    OBVIOUS
  <1>1. mode \in Modes
    BY DEF Init
  <1>2. PlanOK
    <2>1. objectives \in [DOMAIN objectives -> ObjectiveRows]
      BY <1>1, RoadmapAssumption DEF Init
    <2>2. \A row \in ObjectiveRows : ObjectiveRow(row)
      BY DEF ObjectiveRows, ObjectiveRow
    <2> QED
      BY <2>1, <2>2 DEF Init, PlanOK
  <1>3. MeasuredOK
    BY NoneIsNoNumber DEF Init, MeasuredOK, IsSeries, Days
  <1>4. TableOK(initiatives)
    <2>1. initiatives \in [DOMAIN initiatives -> InitiativeRows] /\ DOMAIN initiatives \subseteq Initiatives
      BY <1>1, ModesKnown DEF Init
    <2>2. \A row \in InitiativeRows : row.prefix \in Seq(STRING)
      BY DEF InitiativeRows
    <2>3. \A row \in InitiativeRows : row.progress \in 0 .. 100
      BY DEF InitiativeRows
    <2>4. \A row \in InitiativeRows : {"prefix", "progress"} \subseteq DOMAIN row
      BY DEF InitiativeRows
    <2>5. ASSUME NEW row \in InitiativeRows
          PROVE  InitiativeRow(row)
      <3>1. row.progress \in Int
        BY <2>3
      <3> QED
        BY <2>2, <2>4, <3>1 DEF InitiativeRow, IsText
    <2> QED
      BY <2>1, <2>5 DEF TableOK
  <1>5. WorkOK
    BY <1>4 DEF Init, WorkOK, FiledOK, Readable
  <1>6. HandsOK
    <2>1. req = [h \in Handlers |-> Idle]
      BY DEF Init
    <2> QED
      BY <2>1, IdleOK DEF HandsOK
  <1> QED
    BY <1>1, <1>2, <1>3, <1>5, <1>6 DEF RoadmapInv

LEMMA RoadmapStep == RoadmapInv /\ [Next]_vars => RoadmapInv'
  <1> SUFFICES ASSUME RoadmapInv, [Next]_vars PROVE RoadmapInv'
    OBVIOUS
  <1>1. ASSUME NEW h \in Handlers, ObjectiveRequests(h) /\ UNCHANGED <<measured, work>>
        PROVE  RoadmapInv'
    BY <1>1, ObjectivesKeep
  <1>2. ASSUME NEW h \in Handlers, NEW o \in Objectives, RemoveObjectiveDetaching(h, o) /\ UNCHANGED measured
        PROVE  RoadmapInv'
    BY <1>2, RemovalKeeps
  <1>3. ASSUME NEW h \in Handlers, KeyResultRequests(h) /\ UNCHANGED <<measured, work>>
        PROVE  RoadmapInv'
    BY <1>3, KeyResultsKeep
  <1>4. ASSUME NEW h \in Handlers, BoardRequests(h) /\ UNCHANGED <<plan, measured>>
        PROVE  RoadmapInv'
    BY <1>4, BoardKeeps
  <1>5. ASSUME NEW h \in Handlers, MilestoneRequests(h) /\ UNCHANGED <<plan, measured>>
        PROVE  RoadmapInv'
    BY <1>5, MilestonesKeep
  <1>6. ASSUME NEW h \in Handlers, ReferenceRequests(h) /\ UNCHANGED <<plan, measured>>
        PROVE  RoadmapInv'
    BY <1>6, ReferencesKeep
  <1>7. ASSUME NEW h \in Handlers, TicketRequests(h) /\ UNCHANGED <<plan, measured>>
        PROVE  RoadmapInv'
    BY <1>7, TicketsKeep
  <1>8. ASSUME NextDay \/ \E values \in MetricValues, tenants \in SUBSET {"tenant"} : CaptureDaily(values, tenants),
               UNCHANGED <<mode, req, plan, work>>
        PROVE  RoadmapInv'
    BY <1>8, MeasuresKeep
  <1>9. CASE UNCHANGED vars
    BY <1>9 DEF RoadmapInv, PlanOK, MeasuredOK, WorkOK, HandsOK, vars, plan, measured, work
  <1> QED
    BY <1>1, <1>2, <1>3, <1>4, <1>5, <1>6, <1>7, <1>8, <1>9 DEF Next

LEMMA RoadmapStands == Spec => []RoadmapInv
  <1> QED
    BY RoadmapStarts, RoadmapStep, PTL DEF Spec

\* Served one request at a time, a ticket keeps the reference that the prefix
\* of the row that numbered it and its own number make, whatever row it is
\* moved to: that prefix is changed only while no reference starts with it,
\* and every other save of the row writes back the prefix it read
\* (roadmap.service.ts, updateKeyPrefix; work-items.service.ts, update).
THEOREM TicketsReadable == Spec => []ReferencesReadable
  <1>1. RoadmapInv => ReferencesReadable
    BY DEF RoadmapInv, WorkOK, Readable, Numbered, Lone, Orderly, ReferencesReadable
  <1> QED
    BY <1>1, RoadmapStands, PTL

-----------------------------------------------------------------------------
(***************************************************************************)
(* The mirror image.                                                       *)
(***************************************************************************)
LEMMA SeriesIsSeries ==
    ASSUME RoadmapInv, NEW k, NEW field \in {"target", "actual"}
    PROVE  IsSeries(Series(k, field))
  <1> DEFINE known == {p \in PointsOf({k}) : points[p][field] # None}
             dates == {points[p].date : p \in known}
  <1>1. \A p \in known : p \in DOMAIN points /\ points[p].date \in Days /\ points[p][field] \in Int
    <2> SUFFICES ASSUME NEW p \in known
                 PROVE  p \in DOMAIN points /\ points[p].date \in Days /\ points[p][field] \in Int
      OBVIOUS
    <2>1. p \in DOMAIN points /\ points[p][field] # None
      BY DEF PointsOf
    <2>2. points[p].date \in Days /\ points[p].target \in Int \cup {None} /\ points[p].actual \in Int \cup {None}
      BY <2>1 DEF RoadmapInv, PlanOK, PointRow
    <2> QED
      BY <2>1, <2>2
  <1>2. Series(k, field) = [d \in dates |-> points[CHOOSE p \in known : points[p].date = d][field]]
    BY DEF Series
  <1>3. ASSUME NEW d \in dates
        PROVE  (CHOOSE p \in known : points[p].date = d) \in known
    <2>1. \E p \in known : points[p].date = d
      BY <1>3
    <2> QED
      BY <2>1
  <1>4. dates \subseteq Days
    BY <1>1
  <1>5. \A d \in dates : points[CHOOSE p \in known : points[p].date = d][field] \in Int
    BY <1>1, <1>3
  <1> HIDE DEF known, dates
  <1> QED
    BY <1>2, <1>4, <1>5 DEF IsSeries

\* A key result that has to fall shows the progress and the status of its
\* mirror image, for every plan, points, snapshots and day a behaviour reaches
\* (roadmap.trajectory.ts, keyResultProgress and onTrackStatus).
THEOREM MirrorsStand == Spec => []DownMirrorsUp
  <1>1. RoadmapInv => DownMirrorsUp
    <2> SUFFICES ASSUME RoadmapInv, NEW k \in DOMAIN keyResults
                 PROVE  LET row    == keyResults[k]
                            Neg(f) == [d \in DOMAIN f |-> -f[d]]
                            mirror == [row EXCEPT !.baseline = -@, !.target = -@]
                            shown  == ComputeKeyResult(mirror, Neg(Series(k, "target")), Neg(Series(k, "actual")),
                                                       Neg(Measured(row.metric)))
                        IN  shown.progress = ViewOf(k).progress /\ shown.status = ViewOf(k).status
      BY DEF DownMirrorsUp
    <2>1. PICK row, targets, actuals, measures, now :
             /\ row = keyResults[k] /\ targets = Series(k, "target") /\ actuals = Series(k, "actual")
             /\ measures = Measured(row.metric) /\ now = day
      OBVIOUS
    <2>2. KeyResultRow(row) /\ now \in Days
      BY <2>1 DEF RoadmapInv, PlanOK, MeasuredOK
    <2>3. IsSeries(targets) /\ IsSeries(actuals)
      BY <2>1, SeriesIsSeries
    <2>4. IsSeries(measures)
      <3>1. CASE row.metric = None
        <4>1. measures = << >>
          BY <2>1, <3>1 DEF Measured
        <4> QED
          BY <4>1 DEF IsSeries
      <3>2. CASE row.metric # None
        BY <2>1, <2>2, <3>2 DEF Measured, KeyResultRow, RoadmapInv, MeasuredOK
      <3> QED
        BY <3>1, <3>2
    <2> DEFINE mirror == [row EXCEPT !.baseline = -@, !.target = -@]
               shown == ComputeKeyResult(mirror, Mirror(targets), Mirror(actuals), Mirror(measures))
               seen == ComputeKeyResult(row, targets, actuals, measures)
    <2>5. /\ mirror.metric = row.metric /\ mirror.baseline = -row.baseline /\ mirror.target = -row.target
          /\ row.baseline \in Int /\ row.target \in Int
      <3>1. PICK o, m, d, b, t : row = [objective |-> o, metric |-> m, direction |-> d,
                                        baseline |-> b, target |-> t]
        BY <2>2 DEF KeyResultRow
      <3> QED
        BY <2>2, <3>1 DEF KeyResultRow
    <2> DEFINE current == CurrentValue(row.metric, actuals, measures, now)
               turned == CurrentValue(row.metric, Mirror(actuals), Mirror(measures), now)
               planned == PlannedValueAt(now, row.baseline, targets)
               bent == PlannedValueAt(now, -row.baseline, Mirror(targets))
    <2>6. /\ seen.progress = KeyResultProgress(current, row.baseline, row.target)
          /\ seen.status = OnTrackStatus(current, planned, row.baseline, row.target)
      BY <2>1 DEF ComputeKeyResult
    <2> HIDE DEF mirror
    <2>7. /\ shown.progress = KeyResultProgress(turned, -row.baseline, -row.target)
          /\ shown.status = OnTrackStatus(turned, bent, -row.baseline, -row.target)
      BY <2>1, <2>5 DEF ComputeKeyResult
    <2>8. current \in Int \cup {None} /\ turned = Opposite(current)
      BY <2>2, <2>3, <2>4, CurrentMirrors
    <2>9. Opposed(planned, bent)
      BY <2>2, <2>3, <2>5, PlannedMirrors
    <2> HIDE DEF current, turned, planned, bent
    <2>10. shown.progress = seen.progress /\ shown.status = seen.status
      BY <2>5, <2>6, <2>7, <2>8, <2>9, ProgressMirrors, StatusMirrors
    <2>11. seen = ViewOf(k)
      BY <2>1 DEF ViewOf
    <2> HIDE DEF seen
    <2> QED
      BY <2>1, <2>10, <2>11 DEF Mirror, mirror
  <1> QED
    BY <1>1, RoadmapStands, PTL
-----------------------------------------------------------------------------
(***************************************************************************)
(* Progress that grows: a mean of percentages, the cascade of an objective. *)
(***************************************************************************)
\* What holds of 0 and of the successor of each number it holds of.
LEMMA Counting ==
    ASSUME NEW Good, 0 \in Good, \A n \in Nat : n \in Good => n + 1 \in Good
    PROVE  \A n \in Nat : n \in Good
  <1> DEFINE Less == OpToRel(<, Nat)
             bad == {n \in Nat : n \notin Good}
  <1>1. IsWellFoundedOn(Less, Nat) /\ \A x, y \in Nat : y < x => <<y, x>> \in Less
    BY NatLessThanWellFounded DEF OpToRel
  <1> HIDE DEF Less
  <1>2. SUFFICES ASSUME bad # {} PROVE FALSE
    OBVIOUS
  <1>3. PICK x \in bad : \A y \in bad : ~(<<y, x>> \in Less)
    BY <1>1, <1>2, WFMin
  <1>4. x \in Nat /\ x # 0 /\ x - 1 \in Nat /\ x - 1 < x
    BY <1>3
  <1>5. x - 1 \in Good
    BY <1>1, <1>3, <1>4
  <1>6. x - 1 + 1 \in Good
    BY <1>4, <1>5
  <1> QED
    BY <1>3, <1>4, <1>6

Picked(T) == CHOOSE x \in T : TRUE

\* sums[T]: f summed over T, an element after the other.
Adds(sums, f, S) ==
    sums = [T \in SUBSET S |-> IF T = {} THEN 0 ELSE f[Picked(T)] + sums[T \ {Picked(T)}]]

LEMMA SumIsChosen ==
    ASSUME NEW f
    PROVE  FoldFunction(+, 0, f) = (CHOOSE sums : Adds(sums, f, DOMAIN f))[DOMAIN f]
  BY DEF FoldFunction, FoldFunctionOnSet, MapThenFoldSet, Adds, Picked

LEMMA SumsExist ==
    ASSUME NEW f, NEW S, IsFiniteSet(S)
    PROVE  \E sums : Adds(sums, f, S)
  <1> DEFINE upTo(n) == {T \in SUBSET S : Cardinality(T) <= n}
             adds(g, n) == g = [T \in upTo(n) |-> IF T = {} THEN 0 ELSE f[Picked(T)] + g[T \ {Picked(T)}]]
             good == {n \in Nat : \E g : adds(g, n)}
  <1>1. \A T \in SUBSET S : /\ IsFiniteSet(T) /\ Cardinality(T) \in Nat /\ Cardinality(T) <= Cardinality(S)
                            /\ Cardinality(T) = 0 <=> T = {}
    BY FS_Subset, FS_CardinalityType, FS_EmptySet
  <1>2. \A T \in SUBSET S : T # {} => /\ Picked(T) \in T /\ T \ {Picked(T)} \in SUBSET S
                                      /\ Cardinality(T \ {Picked(T)}) = Cardinality(T) - 1
    BY <1>1, FS_RemoveElement DEF Picked
  <1>3. 0 \in good
    <2> DEFINE g == [T \in upTo(0) |-> 0]
    <2>1. \A T \in upTo(0) : T = {}
      BY <1>1
    <2>2. adds(g, 0)
      BY <2>1
    <2> QED
      BY <2>2
  <1>4. ASSUME NEW n \in Nat, n \in good
        PROVE  n + 1 \in good
    <2>1. PICK g : adds(g, n)
      BY <1>4
    <2> DEFINE h == [T \in upTo(n + 1) |-> IF T = {} THEN 0 ELSE f[Picked(T)] + g[T \ {Picked(T)}]]
    <2>2. \A T \in upTo(n) : T \in upTo(n + 1)
      BY <1>1
    <2>6. \A T \in upTo(n) : g[T] = IF T = {} THEN 0 ELSE f[Picked(T)] + g[T \ {Picked(T)}]
      <3> HIDE DEF upTo
      <3> QED
        BY <2>1
    <2>7. \A T \in upTo(n + 1) : h[T] = IF T = {} THEN 0 ELSE f[Picked(T)] + g[T \ {Picked(T)}]
      <3> HIDE DEF upTo
      <3> QED
        OBVIOUS
    <2>8. \A T \in upTo(n) : g[T] = h[T]
      <3> HIDE DEF upTo, h
      <3> QED
        BY <2>2, <2>6, <2>7
    <2>3. \A T \in upTo(n + 1) : T # {} => T \ {Picked(T)} \in upTo(n)
      BY <1>1, <1>2
    <2>4. \A T \in upTo(n + 1) : T # {} => g[T \ {Picked(T)}] = h[T \ {Picked(T)}]
      BY <2>3, <2>8
    <2>5. adds(h, n + 1)
      BY <2>4
    <2> HIDE DEF h, adds
    <2> QED
      BY <2>5
  <1> HIDE DEF good
  <1>5. Cardinality(S) \in Nat /\ \A n \in Nat : n \in good
    BY <1>1, <1>3, <1>4, Counting
  <1>6. PICK g : adds(g, Cardinality(S))
    BY <1>5 DEF good
  <1>7. upTo(Cardinality(S)) = SUBSET S
    BY <1>1
  <1> QED
    BY <1>6, <1>7 DEF Adds

\* Of two listings of the same keys, term by term the smaller has the smaller sum.
LEMMA SumsGrow ==
    ASSUME NEW f, NEW g, DOMAIN g = DOMAIN f, IsFiniteSet(DOMAIN f),
           \A x \in DOMAIN f : f[x] \in Int /\ g[x] \in Int /\ f[x] <= g[x]
    PROVE  /\ FoldFunction(+, 0, f) \in Int /\ FoldFunction(+, 0, g) \in Int
           /\ FoldFunction(+, 0, f) <= FoldFunction(+, 0, g)
  <1> DEFINE S == DOMAIN f
             less == CHOOSE sums : Adds(sums, f, S)
             more == CHOOSE sums : Adds(sums, g, S)
             good == {T \in SUBSET S : less[T] \in Int /\ more[T] \in Int /\ less[T] <= more[T]}
             sized == {n \in Nat : \A T \in SUBSET S : Cardinality(T) <= n => T \in good}
  <1>1. Adds(less, f, S) /\ Adds(more, g, S)
    BY SumsExist
  <1>2. FoldFunction(+, 0, f) = less[S] /\ FoldFunction(+, 0, g) = more[S]
    BY SumIsChosen
  <1> HIDE DEF less, more
  <1>3. \A T \in SUBSET S : /\ less[T] = IF T = {} THEN 0 ELSE f[Picked(T)] + less[T \ {Picked(T)}]
                            /\ more[T] = IF T = {} THEN 0 ELSE g[Picked(T)] + more[T \ {Picked(T)}]
    BY <1>1 DEF Adds
  <1>4. {} \in good
    <2>1. {} \in SUBSET S
      OBVIOUS
    <2>2. less[{}] = 0 /\ more[{}] = 0
      BY <1>3, <2>1
    <2> QED
      BY <2>1, <2>2
  <1>5. \A T \in SUBSET S : IsFiniteSet(T) /\ Cardinality(T) \in Nat /\ (Cardinality(T) = 0 <=> T = {})
    BY FS_Subset, FS_CardinalityType, FS_EmptySet
  <1>6. 0 \in sized
    BY <1>4, <1>5
  <1>7. ASSUME NEW n \in Nat, n \in sized
        PROVE  n + 1 \in sized
    <2>1. ASSUME NEW T \in SUBSET S, Cardinality(T) <= n + 1, T # {}
          PROVE  T \in good
      <3> DEFINE x == Picked(T)
                 U == T \ {x}
      <3>1. x \in T
        BY <2>1 DEF Picked
      <3>2. U \in SUBSET S /\ Cardinality(U) <= n
        BY <1>5, <2>1, <3>1, FS_RemoveElement
      <3>3. U \in good
        BY <1>7, <3>2
      <3>4. less[T] = f[x] + less[U] /\ more[T] = g[x] + more[U]
        BY <1>3, <2>1
      <3>5. f[x] \in Int /\ g[x] \in Int /\ f[x] <= g[x]
        BY <2>1, <3>1
      <3>6. less[U] \in Int /\ more[U] \in Int /\ less[U] <= more[U]
        BY <3>3
      <3> HIDE DEF x, U
      <3>7. less[T] \in Int /\ more[T] \in Int /\ less[T] <= more[T]
        BY <3>4, <3>5, <3>6
      <3> QED
        BY <2>1, <3>7
    <2>2. \A T \in SUBSET S : Cardinality(T) <= n + 1 => T \in good
      <3> HIDE DEF good
      <3> QED
        BY <1>4, <2>1
    <2> HIDE DEF good
    <2> QED
      BY <2>2
  <1> HIDE DEF sized
  <1>8. \A n \in Nat : n \in sized
    BY <1>6, <1>7, Counting
  <1>9. S \in good
    <2>1. Cardinality(S) \in Nat
      BY <1>5
    <2> HIDE DEF good
    <2> QED
      BY <1>8, <2>1 DEF sized
  <1> QED
    BY <1>2, <1>9

LEMMA QuotientGrows ==
    ASSUME NEW a \in Int, NEW b \in Int, NEW k \in Nat, k > 0, a <= b
    PROVE  a \div k \in Int /\ b \div k \in Int /\ a \div k <= b \div k
  <1> DEFINE p == a \div k
             q == b \div k
             r == a % k
             s == b % k
  <1>1. p \in Int /\ q \in Int /\ r \in 0 .. k - 1 /\ s \in 0 .. k - 1 /\ a = k * p + r /\ b = k * q + s
    OBVIOUS
  <1> HIDE DEF p, q, r, s
  <1>2. ASSUME p > q
        PROVE  FALSE
    <2>1. p - q - 1 \in Nat
      BY <1>1, <1>2
    <2>2. k * (p - q - 1) >= 0
      BY <2>1
    <2>3. k * (p - q - 1) = k * p - k * q - k
      BY <1>1
    <2>4. k * p \in Int /\ k * q \in Int
      BY <1>1
    <2> QED
      BY <1>1, <2>2, <2>3, <2>4
  <1> QED
    BY <1>1, <1>2 DEF p, q

LEMMA ClampGrows ==
    ASSUME NEW n \in Int, NEW m \in Int, NEW d \in Nat, d > 0, n <= m
    PROVE  /\ ClampProgress(n, d) \in 0 .. 100 /\ ClampProgress(m, d) \in 0 .. 100
           /\ ClampProgress(n, d) <= ClampProgress(m, d)
  <1> DEFINE k == 2 * d
             p == (200 * n + d) \div k
             q == (200 * m + d) \div k
             zero == d \div k
  <1>1. k \in Nat /\ k > 0 /\ 200 * n + d \in Int /\ 200 * m + d \in Int /\ 200 * n + d <= 200 * m + d
    OBVIOUS
  <1>2. p \in Int /\ q \in Int /\ p <= q
    <2> HIDE DEF k
    <2> QED
      BY <1>1, QuotientGrows
  <1>3. ASSUME NEW z \in Int, z >= 0
        PROVE  (200 * z + d) \div k >= 0
    <2>1. 200 * z + d \in Int /\ 0 <= 200 * z + d
      BY <1>3
    <2> HIDE DEF k
    <2>2. 0 \div k = 0
      BY <1>1
    <2> QED
      BY <1>1, <2>1, <2>2, QuotientGrows
  <1>4. (n > 0 => p >= 0) /\ (m > 0 => q >= 0)
    BY <1>3
  <1>5. /\ ClampProgress(n, d) = IF n <= 0 THEN 0 ELSE IF p > 100 THEN 100 ELSE p
        /\ ClampProgress(m, d) = IF m <= 0 THEN 0 ELSE IF q > 100 THEN 100 ELSE q
    BY DEF ClampProgress
  <1> HIDE DEF p, q, k
  <1> QED
    BY <1>2, <1>4, <1>5

LEMMA MeansGrow ==
    ASSUME NEW f, NEW g, DOMAIN g = DOMAIN f, IsFiniteSet(DOMAIN f), DOMAIN f # {},
           \A x \in DOMAIN f : f[x] \in Int /\ g[x] \in Int /\ f[x] <= g[x]
    PROVE  MeanOf(f) \in 0 .. 100 /\ MeanOf(g) \in 0 .. 100 /\ MeanOf(f) <= MeanOf(g)
  <1>1. /\ FoldFunction(+, 0, f) \in Int /\ FoldFunction(+, 0, g) \in Int
        /\ FoldFunction(+, 0, f) <= FoldFunction(+, 0, g)
    BY SumsGrow
  <1>2. PICK n, m : n = FoldFunction(+, 0, f) /\ m = FoldFunction(+, 0, g)
    OBVIOUS
  <1>3. Cardinality(DOMAIN f) \in Nat /\ Cardinality(DOMAIN f) > 0
    BY FS_CardinalityType, FS_EmptySet
  <1>4. PICK d \in Nat : d = 100 * Cardinality(DOMAIN f) /\ d > 0
    BY <1>3
  <1>5. MeanOf(f) = ClampProgress(n, d) /\ MeanOf(g) = ClampProgress(m, d)
    BY <1>2, <1>4 DEF MeanOf
  <1>6. n \in Int /\ m \in Int /\ n <= m
    BY <1>1, <1>2
  <1>7. /\ ClampProgress(n, d) \in 0 .. 100 /\ ClampProgress(m, d) \in 0 .. 100
        /\ ClampProgress(n, d) <= ClampProgress(m, d)
    BY <1>4, <1>6, ClampGrows
  <1> QED
    BY <1>5, <1>7

\* Initiatives that all grow, none of them changing its status.
Grown(less, more) ==
    /\ DOMAIN more = DOMAIN less /\ IsFiniteSet(DOMAIN less)
    /\ \A i \in DOMAIN less : /\ more[i].status = less[i].status
                              /\ less[i].progress \in Int /\ more[i].progress \in Int
                              /\ less[i].progress <= more[i].progress

LEMMA InitiativesLift ==
    ASSUME NEW less, NEW more, Grown(less, more)
    PROVE  /\ DeriveObjectiveProgress(less) \in 0 .. 100 /\ DeriveObjectiveProgress(more) \in 0 .. 100
           /\ DeriveObjectiveProgress(less) <= DeriveObjectiveProgress(more)
  <1> DEFINE counted == {i \in DOMAIN less : less[i].status # "dropped"}
             f == [i \in counted |-> less[i].progress]
             g == [i \in counted |-> more[i].progress]
  <1>1. counted = {i \in DOMAIN more : more[i].status # "dropped"} /\ IsFiniteSet(counted)
    BY FS_Subset DEF Grown
  <1>2. /\ DOMAIN f = counted /\ DOMAIN g = counted
        /\ \A i \in counted : f[i] \in Int /\ g[i] \in Int /\ f[i] <= g[i]
    BY DEF Grown
  <1>3. /\ DeriveObjectiveProgress(less) = IF counted = {} THEN 0 ELSE MeanOf(f)
        /\ DeriveObjectiveProgress(more) = IF counted = {} THEN 0 ELSE MeanOf(g)
    <2>1. DeriveObjectiveProgress(less) = IF counted = {} THEN 0 ELSE MeanOf(f)
      BY DEF DeriveObjectiveProgress
    <2>2. PICK same : same = {i \in DOMAIN more : more[i].status # "dropped"} /\ same = counted
      BY <1>1
    <2>3. DeriveObjectiveProgress(more) = IF same = {} THEN 0 ELSE MeanOf([i \in same |-> more[i].progress])
      BY <2>2 DEF DeriveObjectiveProgress
    <2> QED
      BY <2>1, <2>2, <2>3
  <1> HIDE DEF f, g, counted
  <1>4. CASE counted # {}
    BY <1>1, <1>2, <1>3, <1>4, MeansGrow
  <1>5. CASE counted = {}
    BY <1>3, <1>5
  <1> QED
    BY <1>4, <1>5

LEMMA CascadeLifts ==
    ASSUME NEW stored \in Int,
           NEW measures, IsFiniteSet(DOMAIN measures), \A k \in DOMAIN measures : measures[k] \in Int,
           NEW low, NEW high, DOMAIN high = DOMAIN low, IsFiniteSet(DOMAIN low),
           \A c \in DOMAIN low : low[c] \in Int /\ high[c] \in Int /\ low[c] <= high[c],
           NEW less, NEW more, Grown(less, more)
    PROVE  LET before == DeriveCascadedProgress(stored, measures, low, less)
               after  == DeriveCascadedProgress(stored, measures, high, more)
           IN  before \in 0 .. 100 /\ after \in 0 .. 100 /\ before <= after
  <1> DEFINE before == DeriveCascadedProgress(stored, measures, low, less)
             after  == DeriveCascadedProgress(stored, measures, high, more)
  <1>1. CASE DOMAIN measures # {}
    <2>1. MeanOf(measures) \in 0 .. 100 /\ MeanOf(measures) <= MeanOf(measures)
      BY <1>1, MeansGrow
    <2>2. before = MeanOf(measures) /\ after = MeanOf(measures)
      BY <1>1 DEF DeriveCascadedProgress
    <2> QED
      BY <2>1, <2>2
  <1>2. CASE DOMAIN measures = {} /\ DOMAIN low # {}
    <2>1. before = MeanOf(low) /\ after = MeanOf(high)
      BY <1>2 DEF DeriveCascadedProgress
    <2>2. MeanOf(low) \in 0 .. 100 /\ MeanOf(high) \in 0 .. 100 /\ MeanOf(low) <= MeanOf(high)
      BY <1>2, MeansGrow
    <2> QED
      BY <2>1, <2>2
  <1>3. CASE DOMAIN measures = {} /\ DOMAIN low = {}
    <2>1. (\E i \in DOMAIN less : less[i].status # "dropped") <=> (\E i \in DOMAIN more : more[i].status # "dropped")
      BY DEF Grown
    <2>2. PICK counts \in BOOLEAN : counts <=> \E i \in DOMAIN less : less[i].status # "dropped"
      OBVIOUS
    <2>3. /\ before = IF counts THEN DeriveObjectiveProgress(less) ELSE ClampProgress(stored, 100)
          /\ after = IF counts THEN DeriveObjectiveProgress(more) ELSE ClampProgress(stored, 100)
      BY <1>3, <2>1, <2>2 DEF DeriveCascadedProgress
    <2>4. ClampProgress(stored, 100) \in 0 .. 100
      <3>1. stored <= stored /\ 100 \in Nat /\ 100 > 0
        OBVIOUS
      <3> QED
        BY <3>1, ClampGrows
    <2> HIDE DEF before, after
    <2>5. before \in 0 .. 100 /\ after \in 0 .. 100 /\ before <= after
      BY <2>3, <2>4, InitiativesLift
    <2> QED
      BY <2>5 DEF before, after
  <1> QED
    BY <1>1, <1>2, <1>3
-----------------------------------------------------------------------------
(***************************************************************************)
(* The lists behind a progress are finite, and a milestone stays on the    *)
(* checklist it was put on, whatever is in flight about it.                *)
(***************************************************************************)
MilestoneRow(row) == "initiative" \in DOMAIN row

FiniteOK == IsFiniteSet(DOMAIN objectives) /\ IsFiniteSet(DOMAIN keyResults) /\ IsFiniteSet(DOMAIN milestones)

ChecklistsOK ==
    /\ \A m \in DOMAIN milestones : MilestoneRow(milestones[m])
    /\ \A g \in Handlers : req[g].at = "saveMilestone" =>
          /\ "id" \in DOMAIN req[g] /\ MilestoneRow(req[g].row)
          /\ req[g].id \in DOMAIN milestones => milestones[req[g].id].initiative = req[g].row.initiative
          /\ \A h \in Handlers : req[h].at = "saveMilestone" /\ req[h].id = req[g].id =>
                req[h].row.initiative = req[g].row.initiative

\* One row more at most, or rows that go.
Grows(before, after) == \E x : DOMAIN after \subseteq DOMAIN before \cup {x}
Thins(before, after) == DOMAIN after \subseteq DOMAIN before /\ \A x \in DOMAIN after : after[x] = before[x]

\* Request h turns to something else than the save of a milestone.
Turns(h) == UNCHANGED req \/ \E r : r.at # "saveMilestone" /\ req' = [req EXCEPT ![h] = r]

Calm(h) ==
    Turns(h) /\ Thins(milestones, milestones') /\ Grows(objectives, objectives') /\ Grows(keyResults, keyResults')

LEMMA StaysFinite ==
    ASSUME NEW before, NEW after, IsFiniteSet(DOMAIN before), Grows(before, after)
    PROVE  IsFiniteSet(DOMAIN after)
  <1>1. PICK x : DOMAIN after \subseteq DOMAIN before \cup {x}
    BY DEF Grows
  <1>2. IsFiniteSet(DOMAIN before \cup {x})
    BY FS_AddElement
  <1> QED
    BY <1>1, <1>2, FS_Subset

LEMMA CalmKeeps ==
    ASSUME RoadmapInv, FiniteOK, ChecklistsOK, NEW h \in Handlers, Calm(h)
    PROVE  FiniteOK' /\ ChecklistsOK'
  <1>1. FiniteOK'
    <2>1. Grows(milestones, milestones')
      BY DEF Calm, Thins, Grows
    <2> QED
      BY <2>1, StaysFinite DEF FiniteOK, Calm
  <1>2. \A g \in Handlers : req'[g].at = "saveMilestone" => req'[g] = req[g]
    <2>1. CASE UNCHANGED req
      BY <2>1
    <2>2. ASSUME NEW r, r.at # "saveMilestone", req' = [req EXCEPT ![h] = r]
          PROVE  \A g \in Handlers : req'[g].at = "saveMilestone" => req'[g] = req[g]
      <3>1. \A g \in Handlers : req'[g] = IF g = h THEN r ELSE req[g]
        BY <2>2 DEF RoadmapInv, HandsOK
      <3> QED
        BY <2>2, <3>1
    <2> QED
      BY <2>1, <2>2 DEF Calm, Turns
  <1>3. Thins(milestones, milestones')
    BY DEF Calm
  <1>4. \A m \in DOMAIN milestones' : MilestoneRow(milestones'[m])
    BY <1>3 DEF ChecklistsOK, Thins
  <1>5. ASSUME NEW g \in Handlers, req'[g].at = "saveMilestone"
        PROVE  /\ "id" \in DOMAIN req'[g] /\ MilestoneRow(req'[g].row)
               /\ req'[g].id \in DOMAIN milestones' => milestones'[req'[g].id].initiative = req'[g].row.initiative
               /\ \A j \in Handlers : req'[j].at = "saveMilestone" /\ req'[j].id = req'[g].id =>
                     req'[j].row.initiative = req'[g].row.initiative
    <2>1. req'[g] = req[g] /\ req[g].at = "saveMilestone"
      BY <1>2, <1>5
    <2>2. /\ "id" \in DOMAIN req[g] /\ MilestoneRow(req[g].row)
          /\ req[g].id \in DOMAIN milestones => milestones[req[g].id].initiative = req[g].row.initiative
          /\ \A j \in Handlers : req[j].at = "saveMilestone" /\ req[j].id = req[g].id =>
                req[j].row.initiative = req[g].row.initiative
      BY <2>1 DEF ChecklistsOK
    <2> QED
      BY <1>2, <1>3, <2>1, <2>2 DEF Thins
  <1> QED
    BY <1>1, <1>4, <1>5 DEF ChecklistsOK

LEMMA TurnsAway ==
    ASSUME NEW h, \/ UNCHANGED req \/ Ends(h)
                  \/ \E r : r.at # "saveMilestone" /\ Awaits(h, r)
    PROVE  Turns(h)
  BY DEF Turns, Ends, Awaits, Idle

LEMMA Unchanging ==
    /\ UNCHANGED milestones => Thins(milestones, milestones')
    /\ UNCHANGED objectives => Grows(objectives, objectives')
    /\ UNCHANGED keyResults => Grows(keyResults, keyResults')
    /\ UNCHANGED plan => UNCHANGED <<objectives, keyResults, points>>
    /\ UNCHANGED work => UNCHANGED <<initiatives, milestones, tickets>>
  BY DEF Thins, Grows, plan, work

LEMMA ObjectivesCalm ==
    ASSUME RoadmapInv, NEW h \in Handlers, ObjectiveRequests(h), UNCHANGED work
    PROVE  Calm(h)
  <1>1. ASSUME NEW o, NEW dto, CreateObjective(h, o, dto)
        PROVE  Turns(h) /\ UNCHANGED plan
    BY <1>1, TurnsAway DEF CreateObjective
  <1>2. ASSUME NEW o, NEW dto, UpdateObjective(h, o, dto)
        PROVE  Turns(h) /\ UNCHANGED plan
    <2>1. PICK at, parent, year, quarter :
             /\ at \in {"parent", "saveObjective"} /\ UNCHANGED plan
             /\ Awaits(h, [at |-> at, id |-> o,
                           row |-> [parent |-> parent, year |-> year, quarter |-> quarter,
                                    progress |-> Given(dto.progress, objectives[o].progress)]])
      BY <1>2 DEF UpdateObjective
    <2> QED
      BY <1>2, <2>1, TurnsAway DEF UpdateObjective
  <1>3. ASSUME CheckParent(h) \/ CheckChildren(h)
        PROVE  Turns(h) /\ UNCHANGED plan
    <2>1. UNCHANGED plan /\ req[h].at \in {"parent", "children"}
      BY <1>3 DEF CheckParent, CheckChildren, At
    <2>2. PICK at \in {"children", "saveObjective"} : Ends(h) \/ Awaits(h, [req[h] EXCEPT !.at = at])
      BY <1>3 DEF CheckParent, CheckChildren
    <2>3. "at" \in DOMAIN req[h]
      BY <1>3, Begun DEF HandOK
    <2>4. [req[h] EXCEPT !.at = at].at # "saveMilestone"
      BY <2>2, <2>3
    <2> QED
      BY <2>1, <2>2, <2>4, TurnsAway
  <1>4. ASSUME SaveObjective(h)
        PROVE  Turns(h) /\ Grows(objectives, objectives') /\ UNCHANGED keyResults
    BY <1>4, TurnsAway DEF SaveObjective, Grows, With
  <1> QED
    BY <1>1, <1>2, <1>3, <1>4, Unchanging DEF ObjectiveRequests, Calm

\* What the rest of the requests do to the lists, one group after the other.
LEMMA KeyResultsCalm ==
    ASSUME NEW h \in Handlers, KeyResultRequests(h), UNCHANGED work
    PROVE  Calm(h)
  <1>1. ASSUME NEW k, NEW o, NEW dto, CreateKeyResult(h, k, o, dto)
        PROVE  Turns(h) /\ UNCHANGED plan
    <2>1. PICK row : Awaits(h, [at |-> "saveKeyResult", id |-> k, row |-> row])
      BY <1>1 DEF CreateKeyResult
    <2> QED
      BY <1>1, <2>1, TurnsAway DEF CreateKeyResult
  <1>2. ASSUME NEW k, NEW dto, UpdateKeyResult(h, k, dto)
        PROVE  Turns(h) /\ UNCHANGED plan
    <2>1. PICK row : Awaits(h, [at |-> "saveKeyResult", id |-> k, row |-> row])
      BY <1>2 DEF UpdateKeyResult
    <2> QED
      BY <1>2, <2>1, TurnsAway DEF UpdateKeyResult
  <1>3. ASSUME NEW k, RemoveKeyResult(h, k)
        PROVE  Turns(h) /\ UNCHANGED objectives /\ Grows(keyResults, keyResults')
    BY <1>3, TurnsAway DEF RemoveKeyResult, Without, Grows
  <1>4. ASSUME NEW p, NEW k, NEW date, NEW dto, AddTrajectoryPoint(h, p, k, date, dto)
        PROVE  Turns(h) /\ UNCHANGED plan
    <2>1. PICK row : Awaits(h, [at |-> "savePoint", id |-> p, row |-> row])
      BY <1>4 DEF AddTrajectoryPoint
    <2> QED
      BY <1>4, <2>1, TurnsAway DEF AddTrajectoryPoint
  <1>5. ASSUME NEW p, NEW date, NEW dto, UpdateTrajectoryPoint(h, p, date, dto)
        PROVE  Turns(h) /\ UNCHANGED plan
    <2>1. PICK row : Awaits(h, [at |-> "savePoint", id |-> p, row |-> row])
      BY <1>5 DEF UpdateTrajectoryPoint
    <2> QED
      BY <1>5, <2>1, TurnsAway DEF UpdateTrajectoryPoint
  <1>6. ASSUME NEW p, RemoveTrajectoryPoint(h, p)
        PROVE  Turns(h) /\ UNCHANGED <<objectives, keyResults>>
    BY <1>6, TurnsAway DEF RemoveTrajectoryPoint
  <1>7. ASSUME SaveKeyResult(h)
        PROVE  Turns(h) /\ UNCHANGED objectives /\ Grows(keyResults, keyResults')
    BY <1>7, TurnsAway DEF SaveKeyResult, With, Grows
  <1>8. ASSUME SavePoint(h)
        PROVE  Turns(h) /\ UNCHANGED <<objectives, keyResults>>
    BY <1>8, TurnsAway DEF SavePoint
  <1> QED
    BY <1>1, <1>2, <1>3, <1>4, <1>5, <1>6, <1>7, <1>8, Unchanging DEF KeyResultRequests, Calm

\* A row that goes takes its milestones with it.
LEMMA DeletionThins ==
    ASSUME NEW i, DeleteInitiative(i)
    PROVE  Thins(milestones, milestones')
  BY DEF DeleteInitiative, Without, Thins

LEMMA BoardCalm ==
    ASSUME NEW h \in Handlers, BoardRequests(h), UNCHANGED plan
    PROVE  Calm(h)
  <1>1. ASSUME NEW i, NEW scope, NEW dto, UpdateInitiative(h, i, scope, dto)
        PROVE  Turns(h) /\ UNCHANGED work
    <2>1. PICK rows : Awaits(h, [at |-> "saveInitiatives", rows |-> rows])
      BY <1>1 DEF UpdateInitiative
    <2> QED
      BY <1>1, <2>1, TurnsAway DEF UpdateInitiative
  <1>2. ASSUME NEW i, NEW status, NEW n, Move(h, i, status, n)
        PROVE  Turns(h) /\ UNCHANGED work
    BY <1>2, TurnsAway DEF Move
  <1>3. ASSUME NEW i, RemoveInitiative(h, i)
        PROVE  Turns(h) /\ Thins(milestones, milestones')
    BY <1>3, TurnsAway, DeletionThins DEF RemoveInitiative
  <1>4. ASSUME PlanColumns(h)
        PROVE  Turns(h) /\ UNCHANGED work
    <2>1. PICK rows : Ends(h) \/ Awaits(h, [at |-> "saveInitiatives", rows |-> rows])
      BY <1>4 DEF PlanColumns
    <2> QED
      BY <1>4, <2>1, TurnsAway DEF PlanColumns
  <1>5. ASSUME SaveInitiatives(h)
        PROVE  Turns(h) /\ UNCHANGED milestones
    BY <1>5, TurnsAway DEF SaveInitiatives
  <1> QED
    BY <1>1, <1>2, <1>3, <1>4, <1>5, Unchanging DEF BoardRequests, Calm

LEMMA ReferencesCalm ==
    ASSUME NEW h \in Handlers, ReferenceRequests(h), UNCHANGED plan
    PROVE  Calm(h)
  <1>1. ASSUME NEW i, NEW scope, NEW base, NEW dto, CreateInitiative(h, i, scope, base, dto)
        PROVE  Turns(h) /\ UNCHANGED work
    <2>1. PICK rows : Awaits(h, [at |-> "saveInitiatives", rows |-> rows])
      BY <1>1 DEF CreateInitiative
    <2> QED
      BY <1>1, <2>1, TurnsAway DEF CreateInitiative
  <1>2. ASSUME NEW i, NEW prefix, UpdateKeyPrefix(h, i, prefix)
        PROVE  Turns(h) /\ UNCHANGED work
    BY <1>2, TurnsAway DEF UpdateKeyPrefix
  <1>3. ASSUME NEW i, NEW scope, UpdateScope(h, i, scope)
        PROVE  Turns(h) /\ UNCHANGED work
    <2>1. PICK rows : Awaits(h, [at |-> "saveInitiatives", rows |-> rows])
      BY <1>3 DEF UpdateScope
    <2> QED
      BY <1>3, <2>1, TurnsAway DEF UpdateScope
  <1>4. ASSUME NEW i, RemoveProject(h, i) \/ ArchiveProject(h, i)
        PROVE  Turns(h) /\ UNCHANGED work
    BY <1>4, TurnsAway DEF RemoveProject, ArchiveProject
  <1>5. ASSUME NEW i, UnarchiveProject(h, i)
        PROVE  Turns(h) /\ UNCHANGED work
    <2>1. PICK rows : Awaits(h, [at |-> "saveInitiatives", rows |-> rows])
      BY <1>5 DEF UnarchiveProject
    <2> QED
      BY <1>5, <2>1, TurnsAway DEF UnarchiveProject
  <1>6. ASSUME CheckKeyPrefix(h)
        PROVE  Turns(h) /\ UNCHANGED work
    <2>1. PICK rows : Ends(h) \/ Awaits(h, [at |-> "saveInitiatives", rows |-> rows])
      BY <1>6 DEF CheckKeyPrefix
    <2> QED
      BY <1>6, <2>1, TurnsAway DEF CheckKeyPrefix
  <1>7. ASSUME DeleteProject(h)
        PROVE  Turns(h) /\ Thins(milestones, milestones')
    BY <1>7, TurnsAway, DeletionThins DEF DeleteProject
  <1>8. ASSUME CountOpenTickets(h)
        PROVE  Turns(h) /\ UNCHANGED work
    <2>1. PICK rows : Ends(h) \/ Awaits(h, [at |-> "saveInitiatives", rows |-> rows])
      BY <1>8 DEF CountOpenTickets
    <2> QED
      BY <1>8, <2>1, TurnsAway DEF CountOpenTickets
  <1> QED
    BY <1>1, <1>2, <1>3, <1>4, <1>5, <1>6, <1>7, <1>8, Unchanging DEF ReferenceRequests, Calm

LEMMA TicketsCalm ==
    ASSUME NEW h \in Handlers, TicketRequests(h), UNCHANGED plan
    PROVE  Calm(h)
  <1>1. ASSUME NEW t, NEW i, NEW open, CreateTicket(h, t, i, open)
        PROVE  Turns(h) /\ UNCHANGED work
    BY <1>1, TurnsAway DEF CreateTicket
  <1>2. ASSUME NEW t, NEW i, NEW open, UpdateTicket(h, t, i, open)
        PROVE  Turns(h) /\ UNCHANGED work
    <2>1. PICK row : Awaits(h, [at |-> "saveTicket", id |-> t, row |-> row])
      BY <1>2 DEF UpdateTicket
    <2> QED
      BY <1>2, <2>1, TurnsAway DEF UpdateTicket
  <1>3. ASSUME NEW t, RemoveTicket(h, t)
        PROVE  Turns(h) /\ UNCHANGED milestones
    BY <1>3, TurnsAway DEF RemoveTicket
  <1>4. ASSUME NextTaskSeq(h)
        PROVE  Turns(h) /\ UNCHANGED milestones
    <2>1. PICK id, row : Ends(h) \/ Awaits(h, [at |-> "saveTicket", id |-> id, row |-> row])
      BY <1>4 DEF NextTaskSeq
    <2> QED
      BY <1>4, <2>1, TurnsAway DEF NextTaskSeq
  <1>5. ASSUME SaveTicket(h)
        PROVE  Turns(h) /\ UNCHANGED milestones
    BY <1>5, TurnsAway DEF SaveTicket
  <1> QED
    BY <1>1, <1>2, <1>3, <1>4, <1>5, Unchanging DEF TicketRequests, Calm

LEMMA RemovalCalm ==
    ASSUME NEW h \in Handlers, NEW o, RemoveObjectiveDetaching(h, o)
    PROVE  Calm(h)
  <1>1. Turns(h) /\ UNCHANGED milestones
    BY TurnsAway DEF RemoveObjectiveDetaching, RemoveObjective
  <1>2. Grows(objectives, objectives') /\ Grows(keyResults, keyResults')
    BY DEF RemoveObjectiveDetaching, RemoveObjective, Without, Grows
  <1> QED
    BY <1>1, <1>2, Unchanging DEF Calm

\* Requests about milestones: one that is saved again keeps its checklist.
LEMMA ChecklistWaits ==
    ASSUME RoadmapInv, FiniteOK, ChecklistsOK, UNCHANGED <<objectives, keyResults, milestones>>,
           NEW h \in Handlers, NEW r, Awaits(h, r), "id" \in DOMAIN r, MilestoneRow(r.row),
           r.id \in DOMAIN milestones => milestones[r.id].initiative = r.row.initiative,
           \A g \in Handlers : req[g].at = "saveMilestone" /\ req[g].id = r.id =>
              req[g].row.initiative = r.row.initiative
    PROVE  FiniteOK' /\ ChecklistsOK'
  <1>1. FiniteOK'
    BY DEF FiniteOK
  <1>2. \A g \in Handlers : req'[g] = IF g = h THEN r ELSE req[g]
    BY DEF RoadmapInv, HandsOK, Awaits
  <1> QED
    BY <1>1, <1>2 DEF ChecklistsOK

LEMMA MilestonesKeepLists ==
    ASSUME RoadmapInv, FiniteOK, ChecklistsOK, NEW h \in Handlers, MilestoneRequests(h), UNCHANGED plan
    PROVE  FiniteOK' /\ ChecklistsOK'
  <1>0. UNCHANGED <<objectives, keyResults>>
    BY DEF plan
  <1>1. ASSUME NEW m, NEW i, NEW done, AddMilestone(h, m, i, done)
        PROVE  FiniteOK' /\ ChecklistsOK'
    <2> DEFINE row == Milestone(i, done)
               r == [at |-> "saveMilestone", id |-> m, row |-> row]
    <2>1. Awaits(h, r) /\ UNCHANGED milestones /\ Unused(m, milestones)
      BY <1>1 DEF AddMilestone, work
    <2>2. MilestoneRow(row)
      BY DEF Milestone, MilestoneRow
    <2>3. \A g \in Handlers : req[g].at = "saveMilestone" => req[g].id # m
      BY <2>1 DEF Unused, ChecklistsOK
    <2> HIDE DEF row
    <2>4. "id" \in DOMAIN r /\ r.id = m /\ r.row = row
      OBVIOUS
    <2> HIDE DEF r
    <2> QED
      BY <1>0, <2>1, <2>2, <2>3, <2>4, ChecklistWaits DEF Unused
  <1>2. ASSUME NEW m, NEW done, UpdateMilestone(h, m, done)
        PROVE  FiniteOK' /\ ChecklistsOK'
    <2> DEFINE row == [milestones[m] EXCEPT !.done = done]
               r == [at |-> "saveMilestone", id |-> m, row |-> row]
    <2>1. Awaits(h, r) /\ UNCHANGED milestones /\ m \in DOMAIN milestones
      BY <1>2 DEF UpdateMilestone, work
    <2>2. MilestoneRow(row) /\ row.initiative = milestones[m].initiative
      BY <2>1 DEF ChecklistsOK, MilestoneRow
    <2>3. \A g \in Handlers : req[g].at = "saveMilestone" /\ req[g].id = m =>
             req[g].row.initiative = row.initiative
      BY <2>1, <2>2 DEF ChecklistsOK
    <2> HIDE DEF row
    <2>4. "id" \in DOMAIN r /\ r.id = m /\ r.row = row
      OBVIOUS
    <2> HIDE DEF r
    <2> QED
      BY <1>0, <2>1, <2>2, <2>3, <2>4, ChecklistWaits
  <1>3. ASSUME SaveMilestone(h)
        PROVE  FiniteOK' /\ ChecklistsOK'
    <2>1. PICK m, row : m = req[h].id /\ row = req[h].row
      OBVIOUS
    <2>2. /\ req[h].at = "saveMilestone" /\ Ends(h)
          /\ milestones' \in {With(milestones, m, row), milestones}
      BY <1>3, <2>1 DEF SaveMilestone, At
    <2>3. /\ MilestoneRow(row)
          /\ m \in DOMAIN milestones => milestones[m].initiative = row.initiative
          /\ \A g \in Handlers : req[g].at = "saveMilestone" /\ req[g].id = m => req[g].row.initiative = row.initiative
      BY <2>1, <2>2 DEF ChecklistsOK
    <2>4. \A g \in Handlers : req'[g] = IF g = h THEN Idle ELSE req[g]
      BY <2>2 DEF RoadmapInv, HandsOK, Ends, Awaits
    <2>5. Grows(milestones, milestones')
      BY <2>2 DEF With, Grows
    <2>6. FiniteOK'
      BY <1>0, <2>5, StaysFinite DEF FiniteOK
    <2>7. \A n \in DOMAIN milestones' :
             /\ MilestoneRow(milestones'[n])
             /\ milestones'[n].initiative = IF n = m /\ n \notin DOMAIN milestones THEN row.initiative
                                            ELSE milestones[n].initiative
             /\ n \in DOMAIN milestones \cup {m}
      <3>1. \A n \in DOMAIN milestones : MilestoneRow(milestones[n])
        BY DEF ChecklistsOK
      <3>2. CASE milestones' = milestones
        BY <3>1, <3>2
      <3>3. CASE milestones' = With(milestones, m, row)
        <4>1. /\ DOMAIN milestones' = DOMAIN milestones \cup {m}
              /\ \A n \in DOMAIN milestones' : milestones'[n] = IF n = m THEN row ELSE milestones[n]
          BY <3>3 DEF With
        <4> QED
          BY <2>3, <3>1, <4>1
      <3> QED
        BY <2>2, <3>2, <3>3
    <2>8. \A g \in Handlers : req'[g].at = "saveMilestone" => req'[g] = req[g]
      BY <2>4 DEF Idle
    <2>9. \A g \in Handlers : req[g].at = "saveMilestone" /\ req[g].id \in DOMAIN milestones' =>
             milestones'[req[g].id].initiative = req[g].row.initiative
      BY <2>3, <2>7 DEF ChecklistsOK
    <2> QED
      BY <2>6, <2>7, <2>8, <2>9 DEF ChecklistsOK
  <1>4. ASSUME NEW m, RemoveMilestone(h, m)
        PROVE  FiniteOK' /\ ChecklistsOK'
    <2>1. Turns(h) /\ Thins(milestones, milestones')
      BY <1>4, TurnsAway DEF RemoveMilestone, Without, Thins
    <2> QED
      BY <1>0, <2>1, Unchanging, CalmKeeps DEF Calm
  <1> QED
    BY <1>1, <1>2, <1>3, <1>4 DEF MilestoneRequests

\* Every step is calm, about a milestone, or the calendar's.
LEMMA StepsAreCalm ==
    ASSUME RoadmapInv, [Next]_vars
    PROVE  \/ \E h \in Handlers : Calm(h) \/ (MilestoneRequests(h) /\ UNCHANGED plan)
           \/ UNCHANGED <<mode, req, plan, work>>
  <1>1. ASSUME NEW h \in Handlers,
               \/ ObjectiveRequests(h) /\ UNCHANGED <<measured, work>>
               \/ \E o \in Objectives : RemoveObjectiveDetaching(h, o)
               \/ KeyResultRequests(h) /\ UNCHANGED <<measured, work>>
               \/ BoardRequests(h) /\ UNCHANGED <<plan, measured>>
               \/ ReferenceRequests(h) /\ UNCHANGED <<plan, measured>>
               \/ TicketRequests(h) /\ UNCHANGED <<plan, measured>>
        PROVE  Calm(h)
    BY <1>1, ObjectivesCalm, RemovalCalm, KeyResultsCalm, BoardCalm, ReferencesCalm, TicketsCalm
  <1>2. CASE UNCHANGED vars
    BY <1>2 DEF vars
  <1> QED
    BY <1>1, <1>2 DEF Next

LEMMA ListsStep ==
    ASSUME RoadmapInv, FiniteOK, ChecklistsOK, [Next]_vars
    PROVE  FiniteOK' /\ ChecklistsOK'
  <1>1. ASSUME NEW h \in Handlers, Calm(h)
        PROVE  FiniteOK' /\ ChecklistsOK'
    BY <1>1, CalmKeeps
  <1>2. ASSUME NEW h \in Handlers, MilestoneRequests(h), UNCHANGED plan
        PROVE  FiniteOK' /\ ChecklistsOK'
    BY <1>2, MilestonesKeepLists
  <1>3. CASE UNCHANGED <<mode, req, plan, work>>
    BY <1>3 DEF FiniteOK, ChecklistsOK, plan, work
  <1> QED
    BY <1>1, <1>2, <1>3, StepsAreCalm

LEMMA ListsStand == Spec => [](FiniteOK /\ ChecklistsOK)
  <1>1. Init => FiniteOK /\ ChecklistsOK
    <2> SUFFICES ASSUME Init PROVE FiniteOK /\ ChecklistsOK
      OBVIOUS
    <2>1. FiniteOK
      BY RoadmapAssumption, FS_EmptySet DEF Init, FiniteOK
    <2>2. \A g \in Handlers : req[g].at # "saveMilestone"
      BY DEF Init, Idle
    <2> QED
      BY <2>1, <2>2 DEF Init, ChecklistsOK
  <1>2. RoadmapInv /\ (FiniteOK /\ ChecklistsOK) /\ [Next]_vars => (FiniteOK /\ ChecklistsOK)'
    BY ListsStep
  <1> QED
    BY <1>1, <1>2, RoadmapStands, PTL DEF Spec

-----------------------------------------------------------------------------
(***************************************************************************)
(* Milestones that are ticked off.                                         *)
(***************************************************************************)
Ticked(marks) == {m \in marks : m.done}
Marks(owned, list) == {[done |-> list[m].done, id |-> m] : m \in owned}
DoneIn(owned, list) == {m \in owned : list[m].done}

\* A row of a checklist counts once.
LEMMA MarksCounted ==
    ASSUME NEW owned, IsFiniteSet(owned), NEW list
    PROVE  /\ IsFiniteSet(Marks(owned, list)) /\ Cardinality(Marks(owned, list)) = Cardinality(owned)
           /\ Cardinality(Ticked(Marks(owned, list))) = Cardinality(DoneIn(owned, list))
  <1> DEFINE mark(m) == [done |-> list[m].done, id |-> m]
             marks == Marks(owned, list)
             ticked == DoneIn(owned, list)
  <1>0. marks = {mark(m) : m \in owned}
    BY DEF Marks
  <1>1. ASSUME NEW S \in SUBSET owned
        PROVE  IsFiniteSet({mark(m) : m \in S}) /\ Cardinality({mark(m) : m \in S}) = Cardinality(S)
    <2> DEFINE T == {mark(m) : m \in S}
               f == [m \in S |-> mark(m)]
    <2>1. \A m, n \in S : mark(m) = mark(n) => m = n
      <3>1. \A m : mark(m).id = m
        OBVIOUS
      <3> HIDE DEF mark
      <3> QED
        BY <3>1
    <2> HIDE DEF mark
    <2>2. f \in Bijection(S, T)
      BY <2>1 DEF Bijection, Injection, Surjection, IsInjective
    <2>3. ExistsBijection(S, T) /\ IsFiniteSet(S)
      BY <2>2, FS_Subset DEF ExistsBijection
    <2> QED
      BY <2>3, FS_Bijection
  <1>2. Ticked(marks) = {mark(m) : m \in ticked}
    <2>1. \A m : mark(m).done = list[m].done
      OBVIOUS
    <2> HIDE DEF mark
    <2> QED
      BY <1>0, <2>1 DEF Ticked, DoneIn
  <1>3. owned \in SUBSET owned /\ ticked \in SUBSET owned
    BY DEF DoneIn
  <1> QED
    BY <1>0, <1>1, <1>2, <1>3

\* The step of the property: nothing but milestones changes, and those that
\* were done are.
TickedOff ==
    /\ UNCHANGED <<objectives, keyResults, points, snapshots, day, initiatives>>
    /\ DOMAIN milestones' = DOMAIN milestones
    /\ \A m \in DOMAIN milestones : milestones[m].done => milestones'[m].done

ChecklistOf(i) == {n \in DOMAIN milestones : milestones[n].initiative = i}

LEMMA ChecklistsStay ==
    ASSUME RoadmapInv, FiniteOK, ChecklistsOK, [Next]_vars, TickedOff, NEW i
    PROVE  ChecklistOf(i)' = ChecklistOf(i)
  <1>1. \A m \in DOMAIN milestones : milestones'[m].initiative = milestones[m].initiative
    <2>1. ASSUME NEW h \in Handlers, Calm(h)
          PROVE  \A m \in DOMAIN milestones : milestones'[m].initiative = milestones[m].initiative
      BY <2>1 DEF Calm, Thins, TickedOff
    <2>2. ASSUME NEW h \in Handlers, SaveMilestone(h)
          PROVE  \A m \in DOMAIN milestones : milestones'[m].initiative = milestones[m].initiative
      <3>1. PICK id, row : id = req[h].id /\ row = req[h].row
        OBVIOUS
      <3>2. req[h].at = "saveMilestone" /\ milestones' \in {With(milestones, id, row), milestones}
        BY <2>2, <3>1 DEF SaveMilestone, At
      <3>3. id \in DOMAIN milestones => milestones[id].initiative = row.initiative
        BY <3>1, <3>2 DEF ChecklistsOK
      <3> QED
        BY <3>2, <3>3 DEF With
    <2>3. ASSUME NEW h \in Handlers, NEW m, RemoveMilestone(h, m)
          PROVE  \A n \in DOMAIN milestones : milestones'[n].initiative = milestones[n].initiative
      BY <2>3 DEF RemoveMilestone, Without, TickedOff
    <2>4. ASSUME NEW h \in Handlers, MilestoneRequests(h)
          PROVE  \A m \in DOMAIN milestones : milestones'[m].initiative = milestones[m].initiative
      <3>1. CASE UNCHANGED work
        BY <3>1 DEF work
      <3> QED
        BY <2>2, <2>3, <2>4, <3>1 DEF MilestoneRequests, AddMilestone, UpdateMilestone
    <2>5. CASE UNCHANGED <<mode, req, plan, work>>
      BY <2>5 DEF work
    <2> QED
      BY <2>1, <2>4, <2>5, StepsAreCalm
  <1> QED
    BY <1>1 DEF ChecklistOf, TickedOff

LEMMA InitiativesLifted ==
    ASSUME RoadmapInv, FiniteOK, ChecklistsOK, [Next]_vars, TickedOff, NEW i \in DOMAIN initiatives
    PROVE  /\ InitiativeProgress(i) \in 0 .. 100 /\ InitiativeProgress(i)' \in 0 .. 100
           /\ InitiativeProgress(i) <= InitiativeProgress(i)'
  <1> DEFINE owned == ChecklistOf(i)
             stored == initiatives[i].progress
             before == Marks(owned, milestones)
             after == Marks(owned, milestones')
             done == DoneIn(owned, milestones)
             ticked == DoneIn(owned, milestones')
  <1>1. /\ InitiativeProgress(i) = DeriveInitiativeProgress(stored, before)
        /\ InitiativeProgress(i)' = DeriveInitiativeProgress(stored, after)
    <2>1. ChecklistOf(i)' = ChecklistOf(i)
      BY ChecklistsStay
    <2>2. InitiativeProgress(i) = DeriveInitiativeProgress(stored, before)
      BY DEF InitiativeProgress, ChecklistOf, Marks
    <2>3. InitiativeProgress(i)' = DeriveInitiativeProgress(initiatives'[i].progress,
                                                             Marks(ChecklistOf(i)', milestones'))
      BY DEF InitiativeProgress, ChecklistOf, Marks
    <2>4. initiatives'[i].progress = stored
      BY DEF TickedOff
    <2> QED
      BY <2>1, <2>2, <2>3, <2>4
  <1>2. stored \in Int
    BY RowsThere DEF InitiativeRow
  <1>3. IsFiniteSet(owned)
    BY FS_Subset DEF FiniteOK, ChecklistOf
  <1>4. owned \subseteq DOMAIN milestones
    BY DEF ChecklistOf
  <1> HIDE DEF owned, stored
  <1>5. /\ IsFiniteSet(before) /\ Cardinality(before) = Cardinality(owned)
        /\ Cardinality(Ticked(before)) = Cardinality(done)
    BY <1>3, MarksCounted
  <1>6. /\ IsFiniteSet(after) /\ Cardinality(after) = Cardinality(owned)
        /\ Cardinality(Ticked(after)) = Cardinality(ticked)
    BY <1>3, MarksCounted
  <1>7. Cardinality(done) \in Nat /\ Cardinality(ticked) \in Nat /\ Cardinality(done) <= Cardinality(ticked)
    <2>1. done \subseteq ticked
      BY <1>4 DEF TickedOff, DoneIn
    <2>2. IsFiniteSet(ticked)
      BY <1>3, FS_Subset DEF DoneIn
    <2> HIDE DEF done, ticked
    <2> QED
      BY <2>1, <2>2, FS_Subset, FS_CardinalityType
  <1>8. (before = {} <=> owned = {}) /\ (after = {} <=> owned = {})
    BY DEF Marks
  <1>9. PICK a \in Nat, b \in Nat, n \in Nat :
            a = Cardinality(done) /\ b = Cardinality(ticked) /\ n = Cardinality(owned)
    BY <1>3, <1>7, FS_CardinalityType
  <1>10. owned # {} => n > 0
    BY <1>3, <1>9, FS_EmptySet
  <1>11. /\ DeriveInitiativeProgress(stored, before)
              = IF owned = {} THEN ClampProgress(stored, 100) ELSE ClampProgress(a, n)
         /\ DeriveInitiativeProgress(stored, after)
              = IF owned = {} THEN ClampProgress(stored, 100) ELSE ClampProgress(b, n)
    <2> HIDE DEF before, after, done, ticked
    <2> QED
      BY <1>5, <1>6, <1>8, <1>9 DEF DeriveInitiativeProgress, Ticked
  <1> HIDE DEF before, after, done, ticked
  <1>12. CASE owned = {}
    <2>1. stored <= stored /\ 100 \in Nat /\ 100 > 0
      BY <1>2
    <2>2. ClampProgress(stored, 100) \in 0 .. 100
      BY <1>2, <2>1, ClampGrows
    <2> QED
      BY <1>1, <1>11, <1>12, <2>2
  <1>13. CASE owned # {}
    <2>1. a \in Int /\ b \in Int /\ a <= b /\ n > 0
      BY <1>7, <1>9, <1>10, <1>13
    <2>2. /\ ClampProgress(a, n) \in 0 .. 100 /\ ClampProgress(b, n) \in 0 .. 100
          /\ ClampProgress(a, n) <= ClampProgress(b, n)
      BY <2>1, ClampGrows
    <2> QED
      BY <1>1, <1>11, <1>13, <2>2
  <1> QED
    BY <1>12, <1>13

\* What an objective's initiatives show, before and after.
LEMMA ViewsLifted ==
    ASSUME RoadmapInv, FiniteOK, ChecklistsOK, [Next]_vars, TickedOff, NEW o
    PROVE  Grown(ViewsOf(o), ViewsOf(o)')
  <1>1. InitiativesOf(o)' = InitiativesOf(o)
    BY DEF InitiativesOf, TickedOff
  <1>2. InitiativesOf(o) \subseteq DOMAIN initiatives /\ IsFiniteSet(InitiativesOf(o))
    <2>1. InitiativesOf(o) \subseteq DOMAIN initiatives
      BY DEF InitiativesOf
    <2>2. InitiativesOf(o) \subseteq Initiatives
      BY <2>1, RowsThere
    <2> QED
      BY <2>1, <2>2, RoadmapAssumption, FS_Subset
  <1>3. /\ DOMAIN ViewsOf(o) = InitiativesOf(o)
        /\ \A i \in InitiativesOf(o) : /\ ViewsOf(o)[i].status = initiatives[i].status
                                       /\ ViewsOf(o)[i].progress = InitiativeProgress(i)
    BY DEF ViewsOf
  <1>4. /\ DOMAIN ViewsOf(o)' = InitiativesOf(o)
        /\ \A i \in InitiativesOf(o) : /\ ViewsOf(o)'[i].status = initiatives[i].status
                                       /\ ViewsOf(o)'[i].progress = InitiativeProgress(i)'
    <2>1. ViewsOf(o)' = [i \in InitiativesOf(o)' |-> [status |-> initiatives'[i].status,
                                                      progress |-> InitiativeProgress(i)']]
      BY DEF ViewsOf
    <2>2. initiatives' = initiatives
      BY DEF TickedOff
    <2> QED
      BY <1>1, <2>1, <2>2
  <1>5. \A i \in InitiativesOf(o) : /\ InitiativeProgress(i) \in Int /\ InitiativeProgress(i)' \in Int
                                    /\ InitiativeProgress(i) <= InitiativeProgress(i)'
    BY <1>2, InitiativesLifted
  <1> QED
    BY <1>2, <1>3, <1>4, <1>5 DEF Grown

\* What its key results show is between 0 and 100, and stays.
LEMMA ProgressRange ==
    ASSUME RoadmapInv, NEW k \in DOMAIN keyResults
    PROVE  ViewOf(k).progress \in Int
  <1>1. PICK row, targets, actuals, measures, now :
           /\ row = keyResults[k] /\ targets = Series(k, "target") /\ actuals = Series(k, "actual")
           /\ measures = Measured(row.metric) /\ now = day
    OBVIOUS
  <1>2. KeyResultRow(row) /\ now \in Days
    BY <1>1 DEF RoadmapInv, PlanOK, MeasuredOK
  <1>3. IsSeries(actuals)
    BY <1>1, SeriesIsSeries
  <1>4. IsSeries(measures)
    <2>1. CASE row.metric = None
      <3>1. measures = << >>
        BY <1>1, <2>1 DEF Measured
      <3> QED
        BY <3>1 DEF IsSeries
    <2>2. CASE row.metric # None
      BY <1>1, <1>2, <2>2 DEF Measured, KeyResultRow, RoadmapInv, MeasuredOK
    <2> QED
      BY <2>1, <2>2
  <1>5. PICK current : current = CurrentValue(row.metric, actuals, measures, now)
    OBVIOUS
  <1>6. current \in Int \cup {None}
    BY <1>2, <1>3, <1>4, <1>5, CurrentMirrors
  <1>7. ViewOf(k).progress = KeyResultProgress(current, row.baseline, row.target)
    BY <1>1, <1>5 DEF ViewOf, ComputeKeyResult
  <1>8. PICK baseline \in Int, target \in Int : baseline = row.baseline /\ target = row.target
    BY <1>2 DEF KeyResultRow
  <1>9. CASE current # None /\ target # baseline
    <2>1. PICK n \in Int, d \in Int : n = current - baseline /\ d = target - baseline /\ d # 0
      BY <1>6, <1>9
    <2>2. ClampRatio(n, d) \in Int
      <3>1. CASE d < 0
        <4>1. -n \in Int /\ -n <= -n /\ -d \in Nat /\ -d > 0
          BY <3>1
        <4>2. ClampProgress(-n, -d) \in 0 .. 100
          BY <4>1, ClampGrows
        <4> QED
          BY <3>1, <4>2 DEF ClampRatio
      <3>2. CASE ~(d < 0)
        <4>1. n <= n /\ d \in Nat /\ d > 0
          BY <2>1, <3>2
        <4>2. ClampProgress(n, d) \in 0 .. 100
          BY <4>1, ClampGrows
        <4> QED
          BY <3>2, <4>2 DEF ClampRatio
      <3> QED
        BY <3>1, <3>2
    <2> QED
      BY <1>7, <1>8, <1>9, <2>1, <2>2 DEF KeyResultProgress
  <1>10. CASE current = None \/ target = baseline
    BY <1>7, <1>8, <1>10 DEF KeyResultProgress
  <1> QED
    BY <1>9, <1>10

LEMMA MeasuresStay ==
    ASSUME RoadmapInv, FiniteOK, TickedOff, NEW o
    PROVE  /\ KeyResultProgressOf(o)' = KeyResultProgressOf(o) /\ IsFiniteSet(DOMAIN KeyResultProgressOf(o))
           /\ \A k \in DOMAIN KeyResultProgressOf(o) : KeyResultProgressOf(o)[k] \in Int
  <1>1. KeyResultsOf(o) \subseteq DOMAIN keyResults
    BY DEF KeyResultsOf
  <1>2. KeyResultProgressOf(o)' = KeyResultProgressOf(o)
    BY DEF TickedOff, KeyResultProgressOf, KeyResultsOf, ViewOf, ComputeKeyResult, Series, PointsOf, Measured
  <1>3. /\ DOMAIN KeyResultProgressOf(o) = KeyResultsOf(o)
        /\ \A k \in KeyResultsOf(o) : KeyResultProgressOf(o)[k] = ViewOf(k).progress
    BY DEF KeyResultProgressOf
  <1> QED
    BY <1>1, <1>2, <1>3, ProgressRange, FS_Subset DEF FiniteOK

\* The progress of an objective of the second level.
LeafProgress(c) == DeriveCascadedProgress(objectives[c].progress, KeyResultProgressOf(c), << >>, ViewsOf(c))

ChildrenOf(o) == {c \in DOMAIN objectives : objectives[c].parent = o}

LEMMA Cascaded ==
    ASSUME NEW o
    PROVE  ObjectiveProgress(o) = DeriveCascadedProgress(objectives[o].progress, KeyResultProgressOf(o),
                                      [c \in ChildrenOf(o) |-> LeafProgress(c)], ViewsOf(o))
  BY DEF ObjectiveProgress, LeafProgress, ChildrenOf

LEMMA LeavesLifted ==
    ASSUME RoadmapInv, FiniteOK, ChecklistsOK, [Next]_vars, TickedOff, NEW c \in DOMAIN objectives
    PROVE  /\ LeafProgress(c) \in 0 .. 100 /\ LeafProgress(c)' \in 0 .. 100
           /\ LeafProgress(c) <= LeafProgress(c)'
  <1>1. PICK stored, measures, less, more, none :
           /\ stored = objectives[c].progress /\ measures = KeyResultProgressOf(c)
           /\ less = ViewsOf(c) /\ more = ViewsOf(c)' /\ none = << >>
    OBVIOUS
  <1>2. stored \in Int
    BY <1>1 DEF RoadmapInv, PlanOK, ObjectiveRow
  <1>3. IsFiniteSet(DOMAIN measures) /\ \A k \in DOMAIN measures : measures[k] \in Int
    BY <1>1, MeasuresStay
  <1>4. Grown(less, more)
    BY <1>1, ViewsLifted
  <1>5. DOMAIN none = {} /\ IsFiniteSet(DOMAIN none)
    BY <1>1, FS_EmptySet
  <1>6. LeafProgress(c) = DeriveCascadedProgress(stored, measures, none, less)
    BY <1>1 DEF LeafProgress
  <1>7. LeafProgress(c)' = DeriveCascadedProgress(stored, measures, none, more)
    BY <1>1, MeasuresStay DEF LeafProgress, TickedOff
  <1> QED
    BY <1>2, <1>3, <1>4, <1>5, <1>6, <1>7, CascadeLifts

LEMMA ObjectivesLifted ==
    ASSUME RoadmapInv, FiniteOK, ChecklistsOK, [Next]_vars, TickedOff, NEW o \in DOMAIN objectives
    PROVE  ObjectiveProgress(o)' >= ObjectiveProgress(o)
  <1>1. PICK stored, measures, less, more, low, high :
           /\ stored = objectives[o].progress /\ measures = KeyResultProgressOf(o)
           /\ less = ViewsOf(o) /\ more = ViewsOf(o)'
           /\ low = [c \in ChildrenOf(o) |-> LeafProgress(c)]
           /\ high = [c \in ChildrenOf(o) |-> LeafProgress(c)']
    OBVIOUS
  <1>2. stored \in Int
    BY <1>1 DEF RoadmapInv, PlanOK, ObjectiveRow
  <1>3. IsFiniteSet(DOMAIN measures) /\ \A k \in DOMAIN measures : measures[k] \in Int
    BY <1>1, MeasuresStay
  <1>4. Grown(less, more)
    BY <1>1, ViewsLifted
  <1>5. ChildrenOf(o) \subseteq DOMAIN objectives /\ IsFiniteSet(ChildrenOf(o))
    BY FS_Subset DEF ChildrenOf, FiniteOK
  <1>6. /\ DOMAIN low = ChildrenOf(o) /\ DOMAIN high = ChildrenOf(o)
        /\ \A c \in ChildrenOf(o) : low[c] \in Int /\ high[c] \in Int /\ low[c] <= high[c]
    <2>1. \A c \in ChildrenOf(o) : /\ LeafProgress(c) \in Int /\ LeafProgress(c)' \in Int
                                   /\ LeafProgress(c) <= LeafProgress(c)'
      BY <1>5, LeavesLifted
    <2> QED
      BY <1>1, <2>1
  <1>7. ObjectiveProgress(o) = DeriveCascadedProgress(stored, measures, low, less)
    BY <1>1, Cascaded
  <1>8. ObjectiveProgress(o)' = DeriveCascadedProgress(stored, measures, high, more)
    <2>1. ObjectiveProgress(o)' = DeriveCascadedProgress(objectives'[o].progress, KeyResultProgressOf(o)',
                                      [c \in ChildrenOf(o)' |-> LeafProgress(c)'], ViewsOf(o)')
      BY DEF ObjectiveProgress, LeafProgress, ChildrenOf
    <2>2. ChildrenOf(o)' = ChildrenOf(o) /\ objectives' = objectives
      BY DEF ChildrenOf, TickedOff
    <2> QED
      BY <1>1, <2>1, <2>2, MeasuresStay
  <1>9. /\ DeriveCascadedProgress(stored, measures, low, less) \in 0 .. 100
        /\ DeriveCascadedProgress(stored, measures, high, more) \in 0 .. 100
        /\ DeriveCascadedProgress(stored, measures, low, less) <= DeriveCascadedProgress(stored, measures, high, more)
    BY <1>2, <1>3, <1>4, <1>5, <1>6, CascadeLifts
  <1> QED
    BY <1>7, <1>8, <1>9

\* Ticking off milestones never takes an objective back, whether its progress
\* comes from key results, from the objectives below it or from initiatives:
\* every rounding and every mean of roadmap.progress.ts is monotone, an
\* initiative that is dropped stays out of the mean, and a milestone keeps its
\* checklist whatever other request saves it again (roadmap.service.ts).
THEOREM DoneLifts == Spec => DoneNeverLowers
  <1>1. RoadmapInv /\ (FiniteOK /\ ChecklistsOK) /\ [Next]_vars
          => [TickedOff => \A o \in DOMAIN objectives : ObjectiveProgress(o)' >= ObjectiveProgress(o)]_vars
    BY ObjectivesLifted
  <1>2. [TickedOff => \A o \in DOMAIN objectives : ObjectiveProgress(o)' >= ObjectiveProgress(o)]_vars
          => [(/\ UNCHANGED <<objectives, keyResults, points, snapshots, day, initiatives>>
               /\ DOMAIN milestones' = DOMAIN milestones
               /\ \A m \in DOMAIN milestones : milestones[m].done => milestones'[m].done)
              => \A o \in DOMAIN objectives : ObjectiveProgress(o)' >= ObjectiveProgress(o)]_vars
    BY DEF TickedOff
  <1> QED
    BY <1>1, <1>2, RoadmapStands, ListsStand, PTL DEF Spec, DoneNeverLowers
=============================================================================
