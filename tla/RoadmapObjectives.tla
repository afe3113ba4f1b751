-------------------------- MODULE RoadmapObjectives --------------------------
(***************************************************************************)
(* Objectives, their key results and the points of their trajectories      *)
(* (roadmap.service.ts), and the daily snapshots of the metrics a key      *)
(* result may be bound to (snapshots.service.ts).  A year and a quarter    *)
(* are present or absent, dates are days counted from the first one.       *)
(***************************************************************************)
EXTENDS Requests, Functions, FiniteSetsExt

(***************************************************************************)
(* The arithmetic of objectives and key results (roadmap.progress.ts,      *)
(* roadmap.trajectory.ts).  Values are integers; a value on the planned    *)
(* line between two points is a fraction <<numerator, denominator>>.  The  *)
(* points and snapshots of a key result are functions from dates to        *)
(* values, rows whose value is null left out.                              *)
(***************************************************************************)
\* Math.round of n/d percent, within 0..100; d is positive.
ClampProgress(n, d) ==
    IF n <= 0 THEN 0 ELSE LET p == (200 * n + d) \div (2 * d) IN IF p > 100 THEN 100 ELSE p

\* The same of a ratio whose two terms have the sign of the direction.
ClampRatio(n, d) == IF d < 0 THEN ClampProgress(-n, -d) ELSE ClampProgress(n, d)

\* The rounded mean of percentages listed by key.
MeanOf(progress) ==
    ClampProgress(FoldFunction(+, 0, progress), 100 * Cardinality(DOMAIN progress))

\* Mutant: the share of the checklist that is left.
DeriveInitiativeProgressLeft(stored, milestones) ==
    IF milestones = {} THEN ClampProgress(stored, 100)
    ELSE ClampProgress(Cardinality({m \in milestones : ~m.done}), Cardinality(milestones))

\* A checklist wins over the stored progress.
DeriveInitiativeProgress(stored, milestones) ==
    IF milestones = {} THEN ClampProgress(stored, 100)
    ELSE ClampProgress(Cardinality({m \in milestones : m.done}), Cardinality(milestones))

LatestBefore(series, date) == Max({d \in DOMAIN series : d <= date})

\* What a key result sits at: the last snapshot of its metric up to today, or
\* the last value entered by hand.
CurrentValue(metricKey, actuals, snapshots, today) ==
    LET series == IF metricKey # None THEN Restrict(snapshots, {d \in DOMAIN snapshots : d <= today})
                  ELSE actuals
    IN  IF DOMAIN series = {} THEN None ELSE series[Max(DOMAIN series)]

KeyResultProgress(current, baseline, target) ==
    IF current = None \/ target = baseline THEN 0
    ELSE ClampRatio(current - baseline, target - baseline)

\* The planned value: the baseline before the first point, the last target
\* after the last one, the straight line in between.
PlannedValueAt(date, baseline, targets) ==
    LET dates == DOMAIN targets
    IN  CASE dates = {} -> None
          [] dates # {} /\ date < Min(dates) -> <<baseline, 1>>
          [] dates # {} /\ date >= Max(dates) -> <<targets[Max(dates)], 1>>
          [] OTHER ->
                LET from == LatestBefore(targets, date)
                    to   == Min({d \in dates : d > date})
                IN  <<targets[from] * (to - from) + (targets[to] - targets[from]) * (date - from),
                      to - from>>

\* Mutant: the distance keeps the sign of the values, not of the direction.
OnTrackStatusUpwards(current, planned, baseline, target) ==
    IF current = None \/ planned = None \/ target = baseline THEN "unknown"
    ELSE LET delta == 20 * (current * planned[2] - planned[1])
             width == IF target > baseline THEN target - baseline ELSE baseline - target
             span  == width * planned[2]
         IN CASE delta >= span -> "ahead"
              [] delta < span /\ delta >= -span -> "on_track"
              [] delta < -span /\ delta >= -4 * span -> "at_risk"
              [] OTHER -> "behind"

\* The distance to the plan, in twentieths of the way from baseline to target:
\* at least 1 is ahead, at least -1 on track, at least -4 at risk.
OnTrackStatus(current, planned, baseline, target) ==
    IF current = None \/ planned = None \/ target = baseline THEN "unknown"
    ELSE LET sign  == IF target > baseline THEN 1 ELSE -1
             delta == 20 * sign * (current * planned[2] - planned[1])
             span  == sign * (target - baseline) * planned[2]
         IN CASE delta >= span -> "ahead"
              [] delta < span /\ delta >= -span -> "on_track"
              [] delta < -span /\ delta >= -4 * span -> "at_risk"
              [] OTHER -> "behind"

\* Abandoned initiatives neither drag an objective down nor lift it.
DeriveObjectiveProgress(initiatives) ==
    LET counted == {i \in DOMAIN initiatives : initiatives[i].status # "dropped"}
    IN  IF counted = {} THEN 0
        ELSE MeanOf([i \in counted |-> initiatives[i].progress])

\* Key results, then initiatives, then what the operator stored; the children
\* of an annual objective come between, so `children` is their progress.
DeriveCascadedProgress(stored, keyResults, children, initiatives) ==
    CASE DOMAIN keyResults # {} -> MeanOf(keyResults)
      [] DOMAIN keyResults = {} /\ DOMAIN children # {} -> MeanOf(children)
      [] OTHER -> IF \E i \in DOMAIN initiatives : initiatives[i].status # "dropped"
                  THEN DeriveObjectiveProgress(initiatives) ELSE ClampProgress(stored, 100)

-----------------------------------------------------------------------------
CONSTANTS
    Objectives, KeyResults, Points,
    Metrics,        \* metric -> whether lower is better
    LastDay         \* bound on the calendar

VARIABLES objectives, keyResults, points, snapshots, day

plan == <<objectives, keyResults, points>>
measured == <<snapshots, day>>

Days == 0 .. LastDay
Directions == {"up", "down"}
ObjectiveRows == [parent : Objectives \cup {None}, year : BOOLEAN, quarter : BOOLEAN, progress : 0 .. 100]
\* What the validation of the bodies lets through; a year and a quarter may
\* both be given, and a key result or a point patched field by field.
CreateObjectiveDto == ObjectiveRows
UpdateObjectiveDto ==
    [parent : Objectives \cup {None, Keep}, year : BOOLEAN \cup {Keep}, quarter : BOOLEAN \cup {Keep},
     progress : 0 .. 100 \cup {Keep}]
CreateKeyResultDto ==
    [metric : DOMAIN Metrics \cup {None}, direction : Directions \cup {Keep}, baseline : Int, target : Int]
UpdateKeyResultDto ==
    [metric : DOMAIN Metrics \cup {None, Keep}, direction : Directions \cup {Keep},
     baseline : Int \cup {Keep}, target : Int \cup {Keep}]
TrajectoryPointDto == [target : Int \cup {None, Keep}, actual : Int \cup {None, Keep}]

-----------------------------------------------------------------------------
\* An objective plans a year or a quarter.
Horizon(year, quarter) == ~(year /\ quarter)

MayBeParent(o) == o \in DOMAIN objectives /\ objectives[o].parent = None

CreateObjective(h, o, dto) ==
    /\ MayStart(h) /\ Unused(o, objectives)
    /\ Horizon(dto.year, dto.quarter)
    /\ dto.parent # None => MayBeParent(dto.parent)
    /\ Awaits(h, [at |-> "saveObjective", id |-> o, row |-> dto])
    /\ UNCHANGED plan

\* Both rules are checked against the row the patch makes.
UpdateObjective(h, o, dto) ==
    /\ MayStart(h) /\ o \in DOMAIN objectives
    /\ LET row == [parent  |-> Given(dto.parent, objectives[o].parent),
                   year    |-> Given(dto.year, objectives[o].year),
                   quarter |-> Given(dto.quarter, objectives[o].quarter),
                   progress |-> Given(dto.progress, objectives[o].progress)]
           parents == dto.parent \notin {None, Keep}
       IN /\ Horizon(row.year, row.quarter)
          /\ dto.parent # o
          /\ Awaits(h, [at |-> IF parents THEN "parent" ELSE "saveObjective", id |-> o, row |-> row])
    /\ UNCHANGED plan

CheckParent(h) ==
    /\ At(h, "parent")
    /\ IF MayBeParent(req[h].row.parent)
       THEN Awaits(h, [req[h] EXCEPT !.at = "children"]) ELSE Ends(h)
    /\ UNCHANGED plan

CheckChildren(h) ==
    /\ At(h, "children")
    /\ IF \E c \in DOMAIN objectives : objectives[c].parent = req[h].id
       THEN Ends(h) ELSE Awaits(h, [req[h] EXCEPT !.at = "saveObjective"])
    /\ UNCHANGED plan

\* The save fails when the parent is gone.
SaveObjective(h) ==
    /\ At(h, "saveObjective")
    /\ objectives' = IF req[h].row.parent \in DOMAIN objectives \cup {None}
                     THEN With(objectives, req[h].id, req[h].row) ELSE objectives
    /\ Ends(h)
    /\ UNCHANGED <<keyResults, points>>

PointsOf(ks) == {p \in DOMAIN points : points[p].keyResult \in ks}

KeyResultsOf(o) == {k \in DOMAIN keyResults : keyResults[k].objective = o}

\* Key results and their points go with an objective; its children stay.
RemoveObjective(h, o) ==
    /\ MayStart(h) /\ o \in DOMAIN objectives
    /\ objectives' = [q \in DOMAIN objectives \ {o} |->
                        IF objectives[q].parent = o THEN [objectives[q] EXCEPT !.parent = None]
                        ELSE objectives[q]]
    /\ keyResults' = Without(keyResults, KeyResultsOf(o))
    /\ points' = Without(points, PointsOf(KeyResultsOf(o)))
    /\ UNCHANGED <<mode, req>>

-----------------------------------------------------------------------------
MetricDirection(metric) == IF Metrics[metric] THEN "down" ELSE "up"

KeyResult(o, direction, dto) ==
    [objective |-> o, metric |-> dto.metric, direction |-> direction,
     baseline |-> dto.baseline, target |-> dto.target]

\* A key result reads in the direction of its metric unless the body says
\* otherwise; without a metric the plan says where it goes.
CreateKeyResult(h, k, o, dto) ==
    /\ MayStart(h) /\ Unused(k, keyResults) /\ o \in DOMAIN objectives
    /\ LET direction == CASE dto.direction # Keep -> dto.direction
                          [] dto.direction = Keep /\ dto.metric # None -> MetricDirection(dto.metric)
                          [] OTHER -> IF dto.target < dto.baseline THEN "down" ELSE "up"
       IN Awaits(h, [at |-> "saveKeyResult", id |-> k,
                     row |-> KeyResult(o, direction, dto)])
    /\ UNCHANGED plan

\* Binding to a metric brings its direction back.
UpdateKeyResult(h, k, dto) ==
    /\ MayStart(h) /\ k \in DOMAIN keyResults
    /\ LET row == keyResults[k]
           bound == IF dto.metric \notin {Keep, None} THEN MetricDirection(dto.metric)
                    ELSE row.direction
       IN Awaits(h, [at |-> "saveKeyResult", id |-> k,
                     row |-> [row EXCEPT !.metric = Given(dto.metric, @),
                                         !.direction = Given(dto.direction, bound),
                                         !.baseline = Given(dto.baseline, @),
                                         !.target = Given(dto.target, @)]])
    /\ UNCHANGED plan

SaveKeyResult(h) ==
    /\ At(h, "saveKeyResult")
    /\ keyResults' = IF req[h].row.objective \in DOMAIN objectives
                     THEN With(keyResults, req[h].id, req[h].row) ELSE keyResults
    /\ Ends(h)
    /\ UNCHANGED <<objectives, points>>

RemoveKeyResult(h, k) ==
    /\ MayStart(h) /\ k \in DOMAIN keyResults
    /\ keyResults' = Without(keyResults, {k})
    /\ points' = Without(points, PointsOf({k}))
    /\ UNCHANGED <<objectives, mode, req>>

-----------------------------------------------------------------------------
PointAt(k, date) == {p \in DOMAIN points : points[p].keyResult = k /\ points[p].date = date}

TrajectoryPoint(k, date) == [keyResult |-> k, date |-> date, target |-> None, actual |-> None]

Patched(point, dto) ==
    [point EXCEPT !.target = Given(dto.target, @), !.actual = Given(dto.actual, @)]

\* Planning a date again updates its point.
AddTrajectoryPoint(h, p, k, date, dto) ==
    /\ MayStart(h) /\ k \in DOMAIN keyResults
    /\ IF PointAt(k, date) = {} THEN Unused(p, points) ELSE p \in PointAt(k, date)
    /\ LET point == IF PointAt(k, date) # {} THEN points[p]
                    ELSE TrajectoryPoint(k, date)
       IN Awaits(h, [at |-> "savePoint", id |-> p, row |-> Patched(point, dto)])
    /\ UNCHANGED plan

UpdateTrajectoryPoint(h, p, date, dto) ==
    /\ MayStart(h) /\ p \in DOMAIN points
    /\ LET moved == Given(date, points[p].date)
       IN /\ moved # points[p].date => PointAt(points[p].keyResult, moved) = {}
          /\ Awaits(h, [at |-> "savePoint", id |-> p,
                        row |-> [Patched(points[p], dto) EXCEPT !.date = moved]])
    /\ UNCHANGED plan

\* Refused by the foreign key, or by the unique index on the date.
SavePoint(h) ==
    /\ At(h, "savePoint")
    /\ LET row == req[h].row
           fits == row.keyResult \in DOMAIN keyResults
                   /\ PointAt(row.keyResult, row.date) \subseteq {req[h].id}
       IN points' = IF fits THEN With(points, req[h].id, row) ELSE points
    /\ Ends(h)
    /\ UNCHANGED <<objectives, keyResults>>

RemoveTrajectoryPoint(h, p) ==
    /\ MayStart(h) /\ p \in DOMAIN points
    /\ points' = Without(points, {p})
    /\ UNCHANGED <<objectives, keyResults, mode, req>>

-----------------------------------------------------------------------------
NextDay == day < LastDay /\ day' = day + 1 /\ UNCHANGED snapshots

\* The row of the day is overwritten by each capture of that day, except by one
\* that finds no tenant at all.
CaptureDaily(values, tenants) ==
    /\ tenants # {}
    /\ snapshots' = [m \in DOMAIN Metrics |-> With(snapshots[m], day, values[m])]
    /\ UNCHANGED day

-----------------------------------------------------------------------------
Series(k, field) ==
    LET known == {p \in PointsOf({k}) : points[p][field] # None}
    IN  [d \in {points[p].date : p \in known} |-> points[CHOOSE p \in known : points[p].date = d][field]]

Measured(metric) == IF metric = None THEN << >> ELSE snapshots[metric]

\* What the console shows of a key result whose plan is `row`.
ComputeKeyResult(row, targets, actuals, measures) ==
    LET current == CurrentValue(row.metric, actuals, measures, day)
        planned == PlannedValueAt(day, row.baseline, targets)
    IN  [current  |-> current, planned |-> planned,
         progress |-> KeyResultProgress(current, row.baseline, row.target),
         status   |-> OnTrackStatus(current, planned, row.baseline, row.target)]

ViewOf(k) == ComputeKeyResult(keyResults[k], Series(k, "target"), Series(k, "actual"),
                              Measured(keyResults[k].metric))
=============================================================================
