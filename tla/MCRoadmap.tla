------------------------------ MODULE MCRoadmap ------------------------------
(***************************************************************************)
(* Instances of Roadmap.  Every mode keeps the tables it does not explore  *)
(* empty or as it found them.                                              *)
(***************************************************************************)
EXTENDS Roadmap

CONSTANTS ann, ben, nola, kin, churn, bug, wish

MCHandlers == {ann, ben}
MCUnits == {nola, kin}
MCTickets == {bug, wish}
MCSymmetry == Permutations(MCTickets)
MCMetrics == churn :> TRUE
MCMetricValues == {churn :> v : v \in {0, 6}}
MCStatuses == {"idea", "shipped", "dropped"}

Objective(parent, year) == [parent |-> parent, year |-> year, quarter |-> ~year, progress |-> 40]
MCObjectiveBodies == {Objective(p, y) : p \in {None, 1, 2}, y \in BOOLEAN}
MCObjectivePatches ==
    {[parent |-> p, year |-> Keep, quarter |-> Keep, progress |-> Keep] : p \in Objectives \cup {None}}
      \cup {[parent |-> Keep, year |-> y, quarter |-> ~y, progress |-> Keep] : y \in BOOLEAN}
      \cup {[parent |-> Keep, year |-> TRUE, quarter |-> Keep, progress |-> Keep]}

MCKeyResultBodies ==
    {[metric |-> None, direction |-> Keep, baseline |-> 0, target |-> 10],
     [metric |-> churn, direction |-> Keep, baseline |-> 8, target |-> 0]}
MCKeyResultPatches == {[metric |-> churn, direction |-> Keep, baseline |-> 4, target |-> -4]}
MCPointPatches == {[target |-> v, actual |-> Keep] : v \in {None, 2}} \cup {[target |-> 7, actual |-> 3]}

Row(scope, status, position, prefix, unit) ==
    [scope |-> scope, status |-> status, position |-> position, prefix |-> prefix, seq |-> 0,
     archived |-> FALSE, objective |-> None, unit |-> unit, progress |-> 50]
MCInitiativeBodies ==
    {[status |-> "idea", unit |-> nola, objective |-> None, progress |-> 50]}
MCInitiativePatches ==
    {[objective |-> 1, status |-> Keep, progress |-> Keep],
     [objective |-> Keep, status |-> "dropped", progress |-> Keep]}

MCBases == {<<"N">>}
MCTypedPrefixes == {<<"N", "2">>}

Rows1 == 1 :> Row("initiative", "idea", 0, <<"N">>, nola)
Rows3 == Rows1 @@ 2 :> Row("initiative", "idea", 1, <<"K">>, nola)
               @@ 3 :> Row("initiative", "shipped", 0, <<"L">>, kin)
Objectives2 == 1 :> Objective(None, TRUE) @@ 2 :> Objective(1, FALSE)

Mode(handlers, explores, objs, rows, fresh) ==
    [handlers |-> handlers, explores |-> explores, objectives |-> objs, rows |-> rows,
     fresh |-> fresh, allowed |-> MCUnits]

MCModes == {
    Mode({ann}, {"objectives", "removals"}, << >>, << >>, {}),
    Mode({ann, ben}, {"patches"}, Objectives2, << >>, {}),
    Mode({ann}, {"keyResults", "trajectories", "calendar"}, 1 :> Objective(None, TRUE), << >>, {}),
    Mode({ann}, {"keyResults", "calendar", "captures"}, 1 :> Objective(None, TRUE), << >>, {}),
    [Mode({ann}, {"board", "removals"}, << >>, Rows3, {}) EXCEPT !.allowed = {nola}],
    Mode({ann}, {"board", "removals"}, << >>, Rows3, {}),
    Mode({ann}, {"references", "tickets", "removals"}, << >>, Rows1, {2}),
    Mode({ann}, {"references", "tickets", "archives"}, << >>, Rows1, {}),
    Mode({ann}, {"patches", "board", "milestones", "removals"}, Objectives2, Rows1, {})}
=============================================================================
