---------------------------- MODULE WorkItemRules ----------------------------
(***************************************************************************)
(* The kanban board's reorder plan, work-items.board.ts.  A board is a     *)
(* function from ticket ids to records that carry at least a status (the   *)
(* column) and a position (the rank in the column).  The code sorts and    *)
(* splices arrays; the plan is stated here by ranks, and MCWorkItems       *)
(* compares it with one that follows the arrays literally.                 *)
(***************************************************************************)
EXTENDS Naturals, FiniteSets

\* byPosition: ascending position, ties broken by ascending id.
ByPosition(all, i, j) ==
    \/ all[i].position < all[j].position
    \/ all[i].position = all[j].position /\ i < j

\* The tickets of one column, the moved one left out.
Column(all, status, movedId) ==
    {i \in DOMAIN all \ {movedId} : all[i].status = status}

\* The index sort(byPosition) gives ticket i among the tickets of column.
Rank(all, column, i) == Cardinality({j \in column : ByPosition(all, j, i)})

\* What a move must persist: ticket -> placement, changed tickets only.
PlanMove(all, movedId, targetStatus, targetPosition) ==
    IF movedId \notin DOMAIN all THEN << >>
    ELSE LET sourceStatus == all[movedId].status
             target == Column(all, targetStatus, movedId)
             source == IF sourceStatus = targetStatus THEN {}
                       ELSE Column(all, sourceStatus, movedId)
             size   == Cardinality(target)
             index  == IF targetPosition < size THEN targetPosition ELSE size
             placed(i) ==
                IF i = movedId THEN index
                ELSE IF i \in source THEN Rank(all, source, i)
                ELSE LET r == Rank(all, target, i)
                     IN IF r < index THEN r ELSE r + 1
             column(i) == IF i \in source THEN sourceStatus ELSE targetStatus
             changed == {i \in target \cup source \cup {movedId} :
                            \/ all[i].status # column(i)
                            \/ all[i].position # placed(i)}
         IN [i \in changed |-> [status |-> column(i), position |-> placed(i)]]

-----------------------------------------------------------------------------
\* A column whose positions are exactly 0 .. n-1.
DenseColumn(all, status) ==
    LET column == {i \in DOMAIN all : all[i].status = status}
    IN  {all[i].position : i \in column} = 0 .. Cardinality(column) - 1

-----------------------------------------------------------------------------
(***************************************************************************)
(* The taxonomy's shape rules, work-item-hierarchy.ts: which type may hang *)
(* off which, and the upward walk that refuses a cycle.                    *)
(* A forest is a function from ids to records with a type and a parent     *)
(* (NoParent for a root); an id outside its domain is a vanished parent.   *)
(***************************************************************************)
NoParent == 0

TaskShaped == {"task", "bug", "spike", "feature", "ops", "debt"}

WorkItemTypes == {"epic", "story"} \cup TaskShaped

\* ALLOWED_PARENT_TYPES
AllowedParentTypes(type) ==
    CASE type = "epic"       -> {}
      [] type = "story"      -> {"epic"}
      [] type \in TaskShaped -> {"epic", "story"}

\* ancestors(id)?.parentId ?? null
ParentIn(nodes, id) == IF id \in DOMAIN nodes THEN nodes[id].parent ELSE NoParent

\* A set of ids no parent leads out of.
UpClosed(nodes, C) == \A i \in C : ParentIn(nodes, i) \in C \cup {NoParent}

\* Every value the cursor takes above id before it is null or seen before: the
\* least set that has id's parent and the parent of each of its members.
Walked(nodes, id) ==
    LET above == {nodes[i].parent : i \in DOMAIN nodes} \ {NoParent}
    IN  {a \in above : \A C \in SUBSET above :
            UpClosed(nodes, C) /\ ParentIn(nodes, id) \in C \cup {NoParent} => a \in C}

\* Mutant: the walk upward is left out.
CheckParentWithoutWalk(child, childType, parent, nodes) ==
    IF parent = child THEN "self"
    ELSE IF nodes[parent].type \notin AllowedParentTypes(childType) THEN "forbidden"
    ELSE "legal"

\* checkParent: the verdict on hanging `child` (of type childType) off
\* `parent`, which is in nodes; "legal" stands for null.
CheckParent(child, childType, parent, nodes) ==
    IF parent = child THEN "self"
    ELSE IF nodes[parent].type \notin AllowedParentTypes(childType) THEN "forbidden"
    ELSE IF child \in Walked(nodes, parent) THEN "cycle"
    ELSE "legal"
=============================================================================
