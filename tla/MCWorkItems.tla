----------------------------- MODULE MCWorkItems -----------------------------
(***************************************************************************)
(* Small instances of WorkItems, and the reference definitions its pure    *)
(* parts are compared with: planMove by arrays, cycles by closure.         *)
(***************************************************************************)
EXTENDS WorkItems, SequencesExt, Relation

Board ==
    [tickets |-> 3, statuses |-> {"resolved", "closed"},
     types |-> {}, parents |-> {}, projects |-> {}]

Lifecycle ==
    [tickets |-> 2, statuses |-> {"triage", "in_progress", "resolved", "closed"},
     types |-> {}, parents |-> {}, projects |-> {}]

Hierarchy ==
    [tickets |-> 3, statuses |-> {}, types |-> {"epic", "story"},
     parents |-> {NoParent, 1, 2, 3}, projects |-> {}]

OneTicket ==
    [tickets |-> 1, statuses |-> {"triage", "resolved", "closed"},
     types |-> {}, parents |-> {}, projects |-> {}]

Numbering ==
    [tickets |-> 3, statuses |-> {}, types |-> {}, parents |-> {}, projects |-> {}]

OneAtATime  == {Board, Lifecycle, Hierarchy}
Overlapping == {OneTicket, Numbering}
Closing     == {[OneTicket EXCEPT !.statuses = {"closed"}]}

-----------------------------------------------------------------------------
\* planMove the way its arrays go: filter, sort, splice the moved ticket in, and
\* keep the entries whose index is not their position.
Sorted(all, column) == SetToSortSeq(column, LAMBDA i, j : ByPosition(all, i, j))

Reindexed(all, seq, status) ==
    LET changed == {k \in DOMAIN seq : all[seq[k]].status # status \/ all[seq[k]].position # k - 1}
    IN  [i \in {seq[k] : k \in changed} |->
            [status |-> status, position |-> (CHOOSE k \in changed : seq[k] = i) - 1]]

PlanBySplicing(all, movedId, targetStatus, targetPosition) ==
    IF movedId \notin DOMAIN all THEN << >>
    ELSE LET sourceStatus == all[movedId].status
             target == Sorted(all, Column(all, targetStatus, movedId))
             index  == IF targetPosition < Len(target) THEN targetPosition ELSE Len(target)
             moved  == Reindexed(all, InsertAt(target, index + 1, movedId), targetStatus)
         IN  IF sourceStatus = targetStatus THEN moved
             ELSE moved @@ Reindexed(all, Sorted(all, Column(all, sourceStatus, movedId)), sourceStatus)

Boards == [1 .. 3 -> [status : {"todo", "review"}, position : 0 .. 2]]

\* On every board of three, gaps and duplicate ranks included, the plan by ranks
\* is the one the arrays give.
ASSUME PlansAgree ==
    \A all \in Boards, id \in 1 .. 4, s \in {"todo", "review"}, at \in 0 .. 3 :
        PlanMove(all, id, s, at) = PlanBySplicing(all, id, s, at)

-----------------------------------------------------------------------------
\* The transitive closure of "has this parent", on ids up to three.
AncestorOf(nodes) ==
    TransitiveClosure([i, j \in 1 .. 3 |-> i \in DOMAIN nodes /\ nodes[i].parent = j], 1 .. 3)

Forests == UNION {[ids -> [parent : 0 .. 3]] : ids \in SUBSET (1 .. 3)}

\* On every table of up to three tickets, loops and vanished parents included,
\* the walk meets exactly the ancestors.
ASSUME WalksAgree ==
    \A nodes \in Forests, i \in 1 .. 3 :
        Walked(nodes, i) = {j \in 1 .. 3 : AncestorOf(nodes)[i, j]}
=============================================================================
