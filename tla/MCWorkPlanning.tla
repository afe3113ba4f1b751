--------------------------- MODULE MCWorkPlanning ---------------------------
(* Instances of WorkPlanning: sprints and dependencies, in order and         *)
(* overlapping, a reference document's tickets, and what hangs on a ticket. *)
EXTENDS WorkPlanning

CONSTANTS t1, t2, t3, s1, s2, pA, pB, h1, h2

OrderlySprints ==
    [handlers |-> {h1}, tickets |-> {t1}, sprints |-> {s1, s2}, projects |-> {pA, pB}, manifest |-> {},
     parts |-> {}, faults |-> {}]
OrderlyDependencies ==
    [OrderlySprints EXCEPT !.tickets = {t1, t2, t3}, !.sprints = {}, !.projects = {pA}]

Overlapping(m) == [m EXCEPT !.handlers = {h1, h2}]
OverlappingSprints == Overlapping([OrderlySprints EXCEPT !.sprints = {s1}])

\* t1 comes from a reference document.
Imported(m) == [m EXCEPT !.manifest = {t1}]

Parts(kinds, faults) ==
    [OrderlySprints EXCEPT !.sprints = {}, !.projects = {pA}, !.parts = kinds, !.faults = faults]

MCModes == {
    OrderlySprints, Imported(OrderlySprints), OrderlyDependencies,
    OverlappingSprints, Imported(OverlappingSprints), Overlapping(OrderlyDependencies),
    Parts({"attachments", "subtasks"}, {"write", "unlink"}),
    Overlapping(Parts({"attachments"}, {"write"})),
    Overlapping(Parts({"attachments"}, {"crash"})),
    Overlapping(Parts({"subtasks"}, {}))}
=============================================================================
