---------------------------- MODULE MCGithubLinks ----------------------------
(* A repository's branches, orderly and overlapping, and the registry that *)
(* knows the repository, as it is filled, renamed and brought in line.     *)
EXTENDS GithubLinks, TLC

CONSTANTS t1, t2, h1, h2, front, back, other, hq_

\* The key of the one is the beginning of the other's, and so is its branch's
\* name: TA10, TA10B01.
MCDescribed ==
    [t \in {t1, t2} |->
        [type |-> IF t = t1 THEN "bug" ELSE "feature", project |-> hq_, surface |-> "frontend",
         reference |-> IF t = t1 THEN <<"TA", "10">> ELSE <<"TA", "10", "B", "01">>,
         title |-> IF t = t1 THEN <<"2", "-", "factor", "-", "sign", "-", "in">> ELSE << >>]]

Nothing == [r \in {} |-> None]

\* The repository stands in the registry, open to the project.
Standing ==
    [handlers |-> {h1}, inOrder |-> TRUE, events |-> 5, tickets |-> {t1},
     ghRepos |-> [id \in {1} |-> [name |-> front, former |-> {}, branch |-> "main", archived |-> FALSE]],
     registry |-> [r \in {1} |-> Row(1, front, "main", FALSE, None)], permits |-> {<<1, hq_>>},
     repos |-> {}, names |-> {}, reuse |-> FALSE, manages |-> {}]

Overlapping == [Standing EXCEPT !.handlers = {h1, h2}, !.inOrder = FALSE, !.events = 3]
TwoTickets == [Standing EXCEPT !.tickets = {t1, t2}, !.handlers = {h1, h2}, !.inOrder = FALSE, !.events = 2]
\* It was typed in by hand, without its identifier.
Opening ==
    [Standing EXCEPT !.events = 1, !.manages = {"permits", "update"},
                     !.registry = [r \in {1} |-> Row(None, front, "main", FALSE, None)]]

\* The registry on its own, filled from nothing.
Filling ==
    [Standing EXCEPT !.events = 0, !.tickets = {}, !.ghRepos = Nothing, !.registry = Nothing,
                     !.permits = {}, !.repos = {1, 2}, !.names = {front, back, other}, !.manages = {"discover", "register", "sync"}]

Maintaining ==
    [Filling EXCEPT !.repos = {1}, !.names = {front, back},
                    !.manages = {"discover", "register", "sync", "permits", "update"}]

GivenAgain == [Filling EXCEPT !.reuse = TRUE, !.names = {front, back}, !.manages = {"discover", "register", "sync"}]

MCModes == {Standing, Overlapping, TwoTickets, Opening, Filling, Maintaining, GivenAgain}
HandlerSymmetry == Permutations(Handlers)
=============================================================================
