------------------------- MODULE MCExecutionImport --------------------------
EXTENDS ExecutionImport

CONSTANTS E1, E2, D06, D99, C1

T == INSTANCE TLC

Alike == T!Permutations(Handlers)

Domain(key, title) == [is |-> "domain", key |-> key, title |-> title]
Capability(key, domain, title) == [is |-> "capability", key |-> key, domain |-> domain, title |-> title]
Epic(key, title) == [is |-> "epic", key |-> key, title |-> title]
Say(is, value) == [is |-> is, value |-> value]
Plain(is) == [is |-> is]
Story(title, side) == [is |-> "story", title |-> title, value |-> side]

Us(epic, n) == <<"US", epic, n>>

MCKeys == {E1, E2, Us(E1, 1)}

\* first aims at a planned release; second changes E1, drops its story and hangs
\* E2 off a domain nobody registered; twice has two lists of stories under one epic.
MCDocuments ==
    [first  |-> <<Epic(E1, "a"), Say("filed", D06), Say("version", "1.0"), Plain("stories"),
                  Story("a", None)>>,
     second |-> <<Say("project", "pB"), Epic(E1, "b"), Say("version", "9.9"), Epic(E2, "a"),
                  Say("filed", D99)>>,
     alone  |-> <<Epic(E1, "a"), Say("version", "1.0")>>,
     twice  |-> <<Epic(E1, "a"), Plain("stories"), Story("a", None), Plain("stories"),
                  Story("b", None)>>]

\* What drafts are made of: sections and their order, what an epic says, what the
\* whole document says.
Structure ==
    [lines |-> {Domain(D06, "a"), Capability(C1, D06, "a"), Capability(C1, D99, "b"), Epic(E1, "a"),
                Epic(E2, "b"), Plain("heading"), Plain("prose")},
     length |-> 5, start |-> << >>]

Attributes ==
    [lines |-> {Say("priority", "P0"), Say("side", "backend"), Say("side", "unknown"), Say("version", "1.0"),
                Plain("stories"), Story("a", None), Story("b", "frontend"), Plain("heading"), Epic(E1, "c"),
                Plain("blank"), Plain("prose")},
     length |-> 5, start |-> <<Epic(E1, "a")>>]

Whereabouts ==
    [lines |-> {Say("filed", D99), Say("version", "too long"), Say("project", "pA"), Say("project", "pB"),
                Domain(D06, "a"), Epic(E2, "b"), Plain("stories"), Story("a", None), Plain("blank")},
     length |-> 6, start |-> <<Domain(D06, "a"), Epic(E1, "a")>>]

NoDraft == [lines |-> {}, length |-> 0, start |-> << >>]

NoItems == [t \in {} |-> None]

Row(parent, release) ==
    [key |-> None, token |-> None, hash |-> None, source |-> None, status |-> "todo",
     parent |-> parent, project |-> None, release |-> release]

\* epic 1 > story 2 > subtasks 3 and 4, one of them sent elsewhere.
Tree == [t \in 1 .. 4 |->
            CASE t = 1 -> Row(None, "r1") [] t = 2 -> Row(1, None)
              [] t = 3 -> Row(2, "r1") [] OTHER -> Row(2, "r2")]

Spoken == [t \in {1} |-> [Row(None, None) EXCEPT !.token = E1]]

Base == [inFlight |-> 1, crash |-> FALSE, items |-> NoItems, tickets |-> {},
         planned |-> [r \in {} |-> None], releases |-> {}, nos |-> {}, documents |-> {},
         references |-> {}, projects |-> {}, decides |-> {"todo"}, draft |-> NoDraft]

\* Two versions of one document, crashes, and what triage decides in between.
OneReference ==
    [Base EXCEPT !.crash = TRUE, !.nos = {1, 2}, !.documents = {"first", "second"},
                 !.references = {"A"}, !.planned = [r \in {"r1"} |-> "1.0"]]

\* Projects and releases set by hand on what an import produced.
Placing ==
    [Base EXCEPT !.nos = {1, 2}, !.documents = {"first", "second"}, !.references = {"A"},
                 !.projects = {"pA", "pB"}, !.decides = {}]

\* Two references that use the same keys, one of which a ticket is called by.
TwoReferences ==
    [Base EXCEPT !.nos = {1}, !.documents = {"first", "second"}, !.references = {"A", "B"}, !.decides = {"todo", "closed"},
                 !.items = Spoken]

\* The registry of releases and a cascade down three levels.
Releasing ==
    [Base EXCEPT !.items = Tree, !.releases = {"r1", "r2"},
                 !.planned = [r \in {"r1", "r2"} |-> IF r = "r1" THEN "1.0" ELSE "2.0"]]

\* Two operations on releases at once.
ReleasesOverlap ==
    [Releasing EXCEPT !.inFlight = 2, !.items = [t \in {1} |-> Tree[t]]]

\* Filing, reading, importing and deciding, two at a time.
ImportsOverlap ==
    [Base EXCEPT !.inFlight = 2, !.nos = {1}, !.documents = {"alone"}, !.references = {"A"}]

Drafting(made) == [Base EXCEPT !.decides = {}, !.draft = made]

MCModes == {Drafting(Structure), Drafting(Attributes), Drafting(Whereabouts),
            OneReference, Placing, TwoReferences, Releasing, ReleasesOverlap, ImportsOverlap}
=============================================================================
