-------------------------- MODULE ReferenceParser ---------------------------
(***************************************************************************)
(* What parseExecutionReference() reads in a document                      *)
(* (execution-reference.parser.ts), a line at a time: the domains,         *)
(* capabilities, epics and stories it declares, what it says of each, and  *)
(* what it could not read.                                                 *)
(*                                                                         *)
(* A line is a record: `is` says which expression it matches, and the      *)
(* other fields what the expression captures.  A passage is the sequence   *)
(* of its lines, and stands for its hash.                                  *)
(***************************************************************************)
EXTENDS Naturals, Sequences, FiniteSetsExt

CONSTANT None

\* ANY_HEADING, which the three that declare something match too.
AnyHeading(line) == line.is \in {"domain", "capability", "epic", "heading"}

\* The lines that speak of the epic above them, and the field they give it.
Says == [priority |-> "priority", side |-> "surface", version |-> "target", filed |-> "parent"]

\* A side nobody knows, a version too long to be a number.
Readable(line) == line.value \notin {"unknown", "too long"}

Item(kind, key, parent, title, i) ==
    [kind |-> kind, key |-> key, parent |-> parent, title |-> title, body |-> << >>,
     priority |-> None, surface |-> None, target |-> None, line |-> i]

Issue(level, key, i) == [level |-> level, key |-> key, line |-> i]

\* epic is the item the lines speak of and where it stands among the items: a
\* repeated one stands nowhere; open the item whose body is being collected.
Start ==
    [items |-> << >>, issues |-> {}, project |-> None, domain |-> None, capability |-> None,
     epic |-> None, open |-> None, seen |-> {}, cited |-> {}]

-----------------------------------------------------------------------------
Trimmed(passage) ==
    LET said == {i \in DOMAIN passage : passage[i].is # "blank"}
    IN  IF said = {} THEN << >> ELSE SubSeq(passage, Min(said), Max(said))

\* closeOpenItem(): the body runs up to the line that closes it.
Closed(s, lines, i) ==
    IF s.open = None THEN s
    ELSE [s EXCEPT !.items[s.open.at].body = Trimmed(SubSeq(lines, s.open.from, i - 1)), !.open = None]

\* push(): a key declared before is an error, and the item is left out.
Pushed(s, item) ==
    IF item.key \in s.seen THEN [s EXCEPT !.issues = @ \cup {Issue("error", item.key, item.line)}]
    ELSE [s EXCEPT !.items = Append(@, item), !.seen = @ \cup {item.key}]

ReadDomain(s, line, i) ==
    Pushed([s EXCEPT !.domain = line.key, !.capability = None, !.epic = None],
           Item("domain", line.key, None, line.title, i))

\* A capability belongs to the domain its own number names.
ReadCapability(s, line, i) ==
    LET misplaced == s.domain \notin {None, line.domain}
        noted == IF misplaced THEN {Issue("warning", line.key, i)} ELSE {}
    IN  Pushed([s EXCEPT !.issues = @ \cup noted, !.capability = line.key, !.epic = None],
               Item("capability", line.key, line.domain, line.title, i))

ReadEpic(s, line, i) ==
    LET item == Item("epic", line.key, IF s.capability # None THEN s.capability ELSE s.domain,
                         line.title, i)
        kept == item.key \notin s.seen
        at == Len(s.items) + 1
    IN  Pushed([s EXCEPT !.epic = [item |-> item, at |-> IF kept THEN at ELSE None],
                         !.open = IF kept THEN [at |-> at, from |-> i + 1] ELSE None], item)

\* The current epic and the item that was kept are one object in the code.
Tells(s, field, value) ==
    LET told == [s EXCEPT !.epic.item[field] = value]
    IN  IF s.epic.at = None THEN told ELSE [told EXCEPT !.items[s.epic.at][field] = value]

ReadSaying(s, line, i) ==
    CASE ~Readable(line) -> [s EXCEPT !.issues = @ \cup {Issue("warning", s.epic.item.key, i)}]
      [] line.is = "filed" -> [Tells(s, "parent", line.value) EXCEPT !.cited = @ \cup {line.value}]
      [] OTHER -> Tells(s, Says[line.is], line.value)

\* The first declaration holds.
ReadProject(s, line, i) ==
    CASE s.project = None -> [s EXCEPT !.project = line.value]
      [] s.project # line.value -> [s EXCEPT !.issues = @ \cup {Issue("warning", None, i)}]
      [] OTHER -> s

\* The list under "User stories": it ends at a heading, or at prose once it has begun.
ListEnd(lines, i) ==
    LET prose(j) == lines[j].is \notin {"story", "blank"}
        begun(j) == \E k \in i + 1 .. j - 1 : lines[k].is = "story"
    IN  Min({Len(lines) + 1} \cup {j \in i + 1 .. Len(lines) : AnyHeading(lines[j]) \/ (prose(j) /\ begun(j))})

StoryKey(epic, n) == <<"US", epic, n>>

\* A story has the side it is tagged with, or that of its epic at this point,
\* like its priority and its version.
Story(epic, line, n, i) ==
    [Item("story", StoryKey(epic.key, n), epic.key, line.title, i) EXCEPT
        !.priority = epic.priority, !.target = epic.target,
        !.surface = IF line.value # None THEN line.value ELSE epic.surface]

\* The stories are numbered from one in each list, and put beside the items
\* without push().
ReadStories(s, lines, i) ==
    LET at == {j \in i + 1 .. ListEnd(lines, i) - 1 : lines[j].is = "story"}
        nth(n) == CHOOSE j \in at : Cardinality({k \in at : k <= j}) = n
        stories == [n \in 1 .. Cardinality(at) |-> Story(s.epic.item, lines[nth(n)], n, nth(n))]
    IN  IF at = {} THEN [s EXCEPT !.issues = @ \cup {Issue("warning", s.epic.item.key, i)}]
        ELSE [s EXCEPT !.items = @ \o stories,
                       !.seen = @ \cup {stories[n].key : n \in DOMAIN stories}]

\* Mutant: a heading that declares nothing leaves the epic above it current.
ReadHeadingOn(s) == s

\* Any other heading ends the section.
ReadHeading(s) == [s EXCEPT !.epic = None]

\* The expressions, in the order they are tried.
ReadLine(s, lines, i) ==
    LET line == lines[i]
    IN  CASE line.is = "domain" -> ReadDomain(Closed(s, lines, i), line, i)
          [] line.is = "capability" -> ReadCapability(Closed(s, lines, i), line, i)
          [] line.is = "epic" -> ReadEpic(Closed(s, lines, i), line, i)
          [] line.is = "project" -> ReadProject(s, line, i)
          [] line.is \in DOMAIN Says /\ s.epic # None -> ReadSaying(s, line, i)
          [] line.is = "stories" /\ s.epic # None -> ReadStories(s, lines, i)
          [] line.is = "heading" -> ReadHeading(Closed(s, lines, i))
          [] OTHER -> s

\* An item under a section the document does not have, and no line files it.
Orphans(s) ==
    {n \in DOMAIN s.items : s.items[n].parent \notin s.seen \cup s.cited \cup {None}}

ParseExecutionReference(lines) ==
    LET read[i \in 0 .. Len(lines)] == IF i = 0 THEN Start ELSE ReadLine(read[i - 1], lines, i)
        s == Closed(read[Len(lines)], lines, Len(lines) + 1)
    IN  [items |-> s.items, project |-> s.project,
         issues |-> s.issues \cup (IF s.items = << >> THEN {Issue("error", None, None)} ELSE {})
                    \cup {Issue("warning", s.items[n].key, s.items[n].line) : n \in Orphans(s)}]
=============================================================================
