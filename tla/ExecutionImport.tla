-------------------------- MODULE ExecutionImport ---------------------------
(***************************************************************************)
(* Execution references: a document is filed version by version            *)
(* (execution-references.service.ts), read into a manifest and imported    *)
(* into the backlog (execution-import.service.ts), while people decide on  *)
(* the tickets it proposed and plan them into releases (Releases); and a   *)
(* draft is written, line by line, for the parser to read.                 *)
(***************************************************************************)
EXTENDS Releases

CONSTANTS
    Keys,           \* source keys: EXE-05, US-EXE-05-1
    References, VersionNos, Projects,
    Registered,     \* the codes of the registries of domains and capabilities
    Documents,      \* name -> its lines (ReferenceParser)
    ManifestIds

\* mode says what a behaviour explores: how many handlers overlap, the tickets
\* it starts from, and what the requests may name.
ASSUME ExecutionImportAssumption ==
    /\ None \notin Keys /\ None \notin Projects /\ None \notin ReleaseIds /\ None \notin Tickets
    /\ Tickets \subseteq Nat \ {0}
    /\ Keep \notin Versions \cup ReleaseStatuses
    /\ \A m \in Modes : /\ m.inFlight \in Nat /\ m.tickets \subseteq Tickets
                        /\ DOMAIN m.items \subseteq Tickets /\ m.releases \subseteq ReleaseIds
                        /\ m.nos \subseteq VersionNos /\ m.documents \subseteq DOMAIN Documents
                        /\ m.references \subseteq References /\ m.projects \subseteq Projects
                        /\ m.decides \subseteq {"todo", "closed"} /\ m.crash \in BOOLEAN

Parser == INSTANCE ReferenceParser

\* What the parser reads in each.
Parsed == [d \in DOMAIN Documents |-> Parser!ParseExecutionReference(Documents[d])]

\* A row of execution_manifest_items; the excerpt stands for its hash.
ManifestItem(item) ==
    [kind |-> item.kind, key |-> item.key, parent |-> item.parent, target |-> item.target,
     hash |-> <<item.title, item.body>>]

Manifest(document) ==
    LET read == Parsed[document].items
    IN  [i \in DOMAIN read |-> ManifestItem(read[i])]

ASSUME DocumentsAssumption ==
    \A d \in DOMAIN Documents :
        /\ Parsed[d].project \in Projects \cup {None}
        /\ \A i \in DOMAIN Parsed[d].items : Parsed[d].items[i].key \in Keys

VARIABLES
    references,     \* execution_references: key -> [project, latest]
    versions,       \* execution_reference_versions: <<key, no>> -> document
    manifests       \* execution_manifests: <<key, no>> -> [id, items]

tables == <<items, releases, references, versions, manifests>>
vars == <<items, releases, req, mode, references, versions, manifests>>

-----------------------------------------------------------------------------
\* A row of work_items, as far as imports go: [key, token, hash, source, status,
\* parent, project, release]; key is its source_key, token its unique reference.
Reference(p) == [project |-> p, latest |-> None]

Init ==
    /\ mode \in Modes
    /\ items = mode.items
    /\ releases = [r \in DOMAIN mode.planned |->
                      [version |-> mode.planned[r], status |-> "planned", dated |-> FALSE]]
    /\ references = [k \in {} |-> Idle]
    /\ versions = [v \in {} |-> Idle]
    /\ manifests = [v \in {} |-> Idle]
    /\ req = [h \in Handlers |-> Idle]

UnchangedBacklog == UNCHANGED <<items, releases>>
UnchangedFiles == UNCHANGED <<references, versions>>

-----------------------------------------------------------------------------
\* create() of a reference: three saves, the last of which names the version.
CreateReference(h, k, no, d, p) ==
    /\ MayStart(h)
    /\ k \notin DOMAIN references
    /\ Awaits(h, [at |-> "save reference", key |-> k, no |-> no, document |-> d,
                  row |-> Reference(p)])
    /\ UnchangedBacklog /\ UnchangedFiles /\ UNCHANGED manifests

SaveReference(h) ==
    /\ req[h].at = "save reference"
    /\ IF req[h].key \in DOMAIN references
       THEN Ends(h) /\ UNCHANGED references
       ELSE /\ references' = With(references, req[h].key, req[h].row)
            /\ Awaits(h, [req[h] EXCEPT !.at = "save version"])
    /\ UnchangedBacklog /\ UNCHANGED <<versions, manifests>>

\* addVersion: neither the number nor the text may be filed already.
AddVersion(h, k, no, d) ==
    /\ MayStart(h)
    /\ k \in DOMAIN references
    /\ Awaits(h, [at |-> "same number", key |-> k, no |-> no, document |-> d,
                  row |-> references[k]])
    /\ UnchangedBacklog /\ UnchangedFiles /\ UNCHANGED manifests

SameNumber(h) ==
    /\ req[h].at = "same number"
    /\ IF <<req[h].key, req[h].no>> \in DOMAIN versions
       THEN Ends(h) ELSE Awaits(h, [req[h] EXCEPT !.at = "same content"])
    /\ UnchangedBacklog /\ UnchangedFiles /\ UNCHANGED manifests

SameContent(h) ==
    /\ req[h].at = "same content"
    /\ IF \E v \in DOMAIN versions : v[1] = req[h].key /\ versions[v] = req[h].document
       THEN Ends(h) ELSE Awaits(h, [req[h] EXCEPT !.at = "save version"])
    /\ UnchangedBacklog /\ UnchangedFiles /\ UNCHANGED manifests

\* storeVersion: the version, unique per number, then the reference's whole row.
SaveVersion(h) ==
    /\ req[h].at = "save version"
    /\ LET v == <<req[h].key, req[h].no>>
       IN IF v \in DOMAIN versions
          THEN Ends(h) /\ UNCHANGED versions
          ELSE /\ versions' = With(versions, v, req[h].document)
               /\ Awaits(h, [req[h] EXCEPT !.at = "save latest"])
    /\ UnchangedBacklog /\ UNCHANGED <<references, manifests>>

SaveLatest(h) ==
    /\ req[h].at = "save latest"
    /\ references' = With(references, req[h].key, [req[h].row EXCEPT !.latest = req[h].no])
    /\ Ends(h)
    /\ UnchangedBacklog /\ UNCHANGED <<versions, manifests>>

\* update(): the project, and then the tickets the reference produced.
UpdateReference(h, k, p) ==
    /\ MayStart(h)
    /\ k \in DOMAIN references /\ references[k].project # p
    /\ Awaits(h, [at |-> "save project", key |-> k, row |-> [references[k] EXCEPT !.project = p]])
    /\ UnchangedBacklog /\ UnchangedFiles /\ UNCHANGED manifests

SaveProject(h) ==
    /\ req[h].at = "save project"
    /\ references' = With(references, req[h].key, req[h].row)
    /\ IF req[h].row.project = None THEN Ends(h)
       ELSE Awaits(h, [at |-> "attach", key |-> req[h].key, project |-> req[h].row.project])
    /\ UnchangedBacklog /\ UNCHANGED <<versions, manifests>>

\* listVersionIds
VersionsOf(k) == {v \in DOMAIN versions : v[1] = k}

\* attachProject: what the reference produced and nobody has placed.
Attached(row, k, p) ==
    IF row.source \in VersionsOf(k) /\ row.project = None
    THEN [row EXCEPT !.project = p] ELSE row

AttachProject(h) ==
    /\ req[h].at = "attach"
    /\ items' = [t \in DOMAIN items |-> Attached(items[t], req[h].key, req[h].project)]
    /\ Ends(h)
    /\ UnchangedFiles /\ UNCHANGED <<releases, manifests>>

-----------------------------------------------------------------------------
\* parse(): the manifest found is deleted by its id, items first, and a new one
\* saved, manifest first.
Parse(h, v) ==
    /\ MayStart(h)
    /\ v \in DOMAIN versions
    /\ Awaits(h, [at |-> IF v \in DOMAIN manifests THEN "delete items" ELSE "save manifest",
                  version |-> v, saved |-> None,
                  found |-> IF v \in DOMAIN manifests THEN manifests[v].id ELSE None])
    /\ UnchangedBacklog /\ UnchangedFiles /\ UNCHANGED manifests

IsManifest(v, id) == v \in DOMAIN manifests /\ manifests[v].id = id

ParseDeleteItems(h) ==
    /\ req[h].at = "delete items"
    /\ manifests' = IF IsManifest(req[h].version, req[h].found)
                    THEN [manifests EXCEPT ![req[h].version].items = <<>>] ELSE manifests
    /\ Awaits(h, [req[h] EXCEPT !.at = "delete manifest"])
    /\ UnchangedBacklog /\ UnchangedFiles

ParseDeleteManifest(h) ==
    /\ req[h].at = "delete manifest"
    /\ manifests' = IF IsManifest(req[h].version, req[h].found)
                    THEN [v \in DOMAIN manifests \ {req[h].version} |-> manifests[v]]
                    ELSE manifests
    /\ Awaits(h, [req[h] EXCEPT !.at = "save manifest"])
    /\ UnchangedBacklog /\ UnchangedFiles

\* An id no row has and no handler holds.
FreeManifestId ==
    CHOOSE id \in ManifestIds :
        /\ \A v \in DOMAIN manifests : manifests[v].id # id
        /\ \A g \in Handlers : "found" \in DOMAIN req[g] => id \notin {req[g].found, req[g].saved}

\* One manifest per version: the second of two dies on the unique index.
ParseSaveManifest(h) ==
    /\ req[h].at = "save manifest"
    /\ IF req[h].version \in DOMAIN manifests
       THEN Ends(h) /\ UNCHANGED manifests
       ELSE /\ manifests' = With(manifests, req[h].version, [id |-> FreeManifestId, items |-> <<>>])
            /\ Awaits(h, [req[h] EXCEPT !.at = "save items", !.saved = FreeManifestId])
    /\ UnchangedBacklog /\ UnchangedFiles

ParseSaveItems(h) ==
    /\ req[h].at = "save items"
    /\ LET v == req[h].version
       IN manifests' = IF IsManifest(v, req[h].saved)
                       THEN [manifests EXCEPT ![v].items = Manifest(versions[v])]
                       ELSE manifests
    /\ Ends(h)
    /\ UnchangedBacklog /\ UnchangedFiles

-----------------------------------------------------------------------------
\* byKey.get: a Map keeps the last item of a key.
ByKey(all, key) ==
    LET at == {i \in DOMAIN all : all[i].key = key}
    IN  all[CHOOSE i \in at : \A j \in at : j <= i]

\* resolvePlacement: up the declared parents to a code of the registries, or to
\* an item that declares none; a parent nobody knows and a cycle are refused.
Placed(item, all) ==
    LET cursors == {item} \cup {all[i] : i \in DOMAIN all}
        ok[n \in 0 .. Len(all), c \in cursors] ==
            \/ c.parent \in Registered \cup {None}
            \/ /\ n > 0
               /\ \E i \in DOMAIN all : all[i].key = c.parent
               /\ ok[n - 1, ByKey(all, c.parent)]
    IN  ok[Len(all), item]

OfKind(all, kind) == SelectSeq(all, LAMBDA i : i.kind = kind)

\* Epics first: a story's parent must exist before the story is written.
Importable(all) == OfKind(all, "epic") \o OfKind(all, "story")

KeysOf(list) == {list[i].key : i \in DOMAIN list}

\* import(): the reference, the version and its manifest ...
Import(h, v, dry) ==
    /\ MayStart(h)
    /\ v \in DOMAIN manifests
    /\ LET all == manifests[v].items
           declared == Parsed[versions[v]].project
       IN Awaits(h, [at |-> "registry", version |-> v, dry |-> dry, all |-> all,
                     project |-> IF references[v[1]].project # None
                                 THEN references[v[1]].project ELSE declared,
                     left |-> Importable(all), lines |-> <<>>, epics |-> [k \in {} |-> None],
                     aims |-> [a \in {} |-> None], existing |-> [k \in {} |-> None], taken |-> {}])
    /\ UnchangedBacklog /\ UnchangedFiles /\ UNCHANGED manifests

\* ... the releases its items aim at ...
ReadReleases(h) ==
    /\ req[h].at = "registry"
    /\ LET cited == {req[h].all[i].target : i \in DOMAIN req[h].all} \ {None}
           known == {r \in DOMAIN releases : releases[r].version \in cited}
           aims == [v \in {releases[r].version : r \in known} |->
                       CHOOSE r \in known : releases[r].version = v]
       IN Awaits(h, [req[h] EXCEPT !.at = "existing", !.aims = aims])
    /\ UnchangedBacklog /\ UnchangedFiles /\ UNCHANGED manifests

\* Mutant: only the tickets this very version produced are matched.
ReadExistingOfVersion(h) ==
    /\ req[h].at = "existing"
    /\ LET found == {t \in DOMAIN items : /\ items[t].key \in KeysOf(req[h].left)
                                          /\ items[t].source = req[h].version}
           keys == {items[t].key : t \in found}
       IN \E pick \in [keys -> found] :
             /\ \A k \in keys : items[pick[k]].key = k
             /\ Awaits(h, [req[h] EXCEPT !.at = "taken",
                   !.existing = [k \in keys |-> [id |-> pick[k], row |-> items[pick[k]]]]])
    /\ UnchangedBacklog /\ UnchangedFiles /\ UNCHANGED manifests

\* ... the tickets that carry its keys, whichever reference produced them ...
ReadExisting(h) ==
    /\ req[h].at = "existing"
    /\ LET found == {t \in DOMAIN items : items[t].key \in KeysOf(req[h].left)}
           keys == {items[t].key : t \in found}
       IN \E pick \in [keys -> found] :
             /\ \A k \in keys : items[pick[k]].key = k
             /\ Awaits(h, [req[h] EXCEPT !.at = "taken",
                   !.existing = [k \in keys |-> [id |-> pick[k], row |-> items[pick[k]]]]])
    /\ UnchangedBacklog /\ UnchangedFiles /\ UNCHANGED manifests

IsExisting(r, key, t) == key \in DOMAIN r.existing /\ r.existing[key].id = t

\* ... and the references (tokens) somebody else holds.
ReadTaken(h) ==
    /\ req[h].at = "taken"
    /\ LET spoken == {t \in DOMAIN items : items[t].token \in KeysOf(req[h].left)}
       IN Awaits(h, [req[h] EXCEPT !.at = "items",
             !.taken = {items[t].token : t \in {s \in spoken : ~IsExisting(req[h], items[s].token, s)}}])
    /\ UnchangedBacklog /\ UnchangedFiles /\ UNCHANGED manifests

\* Mutant: an accepted ticket whose passage changed is refreshed too.
OutcomeNoConflict(r, item) ==
    LET known == item.key \in DOMAIN r.existing
    IN  CASE ~Placed(item, r.all) -> "skipped"
          [] item.kind = "story" /\ item.parent \notin DOMAIN r.epics -> "skipped"
          [] known /\ r.existing[item.key].row.hash = item.hash -> "unchanged"
          [] OTHER -> IF known THEN "modified" ELSE "added"

\* What an item becomes, from what the import has read.
Outcome(r, item) ==
    LET known == item.key \in DOMAIN r.existing
        row == r.existing[item.key].row
    IN  CASE ~Placed(item, r.all) -> "skipped"
          [] item.kind = "story" /\ item.parent \notin DOMAIN r.epics -> "skipped"
          [] known /\ row.hash = item.hash -> "unchanged"
          [] known /\ row.status # "triage" -> "conflict"
          [] OTHER -> IF known THEN "modified" ELSE "added"

\* a ?? b
Or(a, b) == IF a # None THEN a ELSE b

Unseen == [token |-> None, project |-> None, release |-> None]

\* The columns the import writes; an accepted ticket would be back in triage.
Written(r, item) ==
    LET current == IF item.key \in DOMAIN r.existing THEN r.existing[item.key].row ELSE Unseen
    IN  [key |-> item.key, hash |-> item.hash, source |-> r.version, status |-> "triage",
         token   |-> Or(current.token, IF item.key \in r.taken THEN None ELSE item.key),
         parent  |-> IF item.kind = "story" THEN r.epics[item.parent] ELSE None,
         project |-> Or(current.project, r.project),
         release |-> Or(current.release, IF item.target \in DOMAIN r.aims
                                         THEN r.aims[item.target] ELSE None)]

\* The next serial id.
NextId == CHOOSE t \in Tickets \ DOMAIN items : \A u \in Tickets \ DOMAIN items : t <= u

\* The unique reference and the foreign key of the release.
Accepted(t, row) ==
    /\ row.token = None \/ \A u \in DOMAIN items \ {t} : items[u].token # row.token
    /\ ReleaseExists(row.release)

\* A dry run's epics have no id yet: -1 in the code.
Placeholder == 0

\* What the stories of the epics met so far hang off.
EpicIds(r, item, outcome, id) ==
    IF item.kind = "epic" /\ outcome # "skipped" THEN With(r.epics, item.key, id) ELSE r.epics

\* One item: nothing to write, or one save -- which the database may refuse,
\* and the import ends there.
ImportItem(h) ==
    /\ req[h].at = "items" /\ req[h].left # <<>>
    /\ LET r == req[h]
           item == Head(r.left)
           outcome == Outcome(r, item)
           writes == outcome \in {"added", "modified"} /\ ~r.dry
           known == item.key \in DOMAIN r.existing
           id == IF known THEN r.existing[item.key].id ELSE IF r.dry THEN Placeholder ELSE NextId
           row == Written(r, item)
           next == [r EXCEPT !.left = Tail(@),
                             !.lines = Append(@, <<item.key, outcome>>),
                             !.epics = EpicIds(r, item, outcome, id)]
       IN /\ writes /\ ~known => Tickets \ DOMAIN items # {}
          /\ items' = IF writes /\ Accepted(id, row) THEN With(items, id, row) ELSE items
          /\ IF writes /\ ~Accepted(id, row) THEN Ends(h) ELSE Awaits(h, next)
    /\ UnchangedFiles /\ UNCHANGED <<releases, manifests>>

\* findWithdrawn: what any version of the reference produced and this one omits.
FindWithdrawn(v, declared) ==
    {t \in DOMAIN items : /\ items[t].source \in VersionsOf(v[1])
                          /\ items[t].key \notin declared}

Gone(r) ==
    {<<items[t].key, IF items[t].status = "triage" THEN "removed" ELSE "deprecated">> :
        t \in FindWithdrawn(r.version, KeysOf(Importable(r.all)))}

\* The report: a line per item, and one per ticket withdrawn.
ImportEnds(h) ==
    /\ req[h].at = "items" /\ req[h].left = <<>>
    /\ Ends(h)
    /\ UnchangedBacklog /\ UnchangedFiles /\ UNCHANGED manifests

-----------------------------------------------------------------------------
\* What people do meanwhile: triage (acceptTriage, dismissTriage), and place a
\* ticket in a project.  Their own reads and writes are WorkItems'.
Decide(h, t, status) ==
    /\ MayStart(h)
    /\ t \in DOMAIN items /\ items[t].status = "triage"
    /\ items' = [items EXCEPT ![t].status = status]
    /\ UnchangedFiles /\ UNCHANGED <<releases, manifests, req, mode>>

Place(h, t, p) ==
    /\ MayStart(h)
    /\ t \in DOMAIN items
    /\ items' = [items EXCEPT ![t].project = p]
    /\ UnchangedFiles /\ UNCHANGED <<releases, manifests, req, mode>>

\* The process stops: what was saved stays, the rest of the handler is lost.
Crash(h) ==
    /\ mode.crash
    /\ req[h].at # "idle"
    /\ Ends(h)
    /\ UnchangedBacklog /\ UnchangedFiles /\ UNCHANGED manifests

-----------------------------------------------------------------------------
ImportRequest(h) == \E v \in DOMAIN manifests, dry \in BOOLEAN : Import(h, v, dry)

ImportStep(h) ==
    ReadReleases(h) \/ ReadExisting(h) \/ ReadTaken(h) \/ ImportItem(h) \/ ImportEnds(h)

FileRequest(h) ==
    \/ \E k \in mode.references, no \in mode.nos, d \in mode.documents,
          p \in mode.projects \cup {None} : CreateReference(h, k, no, d, p)
    \/ \E k \in mode.references, no \in mode.nos, d \in mode.documents : AddVersion(h, k, no, d)
    \/ \E k \in mode.references, p \in mode.projects \cup {None} : UpdateReference(h, k, p)
    \/ \E v \in DOMAIN versions : Parse(h, v)
    \/ \E t \in Tickets, s \in mode.decides : Decide(h, t, s)
    \/ \E t \in Tickets, p \in mode.projects : Place(h, t, p)

FileStep(h) ==
    \/ SaveReference(h) \/ SameNumber(h) \/ SameContent(h) \/ SaveVersion(h) \/ SaveLatest(h)
    \/ SaveProject(h) \/ AttachProject(h)
    \/ ParseDeleteItems(h) \/ ParseDeleteManifest(h) \/ ParseSaveManifest(h) \/ ParseSaveItems(h)
    \/ Crash(h)

FromReleases(h) ==
    /\ ReleaseRequest(h) \/ ReleaseStep(h)
    /\ UNCHANGED <<references, versions, manifests>>

Next ==
    \E h \in Handlers :
        \/ ImportRequest(h) \/ ImportStep(h)
        \/ FileRequest(h) \/ FileStep(h)
        \/ FromReleases(h)

Spec == Init /\ [][Next]_vars

-----------------------------------------------------------------------------
Orderly == mode.inFlight = 1

Ending(h) == req[h].at = "items" /\ req[h].left = <<>> /\ req'[h].at = "idle" /\ ~req[h].dry

\* The passage a ticket came from is the one the document has, and a story hangs
\* off the ticket of its epic.
Reconciled(r, i) ==
    LET item == Importable(r.all)[i]
        outcome == r.lines[i][2]
        its == {t \in DOMAIN items : items[t].key = item.key}
    IN  outcome # "skipped" =>
           \E t \in its :
              /\ its = {t}
              /\ items[t].hash = item.hash \/ outcome = "conflict"
              /\ item.kind = "story" => items[items[t].parent].key = item.parent

\* An import that reaches its end leaves one ticket per item of the document,
\* however many earlier ones a crash cut short ("that reconciliation is what
\* stops a new version from recreating epics that already exist") ...
ItemsHaveTickets(h) ==
    Ending(h) => \A i \in DOMAIN req[h].lines : Reconciled(req[h], i)

\* ... and speaks of every ticket the reference ever produced: nothing accepted
\* disappears from the reports (findWithdrawn()).
TicketsHaveLines(h) ==
    req[h].at = "items" /\ req[h].left = <<>> =>
        \A t \in DOMAIN items :
            items[t].source # None /\ items[t].source[1] = req[h].version[1] =>
                \E line \in Gone(req[h]) \cup {req[h].lines[i] : i \in DOMAIN req[h].lines} :
                    line[1] = items[t].key

\* An import accounts for both sides: each item has its ticket, each ticket its line.
ImportAccounts ==
    [][Orderly => \A h \in Handlers : ItemsHaveTickets(h) /\ TicketsHaveLines(h)]_vars

\* "Once someone has accepted it and moved it along, a changed document produces
\* a conflict line, not an overwrite"; a project or a release someone set is a
\* decision neither an import nor attachProject revises.
DecisionsStand ==
    [][\A h \in Handlers : Orderly /\ req[h].at \in {"items", "attach"} /\ req'[h] # req[h] =>
          \A t \in DOMAIN items :
              LET was == items[t]  is == items'[t]
              IN  /\ was.status # "triage" => is = [was EXCEPT !.project = is.project]
                  /\ was.project # None => is.project = was.project
                  /\ was.release # None => is.release = was.release]_vars

-----------------------------------------------------------------------------
(* A draft grows a line at a time, so that the parser meets every small   *)
(* document.                                                               *)

VARIABLE draft          \* the document being written

\* A mode also says the lines a draft is made of, the one it starts from and
\* how long it may get.
ASSUME DraftAssumption ==
    \A m \in Modes : m.draft.length \in Nat /\ Len(m.draft.start) <= m.draft.length

RInit == Init /\ draft = mode.draft.start

Write(line) ==
    /\ Len(draft) < mode.draft.length
    /\ draft' = Append(draft, line)
    /\ UNCHANGED vars

RNext ==
    \/ Next /\ UNCHANGED draft
    \/ \E line \in mode.draft.lines : Write(line)

RSpec == RInit /\ [][RNext]_<<vars, draft>>

-----------------------------------------------------------------------------
(* What a document says, independently of the order it is read in.         *)
(* A section is the heading at h and what follows it up to the next one.   *)

Lines(is) == {i \in DOMAIN draft : draft[i].is \in is}

Headings == Lines({"domain", "capability", "epic", "heading"})

InSection(h, i) == h < i /\ \A j \in h + 1 .. i : j \notin Headings

\* A section counts once: the first that bears its key.
Declared ==
    {h \in Headings \ Lines({"heading"}) :
        \A g \in Headings \ Lines({"heading"}) : g < h => draft[g].key # draft[h].key}

LastOf(lines, f(_)) == IF lines = {} THEN None ELSE f(CHOOSE i \in lines : \A j \in lines : j <= i)

\* The last line of a section, before line n, that says so legibly.
Said(h, is, n) ==
    LastOf({i \in Lines({is}) : InSection(h, i) /\ i < n /\ Parser!Readable(draft[i])},
           LAMBDA i : draft[i].value)

Whole == Len(draft) + 1

\* Where the heading stands, unless a line of the section files it elsewhere.
Above(h) == LastOf({i \in Lines({"domain", "capability"}) : i < h}, LAMBDA i : draft[i].key)

ParentOf(h) ==
    CASE draft[h].is = "domain" -> None
      [] draft[h].is = "capability" -> draft[h].domain
      [] OTHER -> LET filed == Said(h, "filed", Whole) IN IF filed # None THEN filed ELSE Above(h)

BodyOf(h) ==
    IF draft[h].is # "epic" THEN << >>
    ELSE Parser!Trimmed(SelectSeq([i \in 1 .. Len(draft) |->
              IF InSection(h, i) THEN draft[i] ELSE [is |-> "outside"]],
              LAMBDA line : line.is # "outside"))

Section(h) ==
    [kind |-> draft[h].is, key |-> draft[h].key, parent |-> ParentOf(h), title |-> draft[h].title,
     body |-> BodyOf(h), line |-> h,
     priority |-> IF draft[h].is = "epic" THEN Said(h, "priority", Whole) ELSE None,
     surface |-> IF draft[h].is = "epic" THEN Said(h, "side", Whole) ELSE None,
     target |-> IF draft[h].is = "epic" THEN Said(h, "version", Whole) ELSE None]

\* The stories of the list announced at l: nothing but stories and blank lines
\* once the first of them is there.
Listed(l) ==
    {i \in Lines({"story"}) :
        /\ InSection(l, i)
        /\ \A j \in l + 1 .. i : \A k \in l + 1 .. j :
              draft[k].is = "story" => draft[j].is \in {"story", "blank"}}

\* What a story does not say itself is what its epic had said when the list began.
StoryAt(h, l, i) ==
    [kind |-> "story", key |-> Parser!StoryKey(draft[h].key, Cardinality({j \in Listed(l) : j <= i})),
     parent |-> draft[h].key, title |-> draft[i].title, body |-> << >>, line |-> i,
     priority |-> Said(h, "priority", l), target |-> Said(h, "version", l),
     surface |-> IF draft[i].value # None THEN draft[i].value ELSE Said(h, "side", l)]

Stories ==
    UNION {UNION {{StoryAt(h, l, i) : i \in Listed(l)} : l \in {k \in Lines({"stories"}) : InSection(h, k)}} :
           h \in Lines({"epic"})}

\* The parser declares what the document does and nothing else: a section has
\* what its own lines say of it whatever stands around it, a repeated one is an
\* error, and a line it cannot read is told ("what it cannot read, it reports as
\* an issue: a reference that half-parses silently is worse than one that
\* refuses").
SectionsAreRead ==
    LET read == Parser!ParseExecutionReference(draft)
        errors == {issue.line : issue \in {e \in read.issues : e.level = "error"}}
        warned == {issue.line : issue \in {w \in read.issues : w.level = "warning"}}
    IN  /\ read.project = LastOf({i \in Lines({"project"}) : \A j \in Lines({"project"}) : i <= j},
                                 LAMBDA i : draft[i].value)
        /\ {read.items[i] : i \in DOMAIN read.items} = {Section(h) : h \in Declared} \cup Stories
        /\ errors \ {None} = Headings \ (Declared \cup Lines({"heading"}))
        /\ {i \in DOMAIN draft : "value" \in DOMAIN draft[i] /\ ~Parser!Readable(draft[i])} \subseteq
              warned \cup {i \in DOMAIN draft : ~\E h \in Lines({"epic"}) : InSection(h, i)}
=============================================================================
