---------------------------- MODULE Repositories ----------------------------
(***************************************************************************)
(* The registry of code repositories (repositories.service.ts): typed in   *)
(* by hand, discovered through the GitHub App, brought in line with GitHub *)
(* one at a time, archived, and opened to projects.                        *)
(*                                                                         *)
(* GitHub is the environment: ghRepos is what it holds; a repository is    *)
(* renamed there, and its former names still lead to it.                   *)
(***************************************************************************)
EXTENDS Requests

CONSTANTS
    RepoIds,        \* GitHub's own identifiers
    RowIds, Projects

VARIABLES
    ghRepos,        \* id -> [name, former, branch, archived]
    registry,       \* repositories: row id -> CodeRepository
    permits         \* repository_projects: {<<row id, project>>}

repositories == <<registry, permits>>

\* The names a repository of GitHub has and had, and who bears one of them.
NamesOf(repo) == repo.former \cup {repo.name}

Bears(repos, ext, name) == ext \in DOMAIN repos /\ name \in NamesOf(repos[ext])

\* A name is one repository's, and when none is given again, so is a former one.
NamedApart(repos, reuse) ==
    /\ DOMAIN repos \subseteq RepoIds
    /\ \A id \in DOMAIN repos :
          /\ DOMAIN repos[id] = {"name", "former", "branch", "archived"}
          /\ \A p \in DOMAIN repos \ {id} :
                /\ repos[p].name # repos[id].name
                /\ ~reuse => NamesOf(repos[p]) \cap NamesOf(repos[id]) = {}

\* A row with an identifier has a name that repository has or had.
RowRight(row, repos) ==
    /\ DOMAIN row = {"ext", "name", "branch", "archived", "side"}
    /\ row.ext # None => Bears(repos, row.ext, row.name)

\* A mode says what GitHub and the registry hold at first.
ASSUME RepositoriesAssumption ==
    /\ IsFiniteSet(RepoIds) /\ RowIds \subseteq Nat /\ None \notin Nat
    /\ \A m \in Modes :
          /\ m.repos \subseteq RepoIds /\ NamedApart(m.ghRepos, m.reuse)
          /\ DOMAIN m.registry \subseteq RowIds
          /\ \A r \in DOMAIN m.registry : RowRight(m.registry[r], m.ghRepos)

\* CodeRepository: what GitHub decides (ext, name, branch), what HQ keeps to
\* itself (side), and what both have a say in (archived).
Row(ext, name, branch, archived, side) ==
    [ext |-> ext, name |-> name, branch |-> branch, archived |-> archived, side |-> side]

\* The unique index on the name.
NameTaken(name, r) == \E q \in DOMAIN registry \ {r} : registry[q].name = name

NewRow == CHOOSE r \in RowIds \ DOMAIN registry : \A q \in RowIds \ DOMAIN registry : r <= q

-----------------------------------------------------------------------------
\* What people do at GitHub.  mode.reuse: a name given up may be given again.
EverGiven == UNION {NamesOf(ghRepos[id]) : id \in DOMAIN ghRepos}

FreeAtGithub(name) ==
    IF mode.reuse THEN \A id \in DOMAIN ghRepos : ghRepos[id].name # name ELSE name \notin EverGiven

GhAdds(id, name) ==
    /\ id \notin DOMAIN ghRepos /\ FreeAtGithub(name)
    /\ ghRepos' = With(ghRepos, id, [name |-> name, former |-> {}, branch |-> "main", archived |-> FALSE])

GhRenames(id, name) ==
    /\ id \in DOMAIN ghRepos /\ FreeAtGithub(name)
    /\ ghRepos' = [ghRepos EXCEPT ![id].name = name, ![id].former = @ \cup {ghRepos[id].name}]

GhChanges(id) ==
    /\ id \in DOMAIN ghRepos
    /\ \/ ghRepos' = [ghRepos EXCEPT ![id].branch = "trunk"]
       \/ ghRepos' = [ghRepos EXCEPT ![id].archived = TRUE]

RegistryOfGithub ==
    /\ \E id \in mode.repos :
          \/ \E name \in mode.names : GhAdds(id, name) \/ GhRenames(id, name)
          \/ "update" \in mode.manages /\ GhChanges(id)
    /\ UNCHANGED <<repositories, req, mode>>

\* fetchRepository(): what a name leads to, by way of its former names if need be.
Answers(name) ==
    LET now == {id \in DOMAIN ghRepos : ghRepos[id].name = name}
    IN  IF now # {} THEN now ELSE {id \in DOMAIN ghRepos : name \in ghRepos[id].former}

Facts(id) ==
    [ext |-> id, name |-> ghRepos[id].name, branch |-> ghRepos[id].branch,
     archived |-> ghRepos[id].archived]

-----------------------------------------------------------------------------
\* findOne({ externalId })
ById(ext) == {r \in DOMAIN registry : registry[r].ext = ext}

\* findByRef
ByRef(name) == {r \in DOMAIN registry : registry[r].name = name}

\* register(): a name somebody pastes, with or without its identifier.
Register(h, name, ext) ==
    /\ MayStart(h)
    /\ name \in EverGiven /\ ext \in Answers(name) \cup {None}
    /\ ByRef(name) = {}
    /\ Awaits(h, [at |-> "register", row |-> Row(ext, name, "main", FALSE, None)])
    /\ UNCHANGED <<repositories, ghRepos>>

RegisterSave(h) ==
    /\ At(h, "register")
    /\ RowIds \ DOMAIN registry # {}
    /\ registry' = IF NameTaken(req[h].row.name, None) THEN registry
                   ELSE With(registry, NewRow, req[h].row)
    /\ Ends(h)
    /\ UNCHANGED <<permits, ghRepos>>

-----------------------------------------------------------------------------
\* discover(): what the App sees, all at once ...
Discover(h) ==
    /\ MayStart(h)
    /\ \E order \in [1 .. Cardinality(DOMAIN ghRepos) -> DOMAIN ghRepos] :
          /\ \A i, j \in DOMAIN order : order[i] = order[j] => i = j
          /\ Awaits(h, [at |-> "discover", seen |-> [i \in DOMAIN order |-> Facts(order[i])],
                        done |-> 0, found |-> None, row |-> None])
    /\ UNCHANGED <<repositories, ghRepos>>

Discovered(h) == req[h].seen[req[h].done + 1]

HoldsRow(h, r) ==
    Awaits(h, [req[h] EXCEPT !.at = "discovered", !.found = r,
                             !.row = IF r = None THEN None ELSE registry[r]])

\* Mutant: the name is enough.
DiscoverByNameOnly(h) ==
    /\ At(h, "discover") /\ req[h].done < Len(req[h].seen)
    /\ Awaits(h, [req[h] EXCEPT !.at = "by name"])
    /\ UNCHANGED <<repositories, ghRepos>>

\* ... then each in turn: the row that bears its identifier ...
DiscoverById(h) ==
    /\ At(h, "discover") /\ req[h].done < Len(req[h].seen)
    /\ LET rows == ById(Discovered(h).ext)
       IN  IF rows = {} THEN Awaits(h, [req[h] EXCEPT !.at = "by name"])
           ELSE \E r \in rows : HoldsRow(h, r)
    /\ UNCHANGED <<repositories, ghRepos>>

\* ... or its name ...
DiscoverByName(h) ==
    /\ At(h, "by name")
    /\ LET rows == ByRef(Discovered(h).name)
       IN  IF rows = {} THEN HoldsRow(h, None) ELSE \E r \in rows : HoldsRow(h, r)
    /\ UNCHANGED <<repositories, ghRepos>>

\* What GitHub has a say in; archiving comes down from it and never goes up.
Refreshed(row, facts) ==
    [row EXCEPT !.ext = facts.ext, !.name = facts.name, !.branch = facts.branch,
                !.archived = @ \/ facts.archived]

\* ... is saved whole, or a new one is; a name that is taken ends the discovery.
DiscoverSave(h) ==
    /\ At(h, "discovered")
    /\ LET facts == Discovered(h)
           known == req[h].found # None
           r == IF known THEN req[h].found ELSE NewRow
           row == IF known THEN Refreshed(req[h].row, facts)
                  ELSE Row(facts.ext, facts.name, facts.branch, facts.archived, None)
       IN  /\ ~known => RowIds \ DOMAIN registry # {}
           /\ IF NameTaken(facts.name, r) THEN Ends(h) /\ UNCHANGED registry
              ELSE /\ registry' = With(registry, r, row)
                   /\ Awaits(h, [req[h] EXCEPT !.at = "discover", !.done = @ + 1])
    /\ UNCHANGED <<permits, ghRepos>>

DiscoverEnds(h) ==
    /\ At(h, "discover") /\ req[h].done = Len(req[h].seen)
    /\ Ends(h)
    /\ UNCHANGED <<repositories, ghRepos>>

-----------------------------------------------------------------------------
\* sync(): the row, what GitHub says of its name ...
SyncFind(h, r) ==
    /\ MayStart(h)
    /\ r \in DOMAIN registry
    /\ Awaits(h, [at |-> "fetch", id |-> r, row |-> registry[r]])
    /\ UNCHANGED <<repositories, ghRepos>>

SyncFetch(h) ==
    /\ At(h, "fetch")
    /\ IF Answers(req[h].row.name) = {} THEN Ends(h)
       ELSE \E id \in Answers(req[h].row.name) :
               Awaits(h, [at |-> "sync", id |-> req[h].id, row |-> req[h].row, facts |-> Facts(id)])
    /\ UNCHANGED <<repositories, ghRepos>>

\* ... and another repository under that name is a decision to take: 409.
SyncSave(h) ==
    /\ At(h, "sync")
    /\ LET row == req[h].row
           facts == req[h].facts
       IN  registry' = IF row.ext \notin {None, facts.ext} \/ NameTaken(facts.name, req[h].id)
                       THEN registry ELSE With(registry, req[h].id, Refreshed(row, facts))
    /\ Ends(h)
    /\ UNCHANGED <<permits, ghRepos>>

-----------------------------------------------------------------------------
\* update(), archive() being one of them.
UpdateFind(h, r, side, archived) ==
    /\ MayStart(h)
    /\ r \in DOMAIN registry
    /\ LET row == registry[r]
       IN  Awaits(h, [at |-> "update", id |-> r,
                      row |-> [row EXCEPT !.side = Given(side, @), !.archived = Given(archived, @)]])
    /\ UNCHANGED <<repositories, ghRepos>>

UpdateSave(h) ==
    /\ At(h, "update")
    /\ registry' = With(registry, req[h].id, req[h].row)
    /\ Ends(h)
    /\ UNCHANGED <<permits, ghRepos>>

\* linkProject(): an archived repository takes no project; a pair is kept once.
LinkFind(h, r, p) ==
    /\ MayStart(h)
    /\ r \in DOMAIN registry /\ ~registry[r].archived
    /\ Awaits(h, [at |-> "link project", id |-> r, project |-> p])
    /\ UNCHANGED <<repositories, ghRepos>>

LinkSave(h) ==
    /\ At(h, "link project")
    /\ permits' = permits \cup {<<req[h].id, req[h].project>>}
    /\ Ends(h)
    /\ UNCHANGED <<registry, ghRepos>>

UnlinkProject(h, r, p) ==
    /\ MayStart(h)
    /\ permits' = permits \ {<<r, p>>}
    /\ UNCHANGED <<registry, ghRepos, req, mode>>

-----------------------------------------------------------------------------
\* narrowBySurface(): to the side of the ticket, unless nothing would be left.
NarrowBySurface(rows, surface) ==
    LET matching == {r \in rows : registry[r].side \in {surface, "fullstack"}}
    IN  IF surface \in {None, "fullstack"} \/ matching = {} THEN rows ELSE matching

\* allowedForWorkItem(), for a ticket that has a project.
AllowedFor(project, surface) ==
    NarrowBySurface({r \in DOMAIN registry : ~registry[r].archived /\ <<r, project>> \in permits}, surface)

\* resolveRepository(): whom a delivery is about.
Resolved(id) == IF ById(id) # {} THEN ById(id) ELSE ByRef(ghRepos[id].name)

RegistryRequest(h) ==
    \/ "discover" \in mode.manages /\ Discover(h)
    \/ \E name \in mode.names, ext \in RepoIds \cup {None} :
          "register" \in mode.manages /\ Register(h, name, ext)
    \/ \E r \in DOMAIN registry :
          \/ "sync" \in mode.manages /\ SyncFind(h, r)
          \/ /\ "permits" \in mode.manages
             /\ \E p \in Projects : LinkFind(h, r, p) \/ UnlinkProject(h, r, p)
          \/ /\ "update" \in mode.manages
             /\ \E archived \in {TRUE, FALSE, Keep}, side \in {"frontend", Keep} :
                   UpdateFind(h, r, side, archived)

RegistryStep(h) ==
    \/ RegisterSave(h) \/ DiscoverById(h) \/ DiscoverByName(h) \/ DiscoverSave(h) \/ DiscoverEnds(h)
    \/ SyncFetch(h) \/ SyncSave(h) \/ UpdateSave(h) \/ LinkSave(h)

-----------------------------------------------------------------------------
Twins == {two \in (DOMAIN registry) \X (DOMAIN registry) :
             /\ two[1] # two[2]
             /\ registry[two[1]].ext # None /\ registry[two[1]].ext = registry[two[2]].ext}

Told(facts) ==
    \E r \in DOMAIN registry :
        registry[r].ext = facts.ext /\ registry[r].name = facts.name /\ registry[r].branch = facts.branch

\* "Un depot renomme est reconnu par son external_id et suit son nouveau nom,
\* plutot que de devenir un doublon": whatever is renamed at GitHub between two
\* requests, bringing the registry in line never gives a row to another
\* repository -- a name given again apart, which a discovery takes for the old
\* one --, a discovery adds no second row to one that has its row, and at its
\* end each repository it saw stands under the name it has.
OneRepositoryOneRow ==
    [][Orderly => \A h \in Handlers :
          /\ At(h, "sync") \/ (At(h, "discovered") /\ ~mode.reuse) =>
                \A r \in DOMAIN registry :
                    registry[r].ext # None => registry'[r].ext = registry[r].ext
          /\ At(h, "discovered") => Twins' \subseteq Twins
          /\ At(h, "discover") /\ req'[h] = Idle =>
                \A i \in DOMAIN req[h].seen : Told(req[h].seen[i])]_<<registry, permits, ghRepos, req, mode>>
=============================================================================
