----------------------------- MODULE GithubLinks -----------------------------
(***************************************************************************)
(* A ticket's branches, kept by two sides at once: HQ's own handlers       *)
(* (startWork and openPullRequest, start-work.service.ts) write to GitHub  *)
(* first and to HQ after, and GitHub reports everything that happens there *)
(* as webhook deliveries (github-webhooks.service.ts), repeated when the   *)
(* answer is lost and in whatever order they arrive.                       *)
(*                                                                         *)
(* GitHub itself is the environment: ghBranches and ghPull are what the    *)
(* repository Home holds, hooks the deliveries it has not been answered    *)
(* for.  The branches here are Home's, the other repositories' alike.      *)
(***************************************************************************)
EXTENDS Repositories

(***************************************************************************)
(* The name a ticket gives its branch (branch-name.ts) and the way back    *)
(* from a name to the ticket (branch-reference.ts).  A text is a sequence  *)
(* of runs -- letters, digits or one dash --, and a run counts as one      *)
(* character; a title is what slugifyTitle() leaves of it.                 *)
(***************************************************************************)
CONSTANTS
    Figures,                        \* the runs made of digits
    MaxBranchLength, MaxSlugLength

Dash == "-"

\* PREFIX_BY_TYPE; hotfix is only ever asked for.
PrefixByType ==
    [feature |-> "feature", story |-> "feature", epic |-> "feature", bug |-> "fix",
     spike |-> "spike", task |-> "chore", ops |-> "chore", debt |-> "chore"]

Trim(runs) ==
    LET kept == {i \in DOMAIN runs : runs[i] # Dash}
    IN  IF kept = {} THEN << >>
        ELSE SubSeq(runs, CHOOSE i \in kept : \A j \in kept : i <= j,
                          CHOOSE i \in kept : \A j \in kept : j <= i)

\* slice(0, n)
First(runs, n) == SubSeq(runs, 1, IF n < Len(runs) THEN n ELSE Len(runs))

\* Cut at the last dash, unless too little would be left.
SlugifyTitle(title) ==
    LET cut == First(title, MaxSlugLength)
        late == {i \in DOMAIN cut : cut[i] = Dash /\ 2 * (i - 1) > MaxSlugLength}
    IN  IF Len(title) <= MaxSlugLength THEN Trim(title)
        ELSE IF late = {} THEN Trim(cut)
        ELSE Trim(First(cut, (CHOOSE i \in late : \A j \in late : j <= i) - 1))

\* The prefix and the key always pass; the slug takes the room that is left.
BranchNameFor(type, reference, title, prefix) ==
    LET slug == SlugifyTitle(title)
        room == MaxBranchLength - (2 + Len(reference)) - 1
        body == IF slug = << >> \/ room <= 1 THEN reference
                ELSE reference \o <<Dash>> \o Trim(First(slug, room))
    IN  [prefix |-> IF prefix = "by type" THEN PrefixByType[type] ELSE prefix, body |-> body]

\* referenceCandidatesFrom(): a key ends with a number, so the name is cut after
\* each of its numbers.
Cuts(body) == {n \in DOMAIN body : body[n] \in Figures}

Matching(name, known) == {n \in Cuts(name.body) : SubSeq(name.body, 1, n) \in known}

\* Mutant: the candidates as they are met, the shortest first.
MatchShortest(name, known) ==
    LET matching == Matching(name, known)
    IN  IF matching = {} THEN << >>
        ELSE SubSeq(name.body, 1, CHOOSE n \in matching : \A m \in matching : n <= m)

\* The longest candidate a ticket bears.
MatchReference(name, known) ==
    LET matching == Matching(name, known)
    IN  IF matching = {} THEN << >>
        ELSE SubSeq(name.body, 1, CHOOSE n \in matching : \A m \in matching : m <= n)

-----------------------------------------------------------------------------
CONSTANTS
    Tickets,
    Described,      \* ticket -> [type, reference, title, project, surface]
    Home,           \* the repository whose branches these are
    Prefixes,       \* what a request may ask for: "by type" or a prefix
    MaxEvents       \* bound on the deliveries GitHub emits

IsText(runs) == runs \in Seq({runs[i] : i \in DOMAIN runs})

\* A key ends with a number (branch-reference.ts) and a dash is none.  A mode also
\* says how orderly the deliveries are and how many, and the tickets concerned.
ASSUME GithubLinksAssumption ==
    /\ DOMAIN Described = Tickets /\ IsFiniteSet(Handlers) /\ Dash \notin Figures
    /\ \A t \in Tickets :
          /\ Described[t].type \in DOMAIN PrefixByType
          /\ IsText(Described[t].title) /\ IsText(Described[t].reference)
          /\ Described[t].reference # << >>
          /\ Described[t].reference[Len(Described[t].reference)] \in Figures
          /\ \A s \in Tickets \ {t} : Described[s].reference # Described[t].reference
    /\ {MaxEvents, MaxBranchLength, MaxSlugLength} \subseteq Nat
    /\ \A m \in Modes :
          /\ m.inOrder \in BOOLEAN /\ m.events \in 0 .. MaxEvents
          /\ m.tickets \subseteq Tickets /\ m.handlers \subseteq Handlers

VARIABLES
    status,     \* work_items.status of each ticket
    links,      \* work_item_branches, unique per (repository, name)
    stored,     \* github_webhook_deliveries: the delivery ids kept
    ghBranches, ghPull, hooks, emitted,    \* GitHub
    missed      \* history: the names a delivery that was kept, and not applied, is about

vars == <<status, links, stored, req, ghBranches, ghPull, hooks, emitted, missed, mode,
          ghRepos, registry, permits>>
hq == <<status, links, stored, repositories>>
\* GitHub, and what HQ missed of it.
github == <<ghBranches, ghPull, hooks, emitted, missed, ghRepos>>

-----------------------------------------------------------------------------
TechnicalTypes == {"story", "task", "bug", "spike", "feature", "debt"}

NameOf(t, prefix) ==
    BranchNameFor(Described[t].type, Described[t].reference, Described[t].title, prefix)

Names == {NameOf(t, prefix) : t \in Tickets, prefix \in Prefixes}

\* A row of work_item_branches.
Link(t, state, pr) == [ticket |-> t, state |-> state, pr |-> pr]

\* onBranchCreated: the ticket whose reference the name bears.
Bearing(name) ==
    LET known == {Described[t].reference : t \in Tickets}
    IN  {t \in Tickets : Described[t].reference = MatchReference(name, known)}

\* What a handler holds between two awaits: the branch and the ticket it works
\* on, the ticket's status and the link as it read them, what it was told of the
\* pull request.
Holding(at, t, name) ==
    [at |-> at, ticket |-> t, name |-> name, found |-> None, link |-> None, pr |-> None]

Init ==
    /\ mode \in Modes
    /\ status = [t \in Tickets |-> "todo"]
    /\ links = [n \in {} |-> None]
    /\ stored = {}
    /\ req = [h \in Handlers |-> Idle]
    /\ ghBranches = {}
    /\ ghPull = [n \in Names |-> "none"]
    /\ hooks = << >>
    /\ emitted = 0
    /\ missed = {}
    /\ ghRepos = mode.ghRepos
    /\ registry = mode.registry
    /\ permits = mode.permits

-----------------------------------------------------------------------------
\* GitHub queues one delivery per fact, numbered by its delivery id.
Delivery(k, event, name, pr) == [id |-> emitted + k, event |-> event, name |-> name, pr |-> pr]

Emits(deliveries) ==
    /\ emitted + Len(deliveries) <= mode.events
    /\ hooks' = hooks \o deliveries
    /\ emitted' = emitted + Len(deliveries)
    /\ UNCHANGED <<ghRepos, missed>>

\* Someone pushes a branch, or createBranch does: 422 when it exists.
GhCreates(name) ==
    /\ name \notin ghBranches
    /\ ghBranches' = ghBranches \cup {name}
    /\ Emits(<<Delivery(1, "create", name, "none")>>)
    /\ UNCHANGED ghPull

\* Deleting a branch closes its open pull request.
GhDeletes(name) ==
    /\ name \in ghBranches
    /\ ghBranches' = ghBranches \ {name}
    /\ IF ghPull[name] = "open"
       THEN /\ ghPull' = [ghPull EXCEPT ![name] = "closed"]
            /\ Emits(<<Delivery(1, "pull_request", name, "closed"),
                       Delivery(2, "delete", name, "none")>>)
       ELSE /\ Emits(<<Delivery(1, "delete", name, "none")>>)
            /\ UNCHANGED ghPull

GhPulls(name, pr) ==
    /\ ghPull' = [ghPull EXCEPT ![name] = pr]
    /\ Emits(<<Delivery(1, "pull_request", name, pr)>>)
    /\ UNCHANGED ghBranches

GhOpensPull(name) ==
    /\ name \in ghBranches /\ ghPull[name] # "open"
    /\ GhPulls(name, "open")

GhEndsPull(name, pr) ==
    /\ ghPull[name] = "open"
    /\ GhPulls(name, pr)

\* Whatever people do on GitHub directly.
GithubStep(name) ==
    /\ \/ GhCreates(name) \/ GhDeletes(name) \/ GhOpensPull(name)
       \/ \E pr \in {"closed", "merged"} : GhEndsPull(name, pr)
    /\ UNCHANGED <<hq, req, mode>>

-----------------------------------------------------------------------------
\* readiness(): work of the right kind, not done, and no open branch yet ...
Ready(t) ==
    /\ Described[t].type \in TechnicalTypes
    /\ status[t] \notin {"resolved", "closed"}
    /\ \A n \in DOMAIN links : links[n].ticket = t => links[n].state # "open"

StartReadiness(h, t, prefix) ==
    /\ MayStart(h)
    /\ Ready(t)
    /\ Awaits(h, Holding("repositories", t, NameOf(t, prefix)))
    /\ UNCHANGED <<hq, github>>

\* ... in a repository its project allows, the one asked for or the only one.
StartPick(h) ==
    /\ req[h].at = "repositories"
    /\ LET t == req[h].ticket
           allowed == AllowedFor(Described[t].project, Described[t].surface)
       IN  IF allowed = {} THEN Ends(h)
           ELSE \E r \in allowed : Awaits(h, [req[h] EXCEPT !.at = "find", !.link = registry[r].name])
    /\ UNCHANGED <<hq, github>>

\* findItem, then branchSha.
StartFind(h) ==
    /\ req[h].at = "find"
    /\ Awaits(h, [req[h] EXCEPT !.at = "branch", !.found = status[req[h].ticket]])
    /\ UNCHANGED <<hq, github>>

\* createBranch: one that exists is reused.
StartCreate(h) ==
    /\ req[h].at = "branch" /\ Home \in Answers(req[h].link)
    /\ Awaits(h, [req[h] EXCEPT !.at = "link"])
    /\ IF req[h].name \in ghBranches THEN UNCHANGED github ELSE GhCreates(req[h].name)
    /\ UNCHANGED hq

\* branches.save of a new link; the unique index refuses a second one.
StartLink(h) ==
    /\ req[h].at = "link"
    /\ IF req[h].name \in DOMAIN links
       THEN Ends(h) /\ UNCHANGED links
       ELSE /\ links' = With(links, req[h].name,
                              Link(req[h].ticket, "open", "none"))
            /\ Awaits(h, [req[h] EXCEPT !.at = "status"])
    /\ UNCHANGED <<status, stored, repositories, github>>

\* "Le statut ne recule jamais", judged on the row that was read.
NotStarted(found) == found \in {"todo", "triage", "blocked"}

StartStatus(h) ==
    /\ req[h].at = "status"
    /\ status' = IF NotStarted(req[h].found)
                 THEN [status EXCEPT ![req[h].ticket] = "in_progress"] ELSE status
    /\ Ends(h)
    /\ UNCHANGED <<links, stored, repositories, github>>

-----------------------------------------------------------------------------
\* openPullRequest(): the ticket and the branch asked for, open or not.
PullFind(h, name) ==
    /\ MayStart(h)
    /\ name \in DOMAIN links
    /\ links[name].pr # "open"
    /\ Awaits(h, [Holding("pull", links[name].ticket, name) EXCEPT
                     !.found = status[links[name].ticket], !.link = links[name]])
    /\ UNCHANGED <<hq, github>>

\* createPullRequest: opens one, or finds the one that is open.
PullCreate(h) ==
    /\ req[h].at = "pull"
    /\ Awaits(h, [req[h] EXCEPT !.at = "pulled"])
    /\ \/ GhOpensPull(req[h].name)
       \/ ghPull[req[h].name] = "open" /\ UNCHANGED github
    /\ UNCHANGED hq

\* branches.save(branch): the whole link as it was read, with the new PR.
PullSave(h) ==
    /\ req[h].at = "pulled"
    /\ links' = With(links, req[h].name, [req[h].link EXCEPT !.pr = "open"])
    /\ Awaits(h, [req[h] EXCEPT !.at = "review"])
    /\ UNCHANGED <<status, stored, repositories, github>>

PullStatus(h) ==
    /\ req[h].at = "review"
    /\ status' = IF req[h].found \in {"in_progress", "todo"}
                 THEN [status EXCEPT ![req[h].ticket] = "review"] ELSE status
    /\ Ends(h)
    /\ UNCHANGED <<links, stored, repositories, github>>

-----------------------------------------------------------------------------
Taken(seq, k) == SubSeq(seq, 1, k - 1) \o SubSeq(seq, k + 1, Len(seq))

\* Mutant: a repeated delivery is applied again.
AlreadyStoredNever(d) == FALSE

\* The unique index on delivery_id.
AlreadyStored(d) == d.id \in stored

\* receive(): keep the delivery, then apply it if the registry knows whom it is
\* about.  GitHub keeps one whose answer it did not get, and repeats it.
Receive(h, k, answered) ==
    /\ MayStart(h)
    /\ mode.inOrder => \A j \in 1 .. k - 1 : hooks[j].id \in stored
    /\ hooks' = IF answered THEN Taken(hooks, k) ELSE hooks
    /\ IF AlreadyStored(hooks[k])
       THEN Ends(h) /\ UNCHANGED stored
       ELSE /\ stored' = stored \cup {hooks[k].id}
            /\ IF Resolved(Home) = {} THEN Ends(h)
               ELSE Awaits(h, [Holding(hooks[k].event, None, hooks[k].name) EXCEPT !.pr = hooks[k].pr])
    /\ UNCHANGED <<status, links, repositories, ghBranches, ghPull, emitted, missed, ghRepos>>

\* onBranchCreated: a name already linked is left alone, and one that bears no
\* ticket's reference ...
BranchCreatedFind(h) ==
    /\ req[h].at = "create"
    /\ LET n == req[h].name
       IN  IF n \in DOMAIN links \/ Bearing(n) = {} THEN Ends(h)
           ELSE \E t \in Bearing(n) : Awaits(h, [req[h] EXCEPT !.at = "recognise", !.ticket = t])
    /\ UNCHANGED <<hq, github>>

\* ... and one that bears one joins it.  A link saved meanwhile makes the insert
\* fail, which is logged and answered 200.
BranchCreatedSave(h) ==
    /\ req[h].at = "recognise"
    /\ LET n == req[h].name
       IN links' = IF n \in DOMAIN links THEN links
                   ELSE With(links, n, Link(req[h].ticket, "open", "none"))
    /\ Ends(h)
    /\ UNCHANGED <<status, stored, repositories, github>>

\* onBranchDeleted: UPDATE ... SET state = 'deleted' WHERE state = 'open'
BranchDeleted(h) ==
    /\ req[h].at = "delete"
    /\ LET n == req[h].name
       IN links' = IF n \in DOMAIN links /\ links[n].state = "open"
                   THEN [links EXCEPT ![n].state = "deleted"] ELSE links
    /\ Ends(h)
    /\ UNCHANGED <<status, stored, repositories, github>>

\* onPullRequest: read the link ...
PullEventFind(h) ==
    /\ req[h].at = "pull_request"
    /\ IF req[h].name \notin DOMAIN links THEN Ends(h)
       ELSE Awaits(h, [req[h] EXCEPT !.at = "mirror", !.link = links[req[h].name]])
    /\ UNCHANGED <<hq, github>>

\* Mutant: the branch follows the pull request, deleted or merged before.
MirroredAlways(link, pr) ==
    [link EXCEPT !.pr = pr, !.state = IF pr = "merged" THEN "merged" ELSE "open"]

\* The pull request's state follows every event, the branch's only a merge.
Mirrored(link, pr) ==
    [link EXCEPT !.pr = pr, !.state = IF pr = "merged" /\ @ = "open" THEN "merged" ELSE @]

\* ... and save the whole of it.
PullEventSave(h) ==
    /\ req[h].at = "mirror"
    /\ links' = With(links, req[h].name, Mirrored(req[h].link, req[h].pr))
    /\ Ends(h)
    /\ UNCHANGED <<status, stored, repositories, github>>

-----------------------------------------------------------------------------
Starting == {"repositories", "find", "branch", "link", "status"}
Reviewing == {"pull", "pulled", "review"}
Telling == {"create", "recognise", "delete", "pull_request", "mirror"}

\* A call to GitHub or to the database fails, or the process stops: what the
\* request has written stays, and it writes no more.  The delivery it applied is
\* kept, so the failure is answered 200 and GitHub's repetition is a duplicate.
RequestFails(h) ==
    /\ req[h].at \in Starting \cup Reviewing \cup Telling
    /\ Ends(h)
    /\ missed' = IF req[h].at \in Telling THEN missed \cup {req[h].name} ELSE missed
    /\ UNCHANGED <<hq, ghBranches, ghPull, hooks, emitted, ghRepos>>

-----------------------------------------------------------------------------
\* Somebody moves the card on the board.
BoardMove(h, t, s) ==
    /\ MayStart(h)
    /\ status[t] # "closed"
    /\ status' = [status EXCEPT ![t] = s]
    /\ UNCHANGED <<links, stored, repositories, github, req, mode>>

LinksRequest(h) ==
    \/ \E t \in mode.tickets, prefix \in Prefixes : StartReadiness(h, t, prefix)
    \/ \E n \in DOMAIN links : PullFind(h, n)
    \/ \E t \in mode.tickets, s \in {"blocked", "review", "resolved"} : BoardMove(h, t, s)
    \/ \E k \in 1 .. Len(hooks), answered \in BOOLEAN : Receive(h, k, answered)

LinksStep(h) ==
    \/ StartPick(h) \/ StartFind(h) \/ StartCreate(h) \/ StartLink(h) \/ StartStatus(h)
    \/ PullCreate(h) \/ PullSave(h) \/ PullStatus(h)
    \/ BranchCreatedFind(h) \/ BranchCreatedSave(h) \/ BranchDeleted(h)
    \/ PullEventFind(h) \/ PullEventSave(h)
    \/ RequestFails(h)

Next ==
    \/ \E h \in Handlers : LinksRequest(h) \/ LinksStep(h)
    \/ \E n \in {NameOf(t, prefix) : t \in mode.tickets, prefix \in Prefixes} : GithubStep(n)
    \/ /\ \/ \E h \in Handlers : RegistryRequest(h) \/ RegistryStep(h)
          \/ RegistryOfGithub
       /\ UNCHANGED <<status, links, stored, ghBranches, ghPull, hooks, emitted, missed>>

Spec == Init /\ [][Next]_vars

-----------------------------------------------------------------------------
\* Requests one at a time, deliveries in the order of the facts.
InOrder == Orderly /\ mode.inOrder

Quiet == hooks = << >> /\ \A h \in Handlers : req[h].at = "idle"

\* The registry knows Home, and goes on to know it by the same name.
HomeKnown ==
    /\ mode.repos = {} /\ mode.manages \subseteq {"permits", "update"}
    /\ \E r \in DOMAIN mode.registry :
          mode.registry[r].ext = Home \/ mode.registry[r].name = mode.ghRepos[Home].name

\* "une branche fusionnee ou supprimee sur GitHub cesse d'etre ouverte dans HQ":
\* once every delivery is answered, an open link is a branch that exists and is
\* not merged, and a link shows the state its pull request has, although GitHub
\* repeats deliveries, HQ links branches on its own and requests fail at any
\* await.  A delivery HQ kept and failed to apply leaves its own branch's link
\* stale (applyToBranches waits for "une resynchronisation manuelle"), and no other.
LinksMirrorGithub ==
    InOrder /\ HomeKnown /\ Quiet =>
        \A n \in DOMAIN links \ missed :
            /\ links[n].state = "open" => n \in ghBranches /\ ghPull[n] # "merged"
            /\ links[n].pr = ghPull[n]

\* "Seule la fusion est un fait acquis": a merged link stays merged, and a
\* deleted one is never open again.
EndedLinksStayEnded ==
    [][InOrder => \A n \in DOMAIN links :
                     links[n].state # "open" => links'[n].state = links[n].state]_vars

BeginsWith(body, reference) == \E n \in DOMAIN body : SubSeq(body, 1, n) = reference

\* No ticket's name is another's, nor a longer key its beginning: a title that
\* starts with the number of a child ("GOV-01" and "GOV-01-1") would be one.
Unmistaken(n, t) ==
    \A s \in Tickets \ {t} :
        BeginsWith(n.body, Described[s].reference) =>
            /\ Len(Described[s].reference) < Len(Described[t].reference)
            /\ \A prefix \in Prefixes : n # NameOf(s, prefix)

\* "une branche poussee depuis un terminal rejoint son ticket", and "les erreurs
\* de creation n'entrainent pas de changement incoherent de statut": whatever
\* overlaps or fails, a branch that has the name HQ gives a ticket's, and no
\* other's, is linked to that ticket, whether startWork or the delivery of its
\* creation gets there first, and startWork puts in progress a ticket whose
\* branch HQ knows.
BranchesJoinTheirTicket ==
    /\ \A n \in DOMAIN links, t \in Tickets, prefix \in Prefixes :
          n = NameOf(t, prefix) /\ Unmistaken(n, t) => links[n].ticket = t
    /\ \A h \in Handlers : req[h].at = "status" => req[h].name \in DOMAIN links
=============================================================================
