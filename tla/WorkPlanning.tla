---------------------------- MODULE WorkPlanning ----------------------------
(***************************************************************************)
(* Sprints, dependencies and the projects they live in:                    *)
(* work-planning.service.ts, what create() and update() of                 *)
(* work-items.service.ts do to a ticket's project and sprint, what a       *)
(* reference document does to the project of the tickets it brought, and   *)
(* the studio's removeProject.  Every rule here is a read, an await and a  *)
(* write; req[h] is where handler h is between them and what it has read.  *)
(***************************************************************************)
EXTENDS WorkItemParts

CONSTANTS Sprints, Projects

ASSUME WorkPlanningAssumption ==
    /\ None \notin Tickets \cup Sprints \cup Projects
    /\ Keep \notin Tickets \cup Sprints \cup Projects \cup {None}
    /\ \A m \in Modes : /\ m.handlers \subseteq Handlers /\ m.tickets \subseteq Tickets
                        /\ m.sprints \subseteq Sprints /\ m.projects \subseteq Projects
                        /\ m.manifest \subseteq m.tickets     \* brought by a reference document
    /\ IsFiniteSet(Handlers) /\ MaxAttachments \in Nat \ {0}

VARIABLES
    projects,   \* roadmap_initiatives that exist
    sprints,    \* work_sprints: id -> project and status
    deps,       \* work_item_dependencies: <<work item, what it depends on>>
    propagated  \* history: the tickets a document's project has been written to
                \* while they were in the sprint of another one

planning == <<projects, tickets, sprints, deps, propagated>>
vars == <<planning, parts, req, mode>>

-----------------------------------------------------------------------------
SprintStatuses == {"planned", "active", "completed"}

\* at: the handler's next await.  ticket/target/frontier/seen serve reaches().
Blank == [at |-> "blank", ticket |-> None, target |-> None, sprint |-> None,
         row |-> [project |-> None, sprint |-> None],
         saved |-> [project |-> None, status |-> "planned"],
         frontier |-> {}, seen |-> {}]

Init ==
    /\ mode \in Modes
    /\ projects = mode.projects
    /\ tickets = << >> /\ sprints = << >> /\ deps = {} /\ propagated = {}
    /\ PartsInit
    /\ req = [h \in Handlers |-> Idle]

\* An identifier the database may draw: of no row, and of none a handler holds.
Fresh(id, table) ==
    /\ id \notin DOMAIN table
    /\ \A g \in Handlers : \A field \in {"ticket", "target", "sprint"} \cap DOMAIN req[g] : req[g][field] # id

\* The foreign keys to roadmap_initiatives.
ProjectExists(p) == p \in projects \cup {None}

-----------------------------------------------------------------------------
\* createSprint and updateSprint.
Activating(status, from) == status = "active" /\ from # "active"

WorkSprint(p, status) == [project |-> p, status |-> status]

CreateSprint(h, s, p, status) ==
    /\ MayStart(h)
    /\ Fresh(s, sprints) /\ p \in projects
    /\ Awaits(h, [Blank EXCEPT !.at = IF status = "active" THEN "one active" ELSE "save sprint",
                               !.sprint = s, !.saved = WorkSprint(p, status)])
    /\ UNCHANGED <<projects, tickets, sprints, deps>>

UpdateSprint(h, s, status) ==
    /\ MayStart(h)
    /\ s \in DOMAIN sprints
    /\ LET found == sprints[s]
           checks == Activating(status, found.status) /\ found.project # None
       IN Awaits(h, [Blank EXCEPT !.at = IF checks THEN "one active" ELSE "save sprint",
                                  !.sprint = s, !.saved = [found EXCEPT !.status = status]])
    /\ UNCHANGED <<projects, tickets, sprints, deps>>

\* assertNoActiveSprint: findOne returns any active sprint of the project.
NoActiveSprint(p, s) ==
    \A a \in DOMAIN sprints \ {s} : sprints[a] # WorkSprint(p, "active")

AssertNoActiveSprint(h) ==
    /\ req[h].at = "one active"
    /\ IF NoActiveSprint(req[h].saved.project, req[h].sprint)
       THEN Awaits(h, [req[h] EXCEPT !.at = "save sprint"]) ELSE Ends(h)
    /\ UNCHANGED <<projects, tickets, sprints, deps>>

SaveSprint(h) ==
    /\ req[h].at = "save sprint"
    /\ sprints' = IF ProjectExists(req[h].saved.project)
                  THEN With(sprints, req[h].sprint, req[h].saved) ELSE sprints
    /\ Ends(h)
    /\ UNCHANGED <<projects, tickets, deps>>

-----------------------------------------------------------------------------
\* create() and update() of a ticket, as far as its project and sprint go.
Sprinted(h, t, row) ==
    Awaits(h, [Blank EXCEPT !.ticket = t, !.row = row,
                 !.at = IF row.project # None /\ row.sprint # None
                        THEN "assert sprint" ELSE "save ticket"])

CreateTicket(h, t, p, s) ==
    /\ MayStart(h)
    /\ t \notin mode.manifest /\ Fresh(t, tickets) /\ p \in projects
    /\ Sprinted(h, t, [project |-> p, sprint |-> s])
    /\ UNCHANGED <<projects, tickets, sprints, deps>>

\* What the row will say: the body over what was read.
NextRow(found, p, s) ==
    [project |-> Given(p, found.project), sprint |-> Given(s, found.sprint)]

UpdateTicket(h, t, p, s) ==
    /\ MayStart(h)
    /\ Mutable(t)
    /\ p = Keep \/ p = tickets[t].project \/ p \in projects
    /\ Sprinted(h, t, NextRow(tickets[t], p, s))
    /\ UNCHANGED <<projects, tickets, sprints, deps>>

\* What changes neither project nor sprint saves them as it read them: the board,
\* assignToWorkItem() of a release, Start Work.
TouchTicket(h, t) ==
    /\ MayStart(h)
    /\ t \in DOMAIN tickets
    /\ Awaits(h, [Blank EXCEPT !.at = "save ticket", !.ticket = t, !.row = tickets[t]])
    /\ UNCHANGED <<projects, tickets, sprints, deps>>

\* The studio's updateTask takes a ticket that changes project out of its
\* sprint; the sprint it was in, it learns from a read of its own.
StudioUpdateTask(h, t, p) ==
    /\ MayStart(h)
    /\ t \in DOMAIN tickets /\ p \in projects
    /\ LET leavesSprint == tickets[t].sprint # None /\ tickets[t].project # p
       IN Awaits(h, [Blank EXCEPT !.at = "studio", !.ticket = t,
                       !.row = [project |-> p, sprint |-> IF leavesSprint THEN None ELSE Keep]])
    /\ UNCHANGED <<projects, tickets, sprints, deps>>

StudioUpdate(h) ==
    /\ req[h].at = "studio"
    /\ LET r == req[h]
       IN IF Mutable(r.ticket) /\ r.row.project \in projects
          THEN Sprinted(h, r.ticket, NextRow(tickets[r.ticket], r.row.project, r.row.sprint))
          ELSE Ends(h)
    /\ UNCHANGED <<projects, tickets, sprints, deps>>

\* Mutant: the sprint's own project is not compared.
SprintFitsAnything(row) == row.sprint \in DOMAIN sprints

\* assertSprint
SprintFits(row) ==
    row.sprint \in DOMAIN sprints /\ sprints[row.sprint].project = row.project

AssertSprint(h) ==
    /\ req[h].at = "assert sprint"
    /\ IF SprintFits(req[h].row)
       THEN Awaits(h, [req[h] EXCEPT !.at = "save ticket"]) ELSE Ends(h)
    /\ UNCHANGED <<projects, tickets, sprints, deps>>

\* repository.save writes the whole row, if the foreign keys let it.
SaveTicket(h) ==
    /\ req[h].at = "save ticket"
    /\ tickets' = IF /\ ProjectExists(req[h].row.project)
                     /\ req[h].row.sprint \in DOMAIN sprints \cup {None}
                  THEN With(tickets, req[h].ticket, req[h].row) ELSE tickets
    /\ Ends(h)
    /\ UNCHANGED <<projects, sprints, deps>>

\* removeTask: what hangs on the ticket goes with it (ON DELETE CASCADE).
RemoveTask(h, t) ==
    /\ MayStart(h)
    /\ t \in DOMAIN tickets
    /\ tickets' = Without(tickets, {t})
    /\ PartsFollow(t)
    /\ deps' = {d \in deps : t \notin {d[1], d[2]}}
    /\ UNCHANGED <<projects, sprints, req, mode, propagated>>

-----------------------------------------------------------------------------
\* A reference document names a project.  update() attaches to it the tickets the
\* document brought that have none; an import gives the project to the tickets it
\* inserts and to those it saves again.  Neither looks at the sprint.
UpdateReference(h, q) ==
    /\ MayStart(h)
    /\ mode.manifest # {} /\ q \in projects
    /\ Awaits(h, [Blank EXCEPT !.at = "attach", !.row.project = q])
    /\ UNCHANGED <<projects, tickets, sprints, deps>>

AttachProject(h) ==
    /\ req[h].at = "attach"
    /\ LET q == req[h].row.project
           lacking == {t \in DOMAIN tickets \cap mode.manifest : tickets[t].project = None}
       IN tickets' = IF q \in projects
                     THEN [t \in DOMAIN tickets |->
                             IF t \in lacking THEN [tickets[t] EXCEPT !.project = q] ELSE tickets[t]]
                     ELSE tickets
    /\ Ends(h)
    /\ UNCHANGED <<projects, sprints, deps>>

ImportItem(h, t, q) ==
    /\ MayStart(h)
    /\ t \in mode.manifest /\ q \in projects \cup {None}
    /\ Mutable(t) \/ Fresh(t, tickets)
    /\ LET found == IF t \in DOMAIN tickets THEN tickets[t].project ELSE None
       IN Awaits(h, [Blank EXCEPT !.at = "import", !.ticket = t,
                                  !.row.project = IF found = None THEN q ELSE found])
    /\ UNCHANGED <<projects, tickets, sprints, deps>>

\* The columns of the import, over those of the stored row if there still is one.
ImportSave(h) ==
    /\ req[h].at = "import"
    /\ LET r == req[h]
           sprint == IF r.ticket \in DOMAIN tickets THEN tickets[r.ticket].sprint ELSE None
       IN tickets' = IF ProjectExists(r.row.project)
                     THEN With(tickets, r.ticket, [project |-> r.row.project, sprint |-> sprint]) ELSE tickets
    /\ Ends(h)
    /\ UNCHANGED <<projects, sprints, deps>>

\* A row of a project, in the sprint of another.
Apart(row) ==
    row.project # None /\ row.sprint # None /\ sprints[row.sprint].project # row.project

Propagation(h) ==
    /\ AttachProject(h) \/ ImportSave(h)
    /\ propagated' = propagated \cup {t \in DOMAIN tickets' : Apart(tickets'[t])}

-----------------------------------------------------------------------------
\* addDependency: both tickets exist, share a project, the pair is new; then
\* reaches() reads one ticket's edges per await.
AddDependency(h, t, u) ==
    /\ MayStart(h)
    /\ t # u /\ {t, u} \subseteq DOMAIN tickets
    /\ tickets[t].project = tickets[u].project
    /\ Awaits(h, [Blank EXCEPT !.at = "duplicate", !.ticket = t, !.target = u])
    /\ UNCHANGED <<projects, tickets, sprints, deps>>

DependencyIsNew(h) ==
    /\ req[h].at = "duplicate"
    /\ IF <<req[h].ticket, req[h].target>> \in deps THEN Ends(h)
       ELSE Awaits(h, [req[h] EXCEPT !.at = "reaches", !.frontier = {req[h].target}])
    /\ UNCHANGED <<projects, tickets, sprints, deps>>

\* Mutant: the walk does not remember where it has been.
ReachesStepForgetful(h) ==
    /\ req[h].at = "reaches"
    /\ LET r == req[h]
       IN IF r.ticket \in r.frontier THEN Ends(h)
          ELSE IF r.frontier = {} THEN Awaits(h, [r EXCEPT !.at = "save dependency"])
          ELSE \E current \in r.frontier :
                  Awaits(h, [r EXCEPT !.frontier =
                      (@ \ {current}) \cup {d[2] : d \in {e \in deps : e[1] = current}}])
    /\ UNCHANGED <<projects, tickets, sprints, deps>>

\* Mutant: only the direct dependencies of the target are looked at.
ReachesStepShallow(h) ==
    /\ req[h].at = "reaches"
    /\ LET r == req[h]
       IN Awaits(h, [r EXCEPT !.at = "save dependency"])
    /\ UNCHANGED <<projects, tickets, sprints, deps>>

\* One turn of reaches(): shift a ticket, and queue what it depends on.  The
\* edges come back in no particular order, so the queue is kept as a set.
ReachesStep(h) ==
    /\ req[h].at = "reaches"
    /\ LET r == req[h]
           fresh == r.frontier \ r.seen
       IN IF fresh = {} THEN Awaits(h, [r EXCEPT !.at = "save dependency"])
          ELSE \E current \in fresh :
                  IF current = r.ticket THEN Ends(h)
                  ELSE Awaits(h, [r EXCEPT
                         !.seen = @ \cup {current},
                         !.frontier = (@ \ {current})
                                        \cup {d[2] : d \in {e \in deps : e[1] = current}}])
    /\ UNCHANGED <<projects, tickets, sprints, deps>>

\* The insert: unique per pair, and both tickets must still be there.
SaveDependency(h) ==
    /\ req[h].at = "save dependency"
    /\ deps' = IF {req[h].ticket, req[h].target} \subseteq DOMAIN tickets
               THEN deps \cup {<<req[h].ticket, req[h].target>>} ELSE deps
    /\ Ends(h)
    /\ UNCHANGED <<projects, tickets, sprints>>

RemoveDependency(h, d) ==
    /\ MayStart(h)
    /\ d \in deps
    /\ deps' = deps \ {d}
    /\ UNCHANGED <<projects, tickets, sprints, req, mode>>

-----------------------------------------------------------------------------
\* removeProject: refuse while anything references the project ...
CountReferences(h, p) ==
    /\ MayStart(h)
    /\ p \in projects
    /\ \A t \in DOMAIN tickets : tickets[t].project # p
    /\ \A s \in DOMAIN sprints : sprints[s].project # p
    /\ Awaits(h, [Blank EXCEPT !.at = "remove project", !.row.project = p])
    /\ UNCHANGED <<projects, tickets, sprints, deps>>

\* ... and then delete it; what references it by now is set to null.
RemoveProject(h) ==
    /\ req[h].at = "remove project"
    /\ LET p == req[h].row.project
       IN /\ projects' = projects \ {p}
          /\ tickets' = [t \in DOMAIN tickets |->
                IF tickets[t].project = p THEN [tickets[t] EXCEPT !.project = None] ELSE tickets[t]]
          /\ sprints' = [s \in DOMAIN sprints |->
                IF sprints[s].project = p THEN [sprints[s] EXCEPT !.project = None] ELSE sprints[s]]
    /\ Ends(h)
    /\ UNCHANGED deps

-----------------------------------------------------------------------------
Request(h) ==
    \/ \E s \in mode.sprints, p \in mode.projects, st \in SprintStatuses : CreateSprint(h, s, p, st)
    \/ \E s \in mode.sprints, st \in SprintStatuses : UpdateSprint(h, s, st)
    \/ \E t \in mode.tickets, p \in mode.projects, s \in mode.sprints \cup {None} :
          CreateTicket(h, t, p, s)
    \/ \E t \in mode.tickets, p \in mode.projects \cup {Keep}, s \in mode.sprints \cup {None, Keep} :
          UpdateTicket(h, t, p, s)
    \/ \E t \in mode.tickets : TouchTicket(h, t)
    \/ \E t \in mode.tickets, p \in mode.projects : StudioUpdateTask(h, t, p)
    \/ \E q \in mode.projects : UpdateReference(h, q)
    \/ \E t \in mode.manifest, q \in mode.projects \cup {None} : ImportItem(h, t, q)
    \/ \E t, u \in mode.tickets : AddDependency(h, t, u)
    \/ \E d \in deps : RemoveDependency(h, d)
    \/ \E p \in mode.projects : CountReferences(h, p)

Step(h) ==
    \/ AssertNoActiveSprint(h) \/ SaveSprint(h)
    \/ StudioUpdate(h) \/ AssertSprint(h) \/ SaveTicket(h)
    \/ DependencyIsNew(h) \/ ReachesStep(h) \/ SaveDependency(h)
    \/ RemoveProject(h)

PlanningNext ==
    /\ \E h \in Handlers :
          \/ mode.parts = {} /\ Request(h) /\ UNCHANGED propagated
          \/ \E t \in mode.tickets, p \in mode.projects :
                mode.parts # {} /\ CreateTicket(h, t, p, None) /\ UNCHANGED propagated
          \/ Step(h) /\ UNCHANGED propagated
          \/ Propagation(h)
    /\ UNCHANGED parts

PartsNext ==
    /\ mode.parts # {}
    /\ Stops \/ (\E t \in mode.tickets : Close(t)) \/ \E h \in Handlers : PartsRequest(h) \/ PartsStep(h)
    /\ UNCHANGED <<projects, sprints, deps, propagated>>

Next ==
    \/ PlanningNext \/ PartsNext
    \/ \E h \in Handlers, t \in mode.tickets : RemoveTask(h, t)

Spec == Init /\ [][Next]_vars

\* The database answers: a walk in progress goes on.
FairSpec == Spec /\ \A h \in Handlers : WF_req(ReachesStep(h))

-----------------------------------------------------------------------------
\* "Le sprint et le ticket doivent appartenir au meme projet": although ticket,
\* sprint and project are read and written by different requests at different
\* times, a ticket is in a sprint of its project, unless its document's project
\* has been written to it past its sprint (attachProject(), import()).
SprintBelongsToProject == \A t \in DOMAIN tickets : Apart(tickets[t]) => t \in propagated

\* Tickets that can be reached from t along the dependencies: those in every set
\* that has what t depends on and what its own members depend on.
ClosedUnder(edges, C) == \A d \in edges : d[1] \in C => d[2] \in C

Reachable(t) ==
    {u \in Tickets : \A C \in SUBSET Tickets :
        ClosedUnder(deps, C) /\ {d[2] : d \in {e \in deps : e[1] = t}} \subseteq C => u \in C}

\* "Cette dependance creerait un cycle": no ticket waits for itself, as long as
\* requests come one at a time.
NoTicketWaitsForItself == Orderly => \A t \in Tickets : t \notin Reachable(t)

\* reaches() ends although overlapping requests may have closed a cycle.
WalkEnds == \A h \in Handlers : req[h].at = "reaches" ~> req[h].at # "reaches"
=============================================================================
