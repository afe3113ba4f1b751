------------------------- MODULE WorkPlanningProofs -------------------------
(***************************************************************************)
(* Theorems about WorkPlanning, for any number of handlers, tickets,       *)
(* sprints and projects.                                                   *)
(***************************************************************************)
EXTENDS WorkPlanning, FiniteSetTheorems, TLAPS

-----------------------------------------------------------------------------
(* What a request in flight may look like, and what the tables hold. *)

SprintAwaits == {"one active", "save sprint"}
TicketAwaits == {"studio", "assert sprint", "save ticket"}
WalkAwaits == {"duplicate", "reaches", "save dependency"}
PlanningAwaits == SprintAwaits \cup TicketAwaits \cup WalkAwaits \cup {"attach", "import", "remove project"}

TicketRow == [project : Projects \cup {None}, sprint : Sprints \cup {None}]
SprintRow == [project : Projects \cup {None}, status : SprintStatuses]
SubtaskRow == [ticket : Tickets, done : BOOLEAN, position : Nat]

PlanningRequest ==
    [at : PlanningAwaits, ticket : Tickets \cup {None}, target : Tickets \cup {None},
     sprint : Sprints \cup {None},
     row : [project : Projects \cup {None}, sprint : Sprints \cup {None, Keep}],
     saved : SprintRow, frontier : SUBSET Tickets, seen : SUBSET Tickets]

OnTicket == [at : {"count attachments", "save attachment", "count subtasks"}, ticket : Tickets]
OnFile == [at : {"write file", "unsave"}, id : PartIds]
OnAttachment == [at : {"find attachment", "remove row", "unlink"}, ticket : Tickets, id : PartIds]
OnNewSubtask == [at : {"save subtask"}, ticket : Tickets, position : Nat]
OnSubtask == [at : {"its ticket", "resave subtask"}, id : PartIds, ticket : Tickets, row : SubtaskRow]

PartsRequests == OnTicket \cup OnFile \cup OnAttachment \cup OnNewSubtask \cup OnSubtask

InFlight == {Idle} \cup PlanningRequest \cup PartsRequests

IsTable(table, keys, rows) == DOMAIN table \subseteq keys /\ table \in [DOMAIN table -> rows]

\* One request: what it needs to know of is there.
WellFormed(r) ==
    /\ r \in InFlight
    /\ r.at \in SprintAwaits => r.sprint \in Sprints
    /\ r.at \in TicketAwaits \cup {"import"} => r.ticket \in Tickets
    /\ r.at \in {"assert sprint", "save ticket"} => r.row.sprint # Keep
    /\ r.at \in WalkAwaits => r.ticket \in Tickets /\ r.target \in Tickets

RequestsTyped ==
    /\ req \in [Handlers -> InFlight]
    /\ \A h \in Handlers : WellFormed(req[h]) /\ (req[h].at # "idle" => h \in mode.handlers)

\* A ticket names a sprint that is there, as its foreign key demands.
TablesTyped ==
    /\ mode \in Modes
    /\ projects \subseteq Projects
    /\ IsTable(tickets, Tickets, TicketRow)
    /\ IsTable(sprints, Sprints, SprintRow)
    /\ \A t \in DOMAIN tickets : tickets[t].sprint \in DOMAIN sprints \cup {None}
    /\ deps \subseteq Tickets \X Tickets
    /\ IsTable(attachments, PartIds, Tickets) /\ IsFiniteSet(DOMAIN attachments)
    /\ IsTable(subtasks, PartIds, SubtaskRow) /\ IsFiniteSet(DOMAIN subtasks)

TypeInv == TablesTyped /\ RequestsTyped

-----------------------------------------------------------------------------
\* The await tells the shape of the request.
LEMMA Shapes ==
  ASSUME NEW r \in InFlight
  PROVE  /\ r.at = "idle" => r = Idle
         /\ r.at \in PlanningAwaits => r \in PlanningRequest
         /\ r.at \in {"count attachments", "save attachment", "count subtasks"} => r \in OnTicket
         /\ r.at \in {"write file", "unsave"} => r \in OnFile
         /\ r.at \in {"find attachment", "remove row", "unlink"} => r \in OnAttachment
         /\ r.at = "save subtask" => r \in OnNewSubtask
         /\ r.at \in {"its ticket", "resave subtask"} => r \in OnSubtask
         /\ r.at = "idle" \/ r.at \in PlanningAwaits \/ r \in PartsRequests
<1>1. CASE r = Idle
  BY <1>1 DEF Idle, PlanningAwaits, SprintAwaits, TicketAwaits, WalkAwaits
<1>2. CASE r \in PlanningRequest
  BY <1>2 DEF PlanningRequest, PlanningAwaits, SprintAwaits, TicketAwaits, WalkAwaits
<1>3. CASE r \in PartsRequests
  BY <1>3 DEF PartsRequests, OnTicket, OnFile, OnAttachment, OnNewSubtask, OnSubtask,
              PlanningAwaits, SprintAwaits, TicketAwaits, WalkAwaits
<1> QED BY <1>1, <1>2, <1>3 DEF InFlight

LEMMA OneRequest ==
  ASSUME RequestsTyped, NEW h \in Handlers, NEW r, WellFormed(r), Awaits(h, r),
         req[h].at # "idle" \/ h \in mode.handlers
  PROVE  RequestsTyped' /\ mode' = mode /\ \A g \in Handlers : req'[g] = IF g = h THEN r ELSE req[g]
  BY DEF RequestsTyped, Awaits, WellFormed

LEMMA IdleFormed == WellFormed(Idle)
  BY DEF WellFormed, InFlight, Idle, SprintAwaits, TicketAwaits, WalkAwaits

\* A step of a handler that leaves the tables alone.
LEMMA TablesAlone ==
  ASSUME TypeInv, NEW h \in Handlers, NEW r, WellFormed(r), Awaits(h, r),
         req[h].at # "idle" \/ h \in mode.handlers,
         UNCHANGED <<projects, tickets, sprints, deps, attachments, subtasks>>
  PROVE  TypeInv'
<1>1. RequestsTyped' /\ mode' = mode
  BY OneRequest DEF TypeInv
<1>2. TablesTyped'
  BY <1>1 DEF TypeInv, TablesTyped, IsTable
<1> QED BY <1>1, <1>2 DEF TypeInv

\* What a request starts from.
LEMMA BlankFormed ==
  /\ Blank \in [at : {"blank"}, ticket : {None}, target : {None}, sprint : {None},
                row : [project : {None}, sprint : {None}], saved : [project : {None}, status : SprintStatuses],
                frontier : SUBSET Tickets, seen : SUBSET Tickets]
  BY DEF Blank, SprintStatuses

LEMMA ModesGiven ==
  ASSUME mode \in Modes
  PROVE  /\ mode.handlers \subseteq Handlers /\ mode.tickets \subseteq Tickets
         /\ mode.sprints \subseteq Sprints /\ mode.projects \subseteq Projects
         /\ mode.manifest \subseteq mode.tickets
         /\ IsFiniteSet(mode.handlers) /\ Cardinality(mode.handlers) \in Nat
<1>1. /\ mode.handlers \subseteq Handlers /\ mode.tickets \subseteq Tickets
      /\ mode.sprints \subseteq Sprints /\ mode.projects \subseteq Projects /\ IsFiniteSet(Handlers)
      /\ mode.manifest \subseteq mode.tickets
  BY WorkPlanningAssumption
<1> QED BY <1>1, FS_Subset, FS_CardinalityType

\* The row create() and update() are about to check and save.
LEMMA NextRowTyped ==
  ASSUME NEW found \in TicketRow, NEW p \in Projects \cup {None, Keep}, NEW s \in Sprints \cup {None, Keep}
  PROVE  NextRow(found, p, s) \in TicketRow
  BY DEF NextRow, Given, TicketRow

LEMMA SprintedFormed ==
  ASSUME NEW t \in Tickets, NEW row \in TicketRow
  PROVE  \A at \in {"assert sprint", "save ticket"} :
            WellFormed([Blank EXCEPT !.ticket = t, !.row = row, !.at = at])
<1>1. row.sprint # Keep
  BY WorkPlanningAssumption DEF TicketRow
<1> QED BY <1>1, BlankFormed DEF WellFormed, InFlight, PlanningRequest, TicketRow, SprintRow,
           PlanningAwaits, SprintAwaits, TicketAwaits, WalkAwaits

LEMMA SprintedTyped ==
  ASSUME TypeInv, NEW h \in Handlers, req[h].at # "idle" \/ h \in mode.handlers,
         NEW t \in Tickets, NEW row \in TicketRow, Sprinted(h, t, row),
         UNCHANGED <<projects, tickets, sprints, deps, attachments, subtasks>>
  PROVE  TypeInv'
<1> DEFINE at == IF row.project # None /\ row.sprint # None THEN "assert sprint" ELSE "save ticket"
<1>1. WellFormed([Blank EXCEPT !.ticket = t, !.row = row, !.at = at])
  BY SprintedFormed
<1> QED BY <1>1, TablesAlone DEF Sprinted

LEMMA StepTyped ==
  ASSUME TypeInv, NEW h \in Handlers, Step(h), UNCHANGED parts
  PROVE  TypeInv'
<1> USE DEF parts
<1> DEFINE r == req[h]
<1>0. r \in InFlight /\ WellFormed(r) /\ (r.at # "idle" => h \in mode.handlers)
  BY DEF TypeInv, RequestsTyped, WellFormed
<1>1. r.at \in PlanningAwaits => r \in PlanningRequest
  BY <1>0, Shapes
<1> USE DEF PlanningAwaits, SprintAwaits, TicketAwaits, WalkAwaits
<1>2. CASE AssertNoActiveSprint(h)
  <2>1. WellFormed([r EXCEPT !.at = "save sprint"])
    BY <1>0, <1>1, <1>2 DEF WellFormed, PlanningRequest, InFlight, AssertNoActiveSprint
  <2> QED BY <1>2, <2>1, IdleFormed, TablesAlone DEF AssertNoActiveSprint, Ends
<1>3. CASE SaveSprint(h)
  <2>1. r \in PlanningRequest /\ r.sprint \in Sprints /\ RequestsTyped' /\ mode' = mode
    BY <1>0, <1>1, <1>3, IdleFormed, OneRequest DEF SaveSprint, Ends, WellFormed, TypeInv
  <2>2. IsTable(sprints', Sprints, SprintRow) /\ DOMAIN sprints \subseteq DOMAIN sprints'
    BY <1>3, <2>1 DEF SaveSprint, With, IsTable, TypeInv, TablesTyped, PlanningRequest
  <2> QED BY <1>3, <2>1, <2>2 DEF SaveSprint, TypeInv, TablesTyped
<1>4. CASE StudioUpdate(h)
  <2>1. r \in PlanningRequest /\ r.ticket \in Tickets
    BY <1>0, <1>1, <1>4 DEF StudioUpdate, WellFormed
  <2>2. CASE Mutable(r.ticket) /\ r.row.project \in projects
    <3>1. tickets[r.ticket] \in TicketRow /\ r.row.project \in Projects /\ r.row.sprint \in Sprints \cup {None, Keep}
      BY <2>1, <2>2 DEF Mutable, TypeInv, TablesTyped, IsTable, PlanningRequest
    <3> QED BY <1>4, <2>1, <2>2, <3>1, NextRowTyped, SprintedTyped DEF StudioUpdate
  <2> QED BY <1>4, <2>2, IdleFormed, TablesAlone DEF StudioUpdate, Ends
<1>5. CASE AssertSprint(h)
  <2>1. WellFormed([r EXCEPT !.at = "save ticket"])
    BY <1>0, <1>1, <1>5 DEF WellFormed, PlanningRequest, InFlight, AssertSprint
  <2> QED BY <1>5, <2>1, IdleFormed, TablesAlone DEF AssertSprint, Ends
<1>6. CASE SaveTicket(h)
  <2>1. r \in PlanningRequest /\ r.ticket \in Tickets /\ r.row.sprint # Keep /\ RequestsTyped' /\ mode' = mode
    BY <1>0, <1>1, <1>6, IdleFormed, OneRequest DEF SaveTicket, Ends, WellFormed, TypeInv
  <2>2. r.row \in TicketRow
    BY <2>1 DEF PlanningRequest, TicketRow
  <2>3. /\ IsTable(tickets', Tickets, TicketRow)
        /\ \A t \in DOMAIN tickets' : tickets'[t].sprint \in DOMAIN sprints \cup {None}
    BY <1>6, <2>1, <2>2 DEF SaveTicket, With, IsTable, TypeInv, TablesTyped
  <2> QED BY <1>6, <2>1, <2>3 DEF SaveTicket, TypeInv, TablesTyped
<1>7. CASE DependencyIsNew(h)
  <2>1. WellFormed([r EXCEPT !.at = "reaches", !.frontier = {r.target}])
    BY <1>0, <1>1, <1>7 DEF WellFormed, PlanningRequest, InFlight, DependencyIsNew
  <2> QED BY <1>7, <2>1, IdleFormed, TablesAlone DEF DependencyIsNew, Ends
<1>8. CASE ReachesStep(h)
  <2>1. r \in PlanningRequest /\ r.ticket \in Tickets /\ r.target \in Tickets
    BY <1>0, <1>1, <1>8 DEF ReachesStep, WellFormed
  <2>2. WellFormed([r EXCEPT !.at = "save dependency"])
    BY <2>1 DEF WellFormed, PlanningRequest, InFlight
  <2>3. ASSUME NEW current \in r.frontier
        PROVE  WellFormed([r EXCEPT !.seen = @ \cup {current},
                             !.frontier = (@ \ {current}) \cup {d[2] : d \in {e \in deps : e[1] = current}}])
    <3>1. {d[2] : d \in {e \in deps : e[1] = current}} \subseteq Tickets
      BY DEF TypeInv, TablesTyped
    <3> HIDE DEF r
    <3> QED BY <1>0, <2>1, <2>3, <3>1 DEF WellFormed, PlanningRequest, InFlight
  <2> QED BY <1>8, <2>2, <2>3, IdleFormed, TablesAlone DEF ReachesStep, Ends
<1>9. CASE SaveDependency(h)
  <2>1. r.ticket \in Tickets /\ r.target \in Tickets /\ RequestsTyped' /\ mode' = mode
    BY <1>0, <1>9, IdleFormed, OneRequest DEF SaveDependency, Ends, WellFormed, TypeInv
  <2>2. deps' \subseteq Tickets \X Tickets
    <3>1. deps \subseteq Tickets \X Tickets /\ <<r.ticket, r.target>> \in Tickets \X Tickets
      BY <2>1 DEF TypeInv, TablesTyped
    <3>2. deps' = deps \/ deps' = deps \cup {<<r.ticket, r.target>>}
      BY <1>9 DEF SaveDependency
    <3> HIDE DEF r
    <3> QED BY <3>1, <3>2
  <2> QED BY <1>9, <2>1, <2>2 DEF SaveDependency, TypeInv, TablesTyped
<1>10. CASE RemoveProject(h)
  <2>1. RequestsTyped' /\ mode' = mode
    BY <1>0, <1>10, IdleFormed, OneRequest DEF RemoveProject, Ends, TypeInv
  <2>2. IsTable(tickets', Tickets, TicketRow) /\ DOMAIN tickets' = DOMAIN tickets
        /\ \A t \in DOMAIN tickets : tickets'[t].sprint = tickets[t].sprint
    <3>1. ASSUME NEW t \in DOMAIN tickets
          PROVE  tickets'[t] \in TicketRow /\ tickets'[t].sprint = tickets[t].sprint
      <4>1. tickets[t] \in TicketRow
        BY DEF TypeInv, TablesTyped, IsTable
      <4> QED BY <1>10, <4>1 DEF RemoveProject, TicketRow
    <3> QED BY <1>10, <3>1 DEF RemoveProject, IsTable, TypeInv, TablesTyped
  <2>3. IsTable(sprints', Sprints, SprintRow) /\ DOMAIN sprints' = DOMAIN sprints
    BY <1>10 DEF RemoveProject, IsTable, TypeInv, TablesTyped, SprintRow
  <2> QED BY <1>10, <2>1, <2>2, <2>3 DEF RemoveProject, TypeInv, TablesTyped, IsTable
<1> QED BY <1>2, <1>3, <1>4, <1>5, <1>6, <1>7, <1>8, <1>9, <1>10 DEF Step

\* A document's project reaches its tickets.
LEMMA PropagationTyped ==
  ASSUME TypeInv, NEW h \in Handlers, Propagation(h), UNCHANGED parts
  PROVE  TypeInv'
<1> DEFINE r == req[h]
<1>0. r \in InFlight /\ WellFormed(r) /\ (r.at # "idle" => h \in mode.handlers)
  BY DEF TypeInv, RequestsTyped, WellFormed
<1>1. r.at \in PlanningAwaits => r \in PlanningRequest
  BY <1>0, Shapes
<1> USE DEF PlanningAwaits, parts
<1>2. RequestsTyped' /\ mode' = mode /\ r \in PlanningRequest
  BY <1>0, <1>1, IdleFormed, OneRequest DEF Propagation, AttachProject, ImportSave, Ends, TypeInv
<1>3. CASE AttachProject(h)
  <2>1. r.row.project \in Projects \cup {None}
    BY <1>2 DEF PlanningRequest
  <2>2. ASSUME NEW t \in DOMAIN tickets, tickets' # tickets
        PROVE  tickets'[t] \in TicketRow /\ tickets'[t].sprint = tickets[t].sprint
    <3>1. tickets[t] \in TicketRow
      BY DEF TypeInv, TablesTyped, IsTable
    <3> QED BY <1>3, <2>1, <2>2, <3>1 DEF AttachProject, TicketRow
  <2>3. /\ IsTable(tickets', Tickets, TicketRow) /\ DOMAIN tickets' = DOMAIN tickets
        /\ \A t \in DOMAIN tickets : tickets'[t].sprint = tickets[t].sprint
    BY <1>3, <2>2 DEF AttachProject, IsTable, TypeInv, TablesTyped
  <2> QED BY <1>2, <1>3, <2>3 DEF AttachProject, TypeInv, TablesTyped
<1>4. CASE ImportSave(h)
  <2>1. r.ticket \in Tickets /\ r.row.project \in Projects \cup {None}
    BY <1>0, <1>2, <1>4 DEF ImportSave, WellFormed, PlanningRequest
  <2> DEFINE sprint == IF r.ticket \in DOMAIN tickets THEN tickets[r.ticket].sprint ELSE None
             row == [project |-> r.row.project, sprint |-> sprint]
  <2>2. sprint \in DOMAIN sprints \cup {None} /\ DOMAIN sprints \subseteq Sprints
    BY DEF TypeInv, TablesTyped, IsTable
  <2>3. row \in TicketRow /\ row.sprint = sprint
    BY <2>1, <2>2 DEF TicketRow
  <2>4. tickets' = tickets \/ tickets' = With(tickets, r.ticket, row)
    BY <1>4 DEF ImportSave
  <2> HIDE DEF row, sprint
  <2>5. /\ IsTable(tickets', Tickets, TicketRow)
        /\ \A t \in DOMAIN tickets' : tickets'[t].sprint \in DOMAIN sprints \cup {None}
    BY <2>1, <2>2, <2>3, <2>4 DEF With, IsTable, TypeInv, TablesTyped
  <2> QED BY <1>2, <1>4, <2>5 DEF ImportSave, TypeInv, TablesTyped
<1> QED BY <1>3, <1>4 DEF Propagation

LEMMA RequestTyped ==
  ASSUME TypeInv, NEW h \in Handlers, Request(h), UNCHANGED parts
  PROVE  TypeInv'
<1> USE DEF parts
<1>0. /\ mode.handlers \subseteq Handlers /\ mode.tickets \subseteq Tickets
      /\ mode.sprints \subseteq Sprints /\ mode.projects \subseteq Projects /\ mode.manifest \subseteq mode.tickets
      /\ projects \subseteq Projects /\ deps \subseteq Tickets \X Tickets
  BY ModesGiven DEF TypeInv, TablesTyped
<1>t. \A t \in DOMAIN tickets : t \in Tickets /\ tickets[t] \in TicketRow
  BY DEF TypeInv, TablesTyped, IsTable
<1>s. \A s \in DOMAIN sprints : s \in Sprints /\ sprints[s] \in SprintRow
  BY DEF TypeInv, TablesTyped, IsTable
<1> USE DEF PlanningAwaits, SprintAwaits, TicketAwaits, WalkAwaits
<1>1. ASSUME NEW s \in mode.sprints, NEW p \in mode.projects, NEW st \in SprintStatuses, CreateSprint(h, s, p, st)
      PROVE  TypeInv'
  <2>1. \A at \in SprintAwaits :
           WellFormed([Blank EXCEPT !.at = at, !.sprint = s, !.saved = WorkSprint(p, st)])
    BY <1>0, BlankFormed DEF WellFormed, InFlight, PlanningRequest, WorkSprint, SprintRow
  <2> DEFINE at == IF st = "active" THEN "one active" ELSE "save sprint"
  <2>2. WellFormed([Blank EXCEPT !.at = at, !.sprint = s, !.saved = WorkSprint(p, st)])
    BY <2>1
  <2> QED BY <1>1, <2>2, TablesAlone DEF CreateSprint, MayStart
<1>2. ASSUME NEW s \in mode.sprints, NEW st \in SprintStatuses, UpdateSprint(h, s, st)
      PROVE  TypeInv'
  <2>0. sprints[s] \in SprintRow
    BY <1>2, <1>s DEF UpdateSprint
  <2>1. \A at \in SprintAwaits :
           WellFormed([Blank EXCEPT !.at = at, !.sprint = s, !.saved = [sprints[s] EXCEPT !.status = st]])
    BY <1>0, <2>0, BlankFormed DEF WellFormed, InFlight, PlanningRequest, SprintRow
  <2> DEFINE at == IF Activating(st, sprints[s].status) /\ sprints[s].project # None THEN "one active" ELSE "save sprint"
  <2>2. WellFormed([Blank EXCEPT !.at = at, !.sprint = s, !.saved = [sprints[s] EXCEPT !.status = st]])
    BY <2>1
  <2> QED BY <1>2, <2>2, TablesAlone DEF UpdateSprint, MayStart
<1>3. ASSUME NEW t \in mode.tickets, NEW p \in mode.projects, NEW s \in mode.sprints \cup {None}, CreateTicket(h, t, p, s)
      PROVE  TypeInv'
  <2>1. [project |-> p, sprint |-> s] \in TicketRow /\ t \in Tickets
    BY <1>0 DEF TicketRow
  <2> QED BY <1>3, <2>1, SprintedTyped DEF CreateTicket, MayStart
<1>4. ASSUME NEW t \in mode.tickets, NEW p \in mode.projects \cup {Keep}, NEW s \in mode.sprints \cup {None, Keep},
             UpdateTicket(h, t, p, s)
      PROVE  TypeInv'
  <2>1. NextRow(tickets[t], p, s) \in TicketRow /\ t \in Tickets
    BY <1>0, <1>4, <1>t, NextRowTyped DEF UpdateTicket, Mutable
  <2> QED BY <1>4, <2>1, SprintedTyped DEF UpdateTicket, MayStart
<1>5. ASSUME NEW t \in mode.tickets, NEW p \in mode.projects, StudioUpdateTask(h, t, p)
      PROVE  TypeInv'
  <2>1. \A s \in {None, Keep} :
           WellFormed([Blank EXCEPT !.at = "studio", !.ticket = t, !.row = [project |-> p, sprint |-> s]])
    BY <1>0, BlankFormed DEF WellFormed, InFlight, PlanningRequest, SprintRow
  <2> DEFINE s == IF tickets[t].sprint # None /\ tickets[t].project # p THEN None ELSE Keep
  <2>2. WellFormed([Blank EXCEPT !.at = "studio", !.ticket = t, !.row = [project |-> p, sprint |-> s]])
    BY <2>1
  <2> QED BY <1>5, <2>2, TablesAlone DEF StudioUpdateTask, MayStart
<1>6. ASSUME NEW t \in mode.tickets, NEW u \in mode.tickets, AddDependency(h, t, u)
      PROVE  TypeInv'
  <2>1. WellFormed([Blank EXCEPT !.at = "duplicate", !.ticket = t, !.target = u])
    BY <1>0, BlankFormed DEF WellFormed, InFlight, PlanningRequest, SprintRow
  <2> QED BY <1>6, <2>1, TablesAlone DEF AddDependency, MayStart
<1>7. ASSUME NEW d \in deps, RemoveDependency(h, d)
      PROVE  TypeInv'
  BY <1>0, <1>7 DEF RemoveDependency, TypeInv, TablesTyped, RequestsTyped
<1>8. ASSUME NEW p \in mode.projects, CountReferences(h, p)
      PROVE  TypeInv'
  <2>1. WellFormed([Blank EXCEPT !.at = "remove project", !.row.project = p])
    BY <1>0, BlankFormed DEF WellFormed, InFlight, PlanningRequest, SprintRow
  <2> QED BY <1>8, <2>1, TablesAlone DEF CountReferences, MayStart
<1>9. ASSUME NEW t \in mode.tickets, TouchTicket(h, t)
      PROVE  TypeInv'
  <2>1. t \in Tickets /\ tickets[t] \in TicketRow
    BY <1>9, <1>t DEF TouchTicket
  <2>2. WellFormed([Blank EXCEPT !.at = "save ticket", !.ticket = t, !.row = tickets[t]])
    BY <2>1, BlankFormed, WorkPlanningAssumption DEF WellFormed, InFlight, PlanningRequest, TicketRow, SprintRow
  <2> QED BY <1>9, <2>2, TablesAlone DEF TouchTicket, MayStart
<1>10. ASSUME NEW q \in mode.projects, UpdateReference(h, q)
       PROVE  TypeInv'
  <2>1. WellFormed([Blank EXCEPT !.at = "attach", !.row.project = q])
    BY <1>0, BlankFormed DEF WellFormed, InFlight, PlanningRequest, SprintRow
  <2> QED BY <1>10, <2>1, TablesAlone DEF UpdateReference, MayStart
<1>11. ASSUME NEW t \in mode.manifest, NEW q \in mode.projects \cup {None}, ImportItem(h, t, q)
       PROVE  TypeInv'
  <2> DEFINE found == IF t \in DOMAIN tickets THEN tickets[t].project ELSE None
             p == IF found = None THEN q ELSE found
  <2>1. p \in Projects \cup {None} /\ t \in Tickets
    BY <1>0, <1>t DEF TicketRow
  <2>2. Awaits(h, [Blank EXCEPT !.at = "import", !.ticket = t, !.row.project = p])
    BY <1>11 DEF ImportItem
  <2> HIDE DEF p
  <2>3. WellFormed([Blank EXCEPT !.at = "import", !.ticket = t, !.row.project = p])
    BY <2>1, BlankFormed DEF WellFormed, InFlight, PlanningRequest, SprintRow
  <2> QED BY <1>11, <2>2, <2>3, TablesAlone DEF ImportItem, MayStart
<1> QED BY <1>1, <1>2, <1>3, <1>4, <1>5, <1>6, <1>7, <1>8, <1>9, <1>10, <1>11 DEF Request

\* Requests on what hangs on a ticket.
LEMMA PartsFormed ==
  ASSUME NEW r \in PartsRequests
  PROVE  WellFormed(r)
<1>1. r.at \notin SprintAwaits \cup TicketAwaits \cup WalkAwaits \cup {"import"}
  BY DEF PartsRequests, OnTicket, OnFile, OnAttachment, OnNewSubtask, OnSubtask,
         SprintAwaits, TicketAwaits, WalkAwaits
<1> QED BY <1>1 DEF WellFormed, InFlight, TicketAwaits

LEMMA SubtasksCounted ==
  ASSUME IsFiniteSet(DOMAIN subtasks), NEW t
  PROVE  IsFiniteSet(SubtasksOf(t)) /\ Cardinality(SubtasksOf(t)) \in Nat
  BY FS_Subset, FS_CardinalityType DEF SubtasksOf

LEMMA AttachmentsCounted ==
  ASSUME IsFiniteSet(DOMAIN attachments), NEW t
  PROVE  IsFiniteSet(OfTicket(attachments, t)) /\ Cardinality(OfTicket(attachments, t)) \in Nat
  BY FS_Subset, FS_CardinalityType DEF OfTicket

\* Whatever a request on the parts does, it goes on as one, and the tickets stay.
LEMMA PartsMoves ==
  ASSUME TypeInv, NEW h \in Handlers, PartsRequest(h) \/ PartsStep(h)
  PROVE  /\ \E r \in PartsRequests \cup {Idle} : Awaits(h, r)
         /\ req[h].at # "idle" \/ h \in mode.handlers
         /\ req[h] \in PartsRequests \cup {Idle}
         /\ UNCHANGED tickets
<1> DEFINE r == req[h]
<1>0. /\ mode.tickets \subseteq Tickets /\ DOMAIN attachments \subseteq PartIds /\ DOMAIN subtasks \subseteq PartIds
      /\ \A id \in DOMAIN subtasks : subtasks[id] \in SubtaskRow
      /\ r \in InFlight /\ IsFiniteSet(DOMAIN subtasks)
  BY ModesGiven DEF TypeInv, TablesTyped, IsTable, RequestsTyped
<1> DEFINE Moves == \E n \in PartsRequests \cup {Idle} : Awaits(h, n)
<1>p. ASSUME NEW n \in PartsRequests \cup {Idle}, Awaits(h, n)
      PROVE  Moves
  BY <1>p
<1> HIDE DEF Moves
<1>1. CASE PartsRequest(h)
  <2>1. r = Idle /\ h \in mode.handlers /\ UNCHANGED tickets
    BY <1>0, <1>1, Shapes DEF PartsRequest, AddAttachment, RemoveAttachment, AddSubtask, UpdateSubtask, MayStart
  <2>2. ASSUME NEW t \in mode.tickets, AddAttachment(h, t)
        PROVE  Moves
    <3>1. [at |-> "count attachments", ticket |-> t] \in PartsRequests
      BY <1>0 DEF PartsRequests, OnTicket
    <3> QED BY <1>p, <2>2, <3>1 DEF AddAttachment
  <2>3. ASSUME NEW t \in mode.tickets, NEW id \in DOMAIN attachments, RemoveAttachment(h, t, id)
        PROVE  Moves
    <3>1. [at |-> "find attachment", ticket |-> t, id |-> id] \in PartsRequests
      BY <1>0 DEF PartsRequests, OnAttachment
    <3> QED BY <1>p, <2>3, <3>1 DEF RemoveAttachment
  <2>4. ASSUME NEW t \in mode.tickets, AddSubtask(h, t)
        PROVE  Moves
    <3>1. [at |-> "count subtasks", ticket |-> t] \in PartsRequests
      BY <1>0 DEF PartsRequests, OnTicket
    <3> QED BY <1>p, <2>4, <3>1 DEF AddSubtask
  <2>5. ASSUME NEW id \in DOMAIN subtasks, NEW done \in BOOLEAN, UpdateSubtask(h, id, done)
        PROVE  Moves
    <3>1. [at |-> "its ticket", id |-> id, ticket |-> subtasks[id].ticket,
           row |-> [subtasks[id] EXCEPT !.done = done]] \in PartsRequests
      BY <1>0 DEF PartsRequests, OnSubtask, SubtaskRow
    <3> QED BY <1>p, <2>5, <3>1 DEF UpdateSubtask
  <2> QED BY <1>1, <2>1, <2>2, <2>3, <2>4, <2>5 DEF PartsRequest, Moves
<1>2. CASE PartsStep(h)
  <2>1. r \in PartsRequests /\ r.at # "idle" /\ UNCHANGED tickets
    BY <1>0, <1>2, Shapes DEF PartsRequests, PartsStep, CountAttachments, SaveAttachment, WriteFile, Unsave, FindAttachment, RemoveRow,
          Unlink, CountSubtasks, SaveSubtask, ItsTicket, ResaveSubtask, At, parts
  <2> USE DEF At
  <2>2. ASSUME CountAttachments(h) \/ FindAttachment(h) \/ RemoveRow(h) \/ Unlink(h)
        PROVE  Moves
    <3>1. r.at = "count attachments" => [r EXCEPT !.at = "save attachment"] \in PartsRequests
      BY <1>0, Shapes DEF PartsRequests, OnTicket
    <3>2. r.at \in {"find attachment", "remove row"} => \A at \in {"remove row", "unlink"} : [r EXCEPT !.at = at] \in PartsRequests
      BY <1>0, Shapes DEF PartsRequests, OnAttachment
    <3> QED BY <1>p, <2>2, <3>1, <3>2 DEF CountAttachments, FindAttachment, RemoveRow, Unlink, Ends
  <2>3. ASSUME SaveAttachment(h)
        PROVE  Moves
    <3>1. \A id \in PartIds : [at |-> "write file", id |-> id] \in PartsRequests
      BY DEF PartsRequests, OnFile
    <3> QED BY <1>p, <2>3, <3>1 DEF SaveAttachment, Ends
  <2>4. ASSUME WriteFile(h) \/ Unsave(h)
        PROVE  Moves
    <3>1. r.at = "write file" => [r EXCEPT !.at = "unsave"] \in PartsRequests
      BY <1>0, Shapes DEF PartsRequests, OnFile
    <3> QED BY <1>p, <2>4, <3>1 DEF WriteFile, Unsave, Ends
  <2>5. ASSUME CountSubtasks(h)
        PROVE  Moves
    <3>1. [at |-> "save subtask", ticket |-> r.ticket, position |-> Cardinality(SubtasksOf(r.ticket))] \in PartsRequests
      BY <1>0, <2>5, Shapes, SubtasksCounted DEF PartsRequests, CountSubtasks, OnTicket, OnNewSubtask
    <3> QED BY <1>p, <2>5, <3>1 DEF CountSubtasks
  <2>6. ASSUME SaveSubtask(h) \/ ItsTicket(h) \/ ResaveSubtask(h)
        PROVE  Moves
    <3>1. r.at = "its ticket" => [r EXCEPT !.at = "resave subtask"] \in PartsRequests
      BY <1>0, Shapes DEF PartsRequests, OnSubtask
    <3> QED BY <1>p, <2>6, <3>1 DEF SaveSubtask, ItsTicket, ResaveSubtask, Ends
  <2> QED BY <1>2, <2>1, <2>2, <2>3, <2>4, <2>5, <2>6 DEF PartsStep, Moves
<1> QED BY <1>1, <1>2

LEMMA PartsTyped ==
  ASSUME TypeInv, NEW h \in Handlers, PartsRequest(h) \/ PartsStep(h), UNCHANGED <<projects, sprints, deps, propagated>>
  PROVE  TypeInv'
<1> DEFINE r == req[h]
<1>0. r \in InFlight
  BY DEF TypeInv, RequestsTyped
<1>a. IsTable(attachments, PartIds, Tickets) /\ IsFiniteSet(DOMAIN attachments)
  BY DEF TypeInv, TablesTyped
<1>s. IsTable(subtasks, PartIds, SubtaskRow) /\ IsFiniteSet(DOMAIN subtasks)
  BY DEF TypeInv, TablesTyped
<1>w. ASSUME NEW keys
      PROVE  /\ IsTable(Without(attachments, keys), PartIds, Tickets)
             /\ IsFiniteSet(DOMAIN Without(attachments, keys))
  <2>1. IsTable(Without(attachments, keys), PartIds, Tickets) /\ DOMAIN Without(attachments, keys) \subseteq DOMAIN attachments
    BY <1>a DEF IsTable, Without
  <2> QED BY <1>a, <2>1, FS_Subset
<1>r. RequestsTyped' /\ mode' = mode /\ tickets' = tickets
  BY PartsMoves, PartsFormed, IdleFormed, OneRequest DEF TypeInv
<1>t. ASSUME IsTable(attachments', PartIds, Tickets), IsFiniteSet(DOMAIN attachments'),
             IsTable(subtasks', PartIds, SubtaskRow), IsFiniteSet(DOMAIN subtasks')
      PROVE  TypeInv'
  BY <1>r, <1>t DEF TypeInv, TablesTyped
<1> USE DEF At, parts
<1>1. CASE UNCHANGED <<attachments, subtasks>>
  BY <1>1, <1>a, <1>s, <1>t
<1>2. CASE SaveAttachment(h) /\ ~UNCHANGED attachments
  <2>1. r \in OnTicket /\ r.ticket \in Tickets
    BY <1>0, <1>2, Shapes DEF SaveAttachment, OnTicket
  <2>2. PICK id \in PartIds : attachments' = With(attachments, id, r.ticket)
    BY <1>2 DEF SaveAttachment
  <2>3. IsTable(attachments', PartIds, Tickets) /\ DOMAIN attachments' = DOMAIN attachments \cup {id}
    BY <1>a, <2>1, <2>2 DEF IsTable, With
  <2>4. IsFiniteSet(DOMAIN attachments')
    BY <1>a, <2>3, FS_AddElement
  <2> QED BY <1>2, <1>s, <1>t, <2>3, <2>4 DEF SaveAttachment
<1>3. CASE Unsave(h) \/ RemoveRow(h)
  BY <1>3, <1>s, <1>t, <1>w DEF Unsave, RemoveRow
<1>4. CASE SaveSubtask(h) /\ ~UNCHANGED subtasks
  <2>1. r \in OnNewSubtask
    BY <1>0, <1>4, Shapes DEF SaveSubtask
  <2>2. PICK id \in PartIds :
           subtasks' = With(subtasks, id, [ticket |-> r.ticket, done |-> FALSE, position |-> r.position])
    BY <1>4 DEF SaveSubtask
  <2>3. IsTable(subtasks', PartIds, SubtaskRow) /\ DOMAIN subtasks' = DOMAIN subtasks \cup {id}
    BY <1>s, <2>1, <2>2 DEF IsTable, With, OnNewSubtask, SubtaskRow
  <2>4. IsFiniteSet(DOMAIN subtasks')
    BY <1>s, <2>3, FS_AddElement
  <2> QED BY <1>4, <1>a, <1>t, <2>3, <2>4 DEF SaveSubtask
<1>5. CASE ResaveSubtask(h)
  <2>1. r \in OnSubtask
    BY <1>0, <1>5, Shapes DEF ResaveSubtask
  <2>2. IsTable(subtasks', PartIds, SubtaskRow) /\ DOMAIN subtasks' \subseteq DOMAIN subtasks \cup {r.id}
    BY <1>5, <1>s, <2>1 DEF ResaveSubtask, IsTable, With, OnSubtask
  <2>3. IsFiniteSet(DOMAIN subtasks')
    BY <1>s, <2>2, FS_AddElement, FS_Subset
  <2> QED BY <1>5, <1>a, <1>t, <2>2, <2>3 DEF ResaveSubtask
<1> QED BY <1>1, <1>2, <1>3, <1>4, <1>5
        DEF PartsRequest, AddAttachment, RemoveAttachment, AddSubtask, UpdateSubtask, PartsStep, CountAttachments,
            SaveAttachment, WriteFile, FindAttachment, Unlink, CountSubtasks, SaveSubtask, ItsTicket

\* The process stops, or the board closes a ticket, or a ticket goes.
LEMMA OthersTyped ==
  ASSUME TypeInv,
         \/ Stops /\ UNCHANGED <<projects, sprints, deps, propagated>>
         \/ \E t \in mode.tickets : Close(t) /\ UNCHANGED <<projects, sprints, deps, propagated>>
         \/ \E h \in Handlers, t \in mode.tickets : RemoveTask(h, t)
  PROVE  TypeInv'
<1>1. CASE Stops /\ UNCHANGED <<projects, sprints, deps, propagated>>
  <2>1. RequestsTyped'
    BY <1>1, IdleFormed DEF Stops, RequestsTyped, WellFormed, Idle
  <2> QED BY <1>1, <2>1 DEF Stops, parts, TypeInv, TablesTyped
<1>2. ASSUME NEW t, Close(t), UNCHANGED <<projects, sprints, deps, propagated>>
      PROVE  TypeInv'
  BY <1>2 DEF Close, TypeInv, TablesTyped, RequestsTyped
<1>3. ASSUME NEW h \in Handlers, NEW t, RemoveTask(h, t)
      PROVE  TypeInv'
  <2>1. RequestsTyped'
    BY <1>3 DEF RemoveTask, TypeInv, RequestsTyped
  <2>2. /\ IsTable(tickets', Tickets, TicketRow)
        /\ \A u \in DOMAIN tickets' : tickets'[u].sprint \in DOMAIN sprints \cup {None}
    BY <1>3 DEF RemoveTask, Without, TypeInv, TablesTyped, IsTable
  <2>3. deps' \subseteq Tickets \X Tickets
    BY <1>3 DEF RemoveTask, TypeInv, TablesTyped
  <2>4. IsTable(attachments', PartIds, Tickets) /\ DOMAIN attachments' \subseteq DOMAIN attachments
    BY <1>3 DEF RemoveTask, PartsFollow, Without, TypeInv, TablesTyped, IsTable
  <2>5. IsTable(subtasks', PartIds, SubtaskRow) /\ DOMAIN subtasks' \subseteq DOMAIN subtasks
    BY <1>3 DEF RemoveTask, PartsFollow, Without, TypeInv, TablesTyped, IsTable
  <2>6. IsFiniteSet(DOMAIN attachments') /\ IsFiniteSet(DOMAIN subtasks')
    BY <2>4, <2>5, FS_Subset DEF TypeInv, TablesTyped
  <2> QED BY <1>3, <2>1, <2>2, <2>3, <2>4, <2>5, <2>6 DEF RemoveTask, TypeInv, TablesTyped
<1> QED BY <1>1, <1>2, <1>3

\* The disjuncts of Next, for a step of any kind.
LEMMA NextSplit ==
  ASSUME TypeInv, Next
  PROVE  \/ \E h \in Handlers : Request(h) /\ UNCHANGED parts /\ UNCHANGED propagated
         \/ \E h \in Handlers : Step(h) /\ UNCHANGED parts /\ UNCHANGED propagated
         \/ \E h \in Handlers : Propagation(h) /\ UNCHANGED parts
         \/ \E h \in Handlers : PartsRequest(h) /\ UNCHANGED <<projects, sprints, deps, propagated>>
         \/ \E h \in Handlers : PartsStep(h) /\ UNCHANGED <<projects, sprints, deps, propagated>>
         \/ Stops /\ UNCHANGED <<projects, sprints, deps, propagated>>
         \/ \E t \in mode.tickets : Close(t) /\ UNCHANGED <<projects, sprints, deps, propagated>>
         \/ \E h \in Handlers, t \in mode.tickets : RemoveTask(h, t)
<1>1. ASSUME NEW h \in Handlers, NEW t \in mode.tickets, NEW p \in mode.projects, CreateTicket(h, t, p, None)
      PROVE  Request(h)
  BY <1>1 DEF Request
<1> QED BY <1>1 DEF Next, PlanningNext, PartsNext

LEMMA InitTyped == Init => TypeInv
<1> SUFFICES ASSUME Init PROVE TypeInv
  OBVIOUS
<1>1. projects \subseteq Projects /\ mode \in Modes
  BY ModesGiven DEF Init
<1>2. RequestsTyped
  BY IdleFormed DEF Init, RequestsTyped, WellFormed, Idle
<1>3. IsFiniteSet({})
  BY FS_EmptySet
<1> QED BY <1>1, <1>2, <1>3 DEF Init, PartsInit, TypeInv, TablesTyped, IsTable

LEMMA NextTyped == TypeInv /\ [Next]_vars => TypeInv'
<1>1. CASE UNCHANGED vars
  BY <1>1 DEF vars, planning, parts, TypeInv, TablesTyped, RequestsTyped
<1>2. ASSUME TypeInv, Next
      PROVE  TypeInv'
  BY <1>2, NextSplit, RequestTyped, StepTyped, PropagationTyped, PartsTyped, OthersTyped
<1> QED BY <1>1, <1>2

\* Rows and requests keep their shapes, and no ticket names a sprint that is not
\* there, whatever create(), update(), the studio and removeProject() do at once.
THEOREM PlanningTyped == Spec => []TypeInv
<1> QED BY InitTyped, NextTyped, PTL DEF Spec

-----------------------------------------------------------------------------
(***************************************************************************)
(* SprintBelongsToProject.  What a handler has read may be stale when it   *)
(* saves, but projects and sprints do not come back: as long as the        *)
(* project a handler holds exists, the sprint it holds is still in it,     *)
(* unless a document's project went past it.                               *)
(***************************************************************************)
StillFits(r) ==
    /\ (r.at \in SprintAwaits /\ r.sprint \in DOMAIN sprints /\ r.saved.project \in projects \cup {None})
         => sprints[r.sprint].project = r.saved.project
    /\ (r.at = "save ticket" /\ r.ticket \notin propagated /\ r.row.project # None /\ r.row.sprint # None)
         => /\ r.row.sprint \in DOMAIN sprints
            /\ r.row.project \in projects => sprints[r.row.sprint].project = r.row.project

\* The identifier of a sprint that is not saved yet is one handler's.
DrawnOnce ==
    \A g, h \in Handlers :
        (g # h /\ req[g].at \in SprintAwaits /\ req[h].at \in SprintAwaits /\ req[g].sprint = req[h].sprint)
            => req[g].sprint \in DOMAIN sprints

SprintInv ==
    /\ SprintBelongsToProject
    /\ DrawnOnce
    /\ \A h \in Handlers : StillFits(req[h])

\* A step that leaves tickets, sprints and projects alone, and one request that
\* is not at the start of creating a sprint.
LEMMA FitsAlone ==
  ASSUME TypeInv, SprintInv, NEW h \in Handlers, NEW r, Awaits(h, r),
         UNCHANGED <<projects, tickets, sprints, propagated>>, StillFits(r),
         r.at \in SprintAwaits => (r.sprint \in DOMAIN sprints \/ (req[h].at \in SprintAwaits /\ req[h].sprint = r.sprint))
  PROVE  SprintInv'
<1>1. \A g \in Handlers : req'[g] = IF g = h THEN r ELSE req[g]
  BY DEF Awaits, TypeInv, RequestsTyped
<1>2. SprintBelongsToProject'
  BY DEF SprintInv, SprintBelongsToProject, Apart
<1>3. \A g \in Handlers : StillFits(req[g])'
  BY <1>1 DEF SprintInv, StillFits
<1>4. DrawnOnce'
  BY <1>1 DEF SprintInv, DrawnOnce
<1> QED BY <1>2, <1>3, <1>4 DEF SprintInv

LEMMA IdleAt == Idle.at = "idle"
  BY DEF Idle

LEMMA IdleFits == StillFits(Idle) /\ Idle.at \notin SprintAwaits
  BY DEF StillFits, Idle, SprintAwaits

LEMMA SprintedFits ==
  ASSUME TypeInv, SprintInv, NEW h \in Handlers, NEW t \in Tickets, NEW row \in TicketRow, Sprinted(h, t, row),
         UNCHANGED <<projects, tickets, sprints, propagated>>
  PROVE  SprintInv'
<1> DEFINE at == IF row.project # None /\ row.sprint # None THEN "assert sprint" ELSE "save ticket"
           r == [Blank EXCEPT !.ticket = t, !.row = row, !.at = at]
<1>1. StillFits(r) /\ r.at \notin SprintAwaits /\ Awaits(h, r)
  BY DEF StillFits, Blank, SprintAwaits, Sprinted
<1> HIDE DEF r
<1> QED BY <1>1, FitsAlone

LEMMA SprintRequests ==
  ASSUME TypeInv, SprintInv, NEW h \in Handlers, Request(h), UNCHANGED propagated
  PROVE  SprintInv'
<1>0. /\ mode.tickets \subseteq Tickets /\ mode.projects \subseteq Projects /\ mode.sprints \subseteq Sprints
  BY ModesGiven DEF TypeInv, TablesTyped
<1>t. \A t \in DOMAIN tickets : t \in Tickets /\ tickets[t] \in TicketRow
  BY DEF TypeInv, TablesTyped, IsTable
<1>q. \A g \in Handlers : req[g] \in InFlight
  BY DEF TypeInv, RequestsTyped
<1>1. ASSUME NEW s \in mode.sprints, NEW p \in mode.projects, NEW st \in SprintStatuses, CreateSprint(h, s, p, st)
      PROVE  SprintInv'
  <2> DEFINE at == IF st = "active" THEN "one active" ELSE "save sprint"
             r == [Blank EXCEPT !.at = at, !.sprint = s, !.saved = WorkSprint(p, st)]
  <2>1. r.at \in SprintAwaits /\ r.sprint = s /\ r.saved.project = p /\ Awaits(h, r) /\ s \notin DOMAIN sprints
    BY <1>1 DEF Blank, WorkSprint, SprintAwaits, CreateSprint, Fresh
  <2>2. UNCHANGED <<projects, tickets, sprints>>
    BY <1>1 DEF CreateSprint
  <2>3. ASSUME NEW g \in Handlers, req[g].at \in SprintAwaits
        PROVE  req[g].sprint # s
    <3>1. req[g] \in PlanningRequest
      BY <1>q, <2>3, Shapes DEF PlanningAwaits
    <3>2. "sprint" \in DOMAIN req[g]
      BY <3>1 DEF PlanningRequest
    <3> QED BY <1>1, <3>2 DEF CreateSprint, Fresh
  <2> HIDE DEF r
  <2>4. \A g \in Handlers : req'[g] = IF g = h THEN r ELSE req[g]
    BY <2>1 DEF Awaits, TypeInv, RequestsTyped
  <2>5. SprintBelongsToProject'
    BY <2>2 DEF SprintInv, SprintBelongsToProject, Apart
  <2>6. \A g \in Handlers : StillFits(req[g])'
    BY <2>1, <2>2, <2>4 DEF SprintInv, StillFits, SprintAwaits
  <2>7. DrawnOnce'
    BY <2>1, <2>2, <2>3, <2>4 DEF SprintInv, DrawnOnce
  <2> QED BY <2>5, <2>6, <2>7 DEF SprintInv
<1>2. ASSUME NEW s \in mode.sprints, NEW st \in SprintStatuses, UpdateSprint(h, s, st)
      PROVE  SprintInv'
  <2> DEFINE at == IF Activating(st, sprints[s].status) /\ sprints[s].project # None THEN "one active" ELSE "save sprint"
             r == [Blank EXCEPT !.at = at, !.sprint = s, !.saved = [sprints[s] EXCEPT !.status = st]]
  <2>0. s \in DOMAIN sprints /\ sprints[s] \in SprintRow
    BY <1>2 DEF UpdateSprint, TypeInv, TablesTyped, IsTable
  <2>1. r.at \in SprintAwaits /\ r.sprint = s /\ r.saved.project = sprints[s].project /\ Awaits(h, r)
    BY <1>2, <2>0 DEF Blank, SprintRow, SprintAwaits, UpdateSprint
  <2> HIDE DEF r
  <2>2. StillFits(r)
    BY <2>1 DEF StillFits, SprintAwaits
  <2> QED BY <1>2, <2>0, <2>1, <2>2, FitsAlone DEF UpdateSprint
<1>3. ASSUME NEW t \in mode.tickets, NEW p \in mode.projects, NEW s \in mode.sprints \cup {None}, CreateTicket(h, t, p, s)
      PROVE  SprintInv'
  <2>1. [project |-> p, sprint |-> s] \in TicketRow /\ t \in Tickets
    BY <1>0 DEF TicketRow
  <2> QED BY <1>3, <2>1, SprintedFits DEF CreateTicket
<1>4. ASSUME NEW t \in mode.tickets, NEW p \in mode.projects \cup {Keep}, NEW s \in mode.sprints \cup {None, Keep},
             UpdateTicket(h, t, p, s)
      PROVE  SprintInv'
  <2>1. NextRow(tickets[t], p, s) \in TicketRow /\ t \in Tickets
    BY <1>0, <1>4, <1>t, NextRowTyped DEF UpdateTicket, Mutable
  <2> QED BY <1>4, <2>1, SprintedFits DEF UpdateTicket
<1>5. ASSUME NEW r, Awaits(h, r), r.at \notin SprintAwaits \cup {"save ticket"}, UNCHANGED <<projects, tickets, sprints>>
      PROVE  SprintInv'
  BY <1>5, FitsAlone DEF StillFits
<1>6. ASSUME NEW t \in mode.tickets, NEW p \in mode.projects, StudioUpdateTask(h, t, p)
      PROVE  SprintInv'
  <2> DEFINE s == IF tickets[t].sprint # None /\ tickets[t].project # p THEN None ELSE Keep
             r == [Blank EXCEPT !.at = "studio", !.ticket = t, !.row = [project |-> p, sprint |-> s]]
  <2>1. r.at = "studio" /\ Awaits(h, r)
    BY <1>6 DEF Blank, StudioUpdateTask
  <2> HIDE DEF r
  <2> QED BY <1>5, <1>6, <2>1 DEF StudioUpdateTask, SprintAwaits
<1>7. ASSUME NEW t \in mode.tickets, NEW u \in mode.tickets, AddDependency(h, t, u)
      PROVE  SprintInv'
  <2> DEFINE r == [Blank EXCEPT !.at = "duplicate", !.ticket = t, !.target = u]
  <2>1. r.at = "duplicate" /\ Awaits(h, r)
    BY <1>7 DEF Blank, AddDependency
  <2> HIDE DEF r
  <2> QED BY <1>5, <1>7, <2>1 DEF AddDependency, SprintAwaits
<1>8. ASSUME NEW d \in deps, RemoveDependency(h, d)
      PROVE  SprintInv'
  BY <1>8 DEF RemoveDependency, SprintInv, SprintBelongsToProject, Apart, DrawnOnce, StillFits
<1>9. ASSUME NEW p \in mode.projects, CountReferences(h, p)
      PROVE  SprintInv'
  <2> DEFINE r == [Blank EXCEPT !.at = "remove project", !.row.project = p]
  <2>1. r.at = "remove project" /\ Awaits(h, r)
    BY <1>9 DEF Blank, CountReferences
  <2> HIDE DEF r
  <2> QED BY <1>5, <1>9, <2>1 DEF CountReferences, SprintAwaits
<1>10. ASSUME NEW t \in mode.tickets, TouchTicket(h, t)
       PROVE  SprintInv'
  <2> DEFINE r == [Blank EXCEPT !.at = "save ticket", !.ticket = t, !.row = tickets[t]]
  <2>1. r.at = "save ticket" /\ r.ticket = t /\ r.row = tickets[t] /\ Awaits(h, r)
    BY <1>10 DEF Blank, TouchTicket
  <2> HIDE DEF r
  <2>2. t \in DOMAIN tickets /\ tickets[t].sprint \in DOMAIN sprints \cup {None} /\ (Apart(tickets[t]) => t \in propagated)
    BY <1>10 DEF TouchTicket, TypeInv, TablesTyped, SprintInv, SprintBelongsToProject
  <2>3. StillFits(r) /\ r.at \notin SprintAwaits
    BY <2>1, <2>2 DEF StillFits, Apart, SprintAwaits
  <2> QED BY <1>10, <2>1, <2>3, FitsAlone DEF TouchTicket
<1>11. ASSUME NEW q, UpdateReference(h, q)
       PROVE  SprintInv'
  <2> DEFINE r == [Blank EXCEPT !.at = "attach", !.row.project = q]
  <2>1. r.at = "attach" /\ Awaits(h, r)
    BY <1>11 DEF Blank, UpdateReference
  <2> HIDE DEF r
  <2> QED BY <1>5, <1>11, <2>1 DEF UpdateReference, SprintAwaits
<1>12. ASSUME NEW t, NEW q, ImportItem(h, t, q)
       PROVE  SprintInv'
  <2> DEFINE found == IF t \in DOMAIN tickets THEN tickets[t].project ELSE None
             r == [Blank EXCEPT !.at = "import", !.ticket = t, !.row.project = IF found = None THEN q ELSE found]
  <2>1. r.at = "import" /\ Awaits(h, r)
    BY <1>12 DEF Blank, ImportItem
  <2> HIDE DEF r
  <2> QED BY <1>5, <1>12, <2>1 DEF ImportItem, SprintAwaits
<1> QED BY <1>1, <1>2, <1>3, <1>4, <1>6, <1>7, <1>8, <1>9, <1>10, <1>11, <1>12 DEF Request

LEMMA SprintSteps ==
  ASSUME TypeInv, SprintInv, NEW h \in Handlers, Step(h), UNCHANGED propagated
  PROVE  SprintInv'
<1> DEFINE r == req[h]
<1>0. r \in InFlight /\ WellFormed(r) /\ StillFits(r) /\ (r.at \in PlanningAwaits => r \in PlanningRequest)
  BY Shapes DEF TypeInv, RequestsTyped, SprintInv
<1>e. ASSUME Ends(h)
      PROVE  \A g \in Handlers : req'[g] = IF g = h THEN Idle ELSE req[g]
  BY <1>e DEF Ends, Awaits, TypeInv, RequestsTyped
<1>i. ASSUME Ends(h), UNCHANGED <<projects, tickets, sprints>>
      PROVE  SprintInv'
  BY <1>i, IdleFits, FitsAlone DEF Ends
<1> USE DEF PlanningAwaits, SprintAwaits, TicketAwaits, WalkAwaits
<1>1. CASE AssertNoActiveSprint(h)
  <2> DEFINE next == [r EXCEPT !.at = "save sprint"]
  <2>1. r \in PlanningRequest /\ next.at = "save sprint" /\ next.sprint = r.sprint /\ next.saved = r.saved
    BY <1>0, <1>1 DEF AssertNoActiveSprint, PlanningRequest
  <2>2. StillFits(next)
    BY <1>0, <1>1, <2>1 DEF AssertNoActiveSprint, StillFits
  <2>3. CASE Awaits(h, next)
    <3> HIDE DEF next
    <3> QED BY <1>1, <2>1, <2>2, <2>3, FitsAlone DEF AssertNoActiveSprint
  <2> QED BY <1>1, <1>i, <2>3 DEF AssertNoActiveSprint
<1>2. CASE SaveSprint(h)
  <2>1. r \in PlanningRequest /\ r.at = "save sprint" /\ Ends(h) /\ projects' = projects /\ tickets' = tickets
    BY <1>0, <1>2 DEF SaveSprint
  <2>2. CASE sprints' = sprints
    BY <1>i, <2>1, <2>2
  <2>3. CASE /\ ProjectExists(r.saved.project) /\ sprints' = With(sprints, r.sprint, r.saved)
    <3>1. /\ DOMAIN sprints' = DOMAIN sprints \cup {r.sprint}
          /\ \A s \in DOMAIN sprints' : sprints'[s] = IF s = r.sprint THEN r.saved ELSE sprints[s]
      BY <2>3 DEF With
    <3>2. \A s \in DOMAIN sprints : sprints'[s].project = sprints[s].project
      BY <1>0, <2>1, <2>3, <3>1 DEF StillFits, ProjectExists
    <3>3. SprintBelongsToProject'
      BY <2>1, <3>2 DEF SprintInv, SprintBelongsToProject, Apart, TypeInv, TablesTyped
    <3>4. \A g \in Handlers : StillFits(req[g])'
      <4>1. ASSUME NEW g \in Handlers, g # h, req[g].at \in SprintAwaits, req[g].sprint \in DOMAIN sprints'
            PROVE  req[g].sprint \in DOMAIN sprints
        BY <2>1, <3>1, <4>1 DEF SprintInv, DrawnOnce
      <4>2. ASSUME NEW g \in Handlers, g # h
            PROVE  StillFits(req[g])'
        <5>1. req'[g] = req[g] /\ StillFits(req[g])
          BY <1>e, <2>1, <4>2 DEF SprintInv
        <5> QED BY <2>1, <3>1, <3>2, <4>1, <4>2, <5>1 DEF StillFits
      <4>3. StillFits(req[h])'
        BY <1>e, <2>1, IdleAt DEF StillFits
      <4> QED BY <4>2, <4>3
    <3>5. DrawnOnce'
      BY <1>e, <2>1, <3>1, IdleFits DEF SprintInv, DrawnOnce
    <3> QED BY <3>3, <3>4, <3>5 DEF SprintInv
  <2> QED BY <1>2, <2>2, <2>3 DEF SaveSprint
<1>3. CASE StudioUpdate(h)
  <2>1. r \in PlanningRequest /\ r.ticket \in Tickets
    BY <1>0, <1>3 DEF StudioUpdate, WellFormed
  <2>2. CASE Mutable(r.ticket) /\ r.row.project \in projects
    <3>1. tickets[r.ticket] \in TicketRow /\ r.row.project \in Projects /\ r.row.sprint \in Sprints \cup {None, Keep}
      BY <2>1, <2>2 DEF Mutable, TypeInv, TablesTyped, IsTable, PlanningRequest
    <3> QED BY <1>3, <2>1, <2>2, <3>1, NextRowTyped, SprintedFits DEF StudioUpdate
  <2> QED BY <1>3, <1>i, <2>2 DEF StudioUpdate
<1>4. CASE AssertSprint(h)
  <2> DEFINE next == [r EXCEPT !.at = "save ticket"]
  <2>1. r \in PlanningRequest /\ next.at = "save ticket" /\ next.row = r.row
    BY <1>0, <1>4 DEF AssertSprint, PlanningRequest
  <2>2. CASE SprintFits(r.row) /\ Awaits(h, next)
    <3>1. StillFits(next)
      BY <2>1, <2>2 DEF StillFits, SprintFits
    <3> HIDE DEF next
    <3> QED BY <1>4, <2>1, <2>2, <3>1, FitsAlone DEF AssertSprint
  <2> QED BY <1>4, <1>i, <2>2 DEF AssertSprint
<1>5. CASE SaveTicket(h)
  <2>1. r \in PlanningRequest /\ r.at = "save ticket" /\ Ends(h) /\ projects' = projects /\ sprints' = sprints
    BY <1>0, <1>5 DEF SaveTicket
  <2>2. CASE tickets' = tickets
    BY <1>i, <2>1, <2>2
  <2>3. CASE ProjectExists(r.row.project) /\ tickets' = With(tickets, r.ticket, r.row)
    <3>1. SprintBelongsToProject'
      BY <1>0, <2>1, <2>3 DEF With, StillFits, ProjectExists, SprintInv, SprintBelongsToProject, Apart
    <3>2. \A g \in Handlers : StillFits(req[g])'
      BY <1>e, <2>1, IdleFits DEF SprintInv, StillFits
    <3>3. DrawnOnce'
      BY <1>e, <2>1, IdleFits DEF SprintInv, DrawnOnce
    <3> QED BY <3>1, <3>2, <3>3 DEF SprintInv
  <2> QED BY <1>5, <2>2, <2>3 DEF SaveTicket
<1>6. CASE DependencyIsNew(h)
  <2> DEFINE next == [r EXCEPT !.at = "reaches", !.frontier = {r.target}]
  <2>1. StillFits(next) /\ next.at \notin SprintAwaits
    BY <1>0, <1>6 DEF DependencyIsNew, PlanningRequest, StillFits
  <2>2. CASE Awaits(h, next)
    <3> HIDE DEF next
    <3> QED BY <1>6, <2>1, <2>2, FitsAlone DEF DependencyIsNew
  <2> QED BY <1>6, <1>i, <2>2 DEF DependencyIsNew
<1>7. CASE ReachesStep(h)
  <2>1. r \in PlanningRequest /\ r.at = "reaches"
    BY <1>0, <1>7 DEF ReachesStep
  <2>2. ASSUME NEW frontier, NEW seen
        PROVE  LET next == [r EXCEPT !.seen = seen, !.frontier = frontier]
               IN  StillFits(next) /\ next.at \notin SprintAwaits
    BY <2>1 DEF PlanningRequest, StillFits
  <2>3. LET next == [r EXCEPT !.at = "save dependency"]
        IN  StillFits(next) /\ next.at \notin SprintAwaits
    BY <2>1 DEF PlanningRequest, StillFits
  <2> HIDE DEF r
  <2>4. ASSUME NEW next, StillFits(next), next.at \notin SprintAwaits, Awaits(h, next)
        PROVE  SprintInv'
    BY <1>7, <2>4, FitsAlone DEF ReachesStep
  <2> QED BY <1>7, <1>i, <2>2, <2>3, <2>4 DEF ReachesStep, r
<1>8. CASE SaveDependency(h)
  BY <1>8, <1>i DEF SaveDependency
<1>9. CASE RemoveProject(h)
  <2> DEFINE p == r.row.project
  <2>1. Ends(h) /\ projects' = projects \ {p}
    BY <1>9 DEF RemoveProject
  <2>2. /\ DOMAIN tickets' = DOMAIN tickets /\ DOMAIN sprints' = DOMAIN sprints
        /\ \A t \in DOMAIN tickets : /\ tickets'[t].sprint = tickets[t].sprint
                                     /\ tickets'[t].project = IF tickets[t].project = p THEN None ELSE tickets[t].project
    <3>1. ASSUME NEW t \in DOMAIN tickets
          PROVE  /\ tickets'[t].sprint = tickets[t].sprint
                 /\ tickets'[t].project = IF tickets[t].project = p THEN None ELSE tickets[t].project
      <4>1. tickets[t] \in TicketRow
        BY DEF TypeInv, TablesTyped, IsTable
      <4> QED BY <1>9, <4>1 DEF RemoveProject, TicketRow
    <3> QED BY <1>9, <3>1 DEF RemoveProject
  <2>3. \A s \in DOMAIN sprints : sprints'[s].project = IF sprints[s].project = p THEN None ELSE sprints[s].project
    <3>1. ASSUME NEW s \in DOMAIN sprints
          PROVE  sprints'[s].project = IF sprints[s].project = p THEN None ELSE sprints[s].project
      <4>1. sprints[s] \in SprintRow
        BY DEF TypeInv, TablesTyped, IsTable
      <4> QED BY <1>9, <4>1 DEF RemoveProject, SprintRow
    <3> QED BY <3>1
  <2> HIDE DEF p
  <2>4. SprintBelongsToProject'
    BY <2>2, <2>3 DEF SprintInv, SprintBelongsToProject, Apart, TypeInv, TablesTyped
  <2>5. \A g \in Handlers : StillFits(req[g])'
    <3>1. ASSUME NEW g \in Handlers, g # h
          PROVE  StillFits(req[g])'
      <4>1. req'[g] = req[g] /\ StillFits(req[g])
        BY <1>e, <2>1, <3>1 DEF SprintInv
      <4> QED BY <2>1, <2>2, <2>3, <4>1 DEF StillFits
    <3>2. StillFits(req[h])'
      BY <1>e, <2>1, IdleAt DEF StillFits
    <3> QED BY <3>1, <3>2
  <2>6. DrawnOnce'
    BY <1>e, <2>1, <2>2, IdleFits DEF SprintInv, DrawnOnce
  <2> QED BY <2>4, <2>5, <2>6 DEF SprintInv
<1> QED BY <1>1, <1>2, <1>3, <1>4, <1>5, <1>6, <1>7, <1>8, <1>9 DEF Step

\* A document's project goes past the sprints, and it is remembered to whom.
LEMMA SprintPropagation ==
  ASSUME TypeInv, SprintInv, NEW h \in Handlers, Propagation(h)
  PROVE  SprintInv'
<1>1. UNCHANGED <<projects, sprints>> /\ Ends(h) /\ propagated' = propagated \cup {t \in DOMAIN tickets' : Apart(tickets'[t])}
  BY DEF Propagation, AttachProject, ImportSave
<1>2. \A g \in Handlers : req'[g] = IF g = h THEN Idle ELSE req[g]
  BY <1>1 DEF Ends, Awaits, TypeInv, RequestsTyped
<1>3. SprintBelongsToProject'
  BY <1>1 DEF SprintBelongsToProject, Apart
<1>4. \A g \in Handlers : StillFits(req[g])'
  BY <1>1, <1>2, IdleFits, IdleAt DEF SprintInv, StillFits
<1>5. DrawnOnce'
  BY <1>1, <1>2, IdleFits DEF SprintInv, DrawnOnce
<1> QED BY <1>3, <1>4, <1>5 DEF SprintInv

LEMMA SprintOthers ==
  ASSUME TypeInv, SprintInv,
         \/ \E h \in Handlers : PartsRequest(h) /\ UNCHANGED <<projects, sprints, deps, propagated>>
         \/ \E h \in Handlers : PartsStep(h) /\ UNCHANGED <<projects, sprints, deps, propagated>>
         \/ Stops /\ UNCHANGED <<projects, sprints, deps, propagated>>
         \/ \E t \in mode.tickets : Close(t) /\ UNCHANGED <<projects, sprints, deps, propagated>>
         \/ \E h \in Handlers, t \in mode.tickets : RemoveTask(h, t)
  PROVE  SprintInv'
<1>1. ASSUME NEW h \in Handlers, NEW r \in PartsRequests \cup {Idle}, Awaits(h, r), UNCHANGED <<projects, tickets, sprints, propagated>>
      PROVE  SprintInv'
  <2>1. r.at \notin SprintAwaits /\ r.at # "save ticket"
    BY IdleAt DEF PartsRequests, OnTicket, OnFile, OnAttachment, OnNewSubtask, OnSubtask, SprintAwaits
  <2> QED BY <1>1, <2>1, FitsAlone DEF StillFits
<1>2. ASSUME NEW h \in Handlers, PartsRequest(h) \/ PartsStep(h), UNCHANGED <<projects, sprints, deps, propagated>>
      PROVE  SprintInv'
  BY <1>1, <1>2, PartsMoves
<1>3. CASE Stops /\ UNCHANGED <<projects, sprints, deps, propagated>>
  <2>1. UNCHANGED <<projects, tickets, sprints, propagated>> /\ \A h \in Handlers : req'[h] = Idle
    BY <1>3 DEF Stops
  <2>2. SprintBelongsToProject'
    BY <2>1 DEF SprintInv, SprintBelongsToProject, Apart
  <2> QED BY <2>1, <2>2, IdleAt DEF SprintInv, DrawnOnce, StillFits, SprintAwaits
<1>4. ASSUME NEW t, Close(t), UNCHANGED <<projects, sprints, deps, propagated>>
      PROVE  SprintInv'
  BY <1>4 DEF Close, SprintInv, SprintBelongsToProject, Apart, DrawnOnce, StillFits
<1>5. ASSUME NEW h \in Handlers, NEW t, RemoveTask(h, t)
      PROVE  SprintInv'
  <2>1. UNCHANGED <<projects, sprints, req, propagated>> /\ DOMAIN tickets' \subseteq DOMAIN tickets
        /\ \A u \in DOMAIN tickets' : tickets'[u] = tickets[u]
    BY <1>5 DEF RemoveTask, Without
  <2> QED BY <2>1 DEF SprintInv, SprintBelongsToProject, Apart, DrawnOnce, StillFits
<1> QED BY <1>2, <1>3, <1>4, <1>5

LEMMA InitSprints == Init => SprintInv
<1> SUFFICES ASSUME Init PROVE SprintInv
  OBVIOUS
<1>1. \A h \in Handlers : req[h].at = "idle"
  BY IdleAt DEF Init
<1>2. DOMAIN tickets = {}
  BY DEF Init
<1> QED BY <1>1, <1>2 DEF SprintInv, SprintBelongsToProject, Apart, DrawnOnce, StillFits, SprintAwaits

LEMMA NextSprints == TypeInv /\ SprintInv /\ [Next]_vars => SprintInv'
<1>1. CASE UNCHANGED vars
  BY <1>1 DEF vars, planning, parts, SprintInv, SprintBelongsToProject, Apart, DrawnOnce, StillFits
<1>2. ASSUME TypeInv, SprintInv, Next
      PROVE  SprintInv'
  BY <1>2, NextSplit, SprintRequests, SprintSteps, SprintPropagation, SprintOthers
<1> QED BY <1>1, <1>2

\* A ticket that is in a sprint and in a project is in a sprint of its project,
\* unless a reference document's project was written past its sprint: create(),
\* update(), the studio's move, saves of what was read, updateSprint() and
\* removeProject() overlap in any order, each with what it read before its await.
THEOREM SprintsKept == Spec => []SprintBelongsToProject
<1>1. SprintInv => SprintBelongsToProject
  BY DEF SprintInv
<1> QED BY <1>1, InitSprints, NextSprints, PlanningTyped, PTL DEF Spec

-----------------------------------------------------------------------------
(***************************************************************************)
(* NoTicketWaitsForItself.  When reaches() ends without having met the     *)
(* ticket, what it has seen is closed under the dependencies, holds the    *)
(* target and not the ticket: the edge that is then saved closes no loop.  *)
(***************************************************************************)

DependsOn(t) == {d[2] : d \in {e \in deps : e[1] = t}}

\* What a ticket reaches is itself one of the sets Reachable ranges over.
LEMMA ReachableClosed ==
  ASSUME deps \subseteq Tickets \X Tickets, NEW t \in Tickets
  PROVE  /\ Reachable(t) \in SUBSET Tickets
         /\ ClosedUnder(deps, Reachable(t))
         /\ DependsOn(t) \subseteq Reachable(t)
<1>1. ASSUME NEW d \in deps
      PROVE  d[1] \in Tickets /\ d[2] \in Tickets
  OBVIOUS
<1>2. ClosedUnder(deps, Reachable(t))
  BY <1>1 DEF Reachable, ClosedUnder
<1>3. DependsOn(t) \subseteq Reachable(t)
  BY <1>1 DEF Reachable, DependsOn
<1> QED BY <1>2, <1>3 DEF Reachable

LEMMA ReachableLeast ==
  ASSUME NEW t \in Tickets, NEW C \in SUBSET Tickets, ClosedUnder(deps, C), DependsOn(t) \subseteq C
  PROVE  Reachable(t) \subseteq C
  BY DEF Reachable, DependsOn

LEMMA FewerEdges ==
  ASSUME deps' \subseteq deps, NEW t \in Tickets
  PROVE  Reachable(t)' \subseteq Reachable(t)
<1> SUFFICES ASSUME NEW u \in Reachable(t)', NEW C \in SUBSET Tickets, ClosedUnder(deps, C), DependsOn(t) \subseteq C
             PROVE  u \in C
  BY DEF Reachable, DependsOn
<1>1. ClosedUnder(deps', C) /\ {d[2] : d \in {e \in deps' : e[1] = t}} \subseteq C
  BY DEF ClosedUnder, DependsOn
<1> QED BY <1>1 DEF Reachable

LEMMA NewEdge ==
  ASSUME deps \subseteq Tickets \X Tickets, \A t \in Tickets : t \notin Reachable(t),
         NEW a \in Tickets, NEW b \in Tickets, deps' = deps \cup {<<a, b>>},
         NEW S \in SUBSET Tickets, ClosedUnder(deps, S), b \in S, a \notin S,
         NEW t \in Tickets
  PROVE  t \notin Reachable(t)'
<1> DEFINE D == Reachable(t)
<1>1. D \in SUBSET Tickets /\ ClosedUnder(deps, D) /\ DependsOn(t) \subseteq D /\ t \notin D
  BY ReachableClosed
<1>2. ASSUME NEW C \in SUBSET Tickets, ClosedUnder(deps, C), a \in C => b \in C,
             DependsOn(t) \subseteq C, a = t => b \in C, t \notin C
      PROVE  t \notin Reachable(t)'
  <2>1. ClosedUnder(deps', C)
    BY <1>2 DEF ClosedUnder
  <2>2. {d[2] : d \in {e \in deps' : e[1] = t}} \subseteq C
    BY <1>2 DEF DependsOn
  <2> QED BY <1>2, <2>1, <2>2 DEF Reachable
<1> HIDE DEF D
<1>3. CASE a # t /\ a \notin D
  BY <1>1, <1>2, <1>3
<1>4. CASE a = t \/ a \in D
  <2>1. D \cup S \in SUBSET Tickets /\ ClosedUnder(deps, D \cup S) /\ b \in D \cup S /\ DependsOn(t) \subseteq D \cup S
    BY <1>1 DEF ClosedUnder
  <2>2. t \notin S
    <3>1. CASE a = t
      BY <3>1
    <3>2. CASE a \in D /\ t \in S
      <4>1. DependsOn(t) \subseteq S
        BY <3>2 DEF ClosedUnder, DependsOn
      <4>2. D \subseteq S
        BY <4>1, ReachableLeast DEF D
      <4> QED BY <3>2, <4>2
    <3> QED BY <1>4, <3>1, <3>2
  <2> QED BY <1>1, <1>2, <2>1, <2>2
<1> QED BY <1>3, <1>4

\* A walk: what it has seen is passed on, and the ticket is not among it.
WalkSound(r) ==
    /\ r.at = "duplicate" => r.seen = {}
    /\ r.at \in {"reaches", "save dependency"} =>
         /\ r.target \in r.seen \cup r.frontier /\ r.ticket \notin r.seen
         /\ \A d \in deps : d[1] \in r.seen => d[2] \in r.seen \cup r.frontier
    /\ r.at = "save dependency" => r.frontier \subseteq r.seen

WalkInv == Orderly => (\A t \in Tickets : t \notin Reachable(t)) /\ \A h \in Handlers : WalkSound(req[h])

\* One request at a time: the others are idle.
LEMMA OthersIdle ==
  ASSUME TypeInv, Orderly, NEW h \in mode.handlers
  PROVE  \A g \in Handlers : g # h => req[g].at = "idle"
<1>1. PICK x : mode.handlers = {x}
  BY ModesGiven, FS_Singleton DEF TypeInv, TablesTyped, Orderly
<1> QED BY <1>1 DEF TypeInv, RequestsTyped

LEMMA WalkAlone ==
  ASSUME TypeInv, WalkInv, NEW h \in Handlers, NEW r, Awaits(h, r), UNCHANGED deps, Orderly => WalkSound(r)
  PROVE  WalkInv'
<1>1. mode' = mode /\ \A g \in Handlers : req'[g] = IF g = h THEN r ELSE req[g]
  BY DEF Awaits, TypeInv, RequestsTyped
<1>2. Orderly' = Orderly
  BY <1>1 DEF Orderly
<1>3. \A t : Reachable(t)' = Reachable(t)
  BY DEF Reachable
<1>4. Orderly => \A g \in Handlers : WalkSound(req[g])'
  BY <1>1 DEF WalkInv, WalkSound
<1> QED BY <1>2, <1>3, <1>4 DEF WalkInv

LEMMA NotWalking ==
  ASSUME NEW r, r.at \notin WalkAwaits
  PROVE  WalkSound(r)
  BY DEF WalkSound, WalkAwaits

\* Edges go while nothing is under way.
LEMMA EdgesGo ==
  ASSUME TypeInv, WalkInv, NEW h \in Handlers, MayStart(h), deps' \subseteq deps, UNCHANGED <<mode, req>>
  PROVE  WalkInv'
<1>1. Orderly' = Orderly
  BY DEF Orderly
<1>2. Orderly => \A g \in Handlers : req'[g].at = "idle"
  BY OthersIdle DEF MayStart
<1>3. Orderly => \A g \in Handlers : WalkSound(req[g])'
  BY <1>2 DEF WalkSound
<1>4. Orderly => \A t \in Tickets : t \notin Reachable(t)'
  BY FewerEdges DEF WalkInv
<1> QED BY <1>1, <1>3, <1>4 DEF WalkInv

LEMMA WalkRequests ==
  ASSUME TypeInv, WalkInv, NEW h \in Handlers, Request(h)
  PROVE  WalkInv'
<1> USE DEF WalkAwaits
<1>1. ASSUME NEW r, Awaits(h, r), r.at \notin WalkAwaits, UNCHANGED deps
      PROVE  WalkInv'
  BY <1>1, NotWalking, WalkAlone
<1>2. ASSUME NEW d \in deps, RemoveDependency(h, d)
      PROVE  WalkInv'
  BY <1>2, EdgesGo DEF RemoveDependency
<1>3. ASSUME NEW t, NEW row, Sprinted(h, t, row), UNCHANGED deps
      PROVE  WalkInv'
  <2> DEFINE r == [Blank EXCEPT !.ticket = t, !.row = row,
                     !.at = IF row.project # None /\ row.sprint # None THEN "assert sprint" ELSE "save ticket"]
  <2>1. r.at \in {"assert sprint", "save ticket"} /\ Awaits(h, r)
    BY <1>3, BlankFormed DEF Sprinted
  <2> HIDE DEF r
  <2> QED BY <1>1, <1>3, <2>1
<1>4. ASSUME NEW s, NEW p, NEW st, CreateSprint(h, s, p, st)
      PROVE  WalkInv'
  <2> DEFINE r == [Blank EXCEPT !.at = IF st = "active" THEN "one active" ELSE "save sprint",
                     !.sprint = s, !.saved = WorkSprint(p, st)]
  <2>1. r.at \in SprintAwaits /\ Awaits(h, r) /\ UNCHANGED deps
    BY <1>4, BlankFormed DEF CreateSprint, SprintAwaits
  <2> HIDE DEF r
  <2> QED BY <1>1, <2>1 DEF SprintAwaits
<1>5. ASSUME NEW s, NEW st, UpdateSprint(h, s, st)
      PROVE  WalkInv'
  <2> DEFINE r == [Blank EXCEPT
                     !.at = IF Activating(st, sprints[s].status) /\ sprints[s].project # None THEN "one active" ELSE "save sprint",
                     !.sprint = s, !.saved = [sprints[s] EXCEPT !.status = st]]
  <2>1. r.at \in SprintAwaits /\ Awaits(h, r) /\ UNCHANGED deps
    BY <1>5, BlankFormed DEF UpdateSprint, SprintAwaits
  <2> HIDE DEF r
  <2> QED BY <1>1, <2>1 DEF SprintAwaits
<1>6. ASSUME NEW t, NEW p, StudioUpdateTask(h, t, p)
      PROVE  WalkInv'
  <2> DEFINE r == [Blank EXCEPT !.at = "studio", !.ticket = t,
                     !.row = [project |-> p, sprint |-> IF tickets[t].sprint # None /\ tickets[t].project # p THEN None ELSE Keep]]
  <2>1. r.at = "studio" /\ Awaits(h, r) /\ UNCHANGED deps
    BY <1>6, BlankFormed DEF StudioUpdateTask
  <2> HIDE DEF r
  <2> QED BY <1>1, <2>1
<1>7. ASSUME NEW t, NEW u, AddDependency(h, t, u)
      PROVE  WalkInv'
  <2> DEFINE r == [Blank EXCEPT !.at = "duplicate", !.ticket = t, !.target = u]
  <2>1. r.at = "duplicate" /\ r.seen = {} /\ Awaits(h, r) /\ UNCHANGED deps
    BY <1>7 DEF AddDependency, Blank
  <2> HIDE DEF r
  <2> QED BY <2>1, WalkAlone DEF WalkSound
<1>8. ASSUME NEW p, CountReferences(h, p)
      PROVE  WalkInv'
  <2> DEFINE r == [Blank EXCEPT !.at = "remove project", !.row.project = p]
  <2>1. r.at = "remove project" /\ Awaits(h, r) /\ UNCHANGED deps
    BY <1>8, BlankFormed DEF CountReferences
  <2> HIDE DEF r
  <2> QED BY <1>1, <2>1
<1>9. ASSUME NEW t, TouchTicket(h, t)
      PROVE  WalkInv'
  <2> DEFINE r == [Blank EXCEPT !.at = "save ticket", !.ticket = t, !.row = tickets[t]]
  <2>1. r.at = "save ticket" /\ Awaits(h, r) /\ UNCHANGED deps
    BY <1>9, BlankFormed DEF TouchTicket
  <2> HIDE DEF r
  <2> QED BY <1>1, <2>1
<1>10. ASSUME NEW q, UpdateReference(h, q)
       PROVE  WalkInv'
  <2> DEFINE r == [Blank EXCEPT !.at = "attach", !.row.project = q]
  <2>1. r.at = "attach" /\ Awaits(h, r) /\ UNCHANGED deps
    BY <1>10, BlankFormed DEF UpdateReference
  <2> HIDE DEF r
  <2> QED BY <1>1, <2>1
<1>11. ASSUME NEW t, NEW q, ImportItem(h, t, q)
       PROVE  WalkInv'
  <2> DEFINE found == IF t \in DOMAIN tickets THEN tickets[t].project ELSE None
             r == [Blank EXCEPT !.at = "import", !.ticket = t, !.row.project = IF found = None THEN q ELSE found]
  <2>1. r.at = "import" /\ Awaits(h, r) /\ UNCHANGED deps
    BY <1>11, BlankFormed DEF ImportItem
  <2> HIDE DEF r
  <2> QED BY <1>1, <2>1
<1> QED BY <1>2, <1>3, <1>4, <1>5, <1>6, <1>7, <1>8, <1>9, <1>10, <1>11 DEF Request, CreateTicket, UpdateTicket

LEMMA WalkSteps ==
  ASSUME TypeInv, WalkInv, NEW h \in Handlers, Step(h)
  PROVE  WalkInv'
<1> DEFINE r == req[h]
<1>0. /\ r \in InFlight /\ WellFormed(r) /\ (r.at \in PlanningAwaits => r \in PlanningRequest)
      /\ (r.at # "idle" => h \in mode.handlers)
  BY Shapes DEF TypeInv, RequestsTyped
<1>g. deps \subseteq Tickets \X Tickets
  BY DEF TypeInv, TablesTyped
<1>1. ASSUME NEW next, Awaits(h, next), next.at \notin WalkAwaits, UNCHANGED deps
      PROVE  WalkInv'
  BY <1>1, NotWalking, WalkAlone
<1>i. ASSUME Ends(h), UNCHANGED deps
      PROVE  WalkInv'
  BY <1>1, <1>i, IdleAt DEF Ends, WalkAwaits
<1> USE DEF PlanningAwaits, SprintAwaits, TicketAwaits, WalkAwaits
<1>2. CASE AssertNoActiveSprint(h)
  <2> DEFINE next == [r EXCEPT !.at = "save sprint"]
  <2>1. next.at = "save sprint"
    BY <1>0, <1>2 DEF AssertNoActiveSprint, PlanningRequest
  <2> HIDE DEF next
  <2>2. Awaits(h, next) \/ Ends(h)
    BY <1>2 DEF AssertNoActiveSprint, next
  <2> QED BY <1>1, <1>i, <1>2, <2>1, <2>2 DEF AssertNoActiveSprint
<1>3. CASE SaveSprint(h) \/ SaveTicket(h) \/ RemoveProject(h)
  BY <1>3, <1>i DEF SaveSprint, SaveTicket, RemoveProject
<1>4. CASE StudioUpdate(h)
  <2>1. ASSUME NEW t, NEW row, Sprinted(h, t, row)
        PROVE  WalkInv'
    <3> DEFINE next == [Blank EXCEPT !.ticket = t, !.row = row,
                         !.at = IF row.project # None /\ row.sprint # None THEN "assert sprint" ELSE "save ticket"]
    <3>1. next.at \in {"assert sprint", "save ticket"} /\ Awaits(h, next)
      BY <2>1, BlankFormed DEF Sprinted
    <3> HIDE DEF next
    <3> QED BY <1>1, <1>4, <3>1 DEF StudioUpdate
  <2> QED BY <1>4, <1>i, <2>1 DEF StudioUpdate
<1>5. CASE AssertSprint(h)
  <2> DEFINE next == [r EXCEPT !.at = "save ticket"]
  <2>1. next.at = "save ticket"
    BY <1>0, <1>5 DEF AssertSprint, PlanningRequest
  <2> HIDE DEF next
  <2>2. Awaits(h, next) \/ Ends(h)
    BY <1>5 DEF AssertSprint, next
  <2> QED BY <1>1, <1>i, <1>5, <2>1, <2>2 DEF AssertSprint
<1>6. CASE DependencyIsNew(h)
  <2> DEFINE next == [r EXCEPT !.at = "reaches", !.frontier = {r.target}]
  <2>0. r \in PlanningRequest
    BY <1>0, <1>6 DEF DependencyIsNew
  <2>1. next.at = "reaches" /\ next.frontier = {r.target} /\ next.target = r.target /\ next.ticket = r.ticket /\ next.seen = r.seen
    BY <2>0 DEF PlanningRequest
  <2> HIDE DEF next
  <2>2. Orderly => r.seen = {}
    BY <1>6 DEF DependencyIsNew, WalkInv, WalkSound
  <2>3. Orderly => WalkSound(next)
    BY <2>1, <2>2 DEF WalkSound
  <2>4. Awaits(h, next) \/ Ends(h)
    BY <1>6 DEF DependencyIsNew, next
  <2> QED BY <1>6, <1>i, <2>3, <2>4, WalkAlone DEF DependencyIsNew
<1>7. CASE ReachesStep(h)
  <2>0. r \in PlanningRequest /\ r.at = "reaches" /\ UNCHANGED deps
    BY <1>0, <1>7 DEF ReachesStep
  <2>1. Orderly => WalkSound(r)
    BY DEF WalkInv
  <2>2. CASE r.frontier \ r.seen = {}
    <3> DEFINE next == [r EXCEPT !.at = "save dependency"]
    <3>1. next.at = "save dependency" /\ next.frontier = r.frontier /\ next.seen = r.seen
          /\ next.target = r.target /\ next.ticket = r.ticket /\ Awaits(h, next)
      BY <1>7, <2>0, <2>2 DEF ReachesStep, PlanningRequest
    <3> HIDE DEF next
    <3>2. Orderly => WalkSound(next)
      BY <2>0, <2>1, <2>2, <3>1 DEF WalkSound
    <3> QED BY <2>0, <3>1, <3>2, WalkAlone
  <2>3. CASE r.frontier \ r.seen # {}
    <3>1. PICK current \in r.frontier \ r.seen :
             IF current = r.ticket THEN Ends(h)
             ELSE Awaits(h, [r EXCEPT !.seen = @ \cup {current}, !.frontier = (@ \ {current}) \cup DependsOn(current)])
      BY <1>7, <2>3 DEF ReachesStep, DependsOn
    <3> DEFINE next == [r EXCEPT !.seen = @ \cup {current}, !.frontier = (@ \ {current}) \cup DependsOn(current)]
    <3>2. CASE current # r.ticket
      <4>1. next.at = "reaches" /\ next.seen = r.seen \cup {current}
            /\ next.frontier = (r.frontier \ {current}) \cup DependsOn(current)
            /\ next.target = r.target /\ next.ticket = r.ticket /\ Awaits(h, next)
        BY <2>0, <3>1, <3>2 DEF PlanningRequest
      <4> HIDE DEF next
      <4>2. \A d \in deps : d[1] = current => d[2] \in DependsOn(current)
        BY DEF DependsOn
      <4>3. Orderly => WalkSound(next)
        BY <2>0, <2>1, <3>2, <4>1, <4>2 DEF WalkSound
      <4> QED BY <2>0, <4>1, <4>3, WalkAlone
    <3> QED BY <1>i, <2>0, <3>1, <3>2
  <2> QED BY <2>2, <2>3
<1>8. CASE SaveDependency(h)
  <2>0. r \in PlanningRequest /\ r.at = "save dependency" /\ r.ticket \in Tickets /\ r.target \in Tickets /\ Ends(h)
    BY <1>0, <1>8 DEF SaveDependency, WellFormed
  <2>1. mode' = mode /\ \A g \in Handlers : req'[g] = IF g = h THEN Idle ELSE req[g]
    BY <2>0 DEF Ends, Awaits, TypeInv, RequestsTyped
  <2>2. CASE UNCHANGED deps
    BY <1>i, <2>0, <2>2
  <2>3. CASE deps' = deps \cup {<<r.ticket, r.target>>}
    <3>1. Orderly => \A g \in Handlers : req'[g].at = "idle"
      BY <1>0, <2>0, <2>1, OthersIdle, IdleAt
    <3>2. Orderly => \A g \in Handlers : WalkSound(req[g])'
      BY <3>1 DEF WalkSound
    <3>3. ASSUME Orderly, NEW t \in Tickets
          PROVE  t \notin Reachable(t)'
      <4>1. WalkSound(r) /\ \A u \in Tickets : u \notin Reachable(u)
        BY <3>3 DEF WalkInv
      <4>2. /\ r.seen \in SUBSET Tickets /\ ClosedUnder(deps, r.seen)
            /\ r.target \in r.seen /\ r.ticket \notin r.seen
        BY <2>0, <4>1 DEF WalkSound, PlanningRequest, ClosedUnder
      <4> DEFINE a == r.ticket
                 b == r.target
                 S == r.seen
      <4>3. a \in Tickets /\ b \in Tickets /\ deps' = deps \cup {<<a, b>>} /\ S \in SUBSET Tickets
            /\ ClosedUnder(deps, S) /\ b \in S /\ a \notin S
        BY <2>0, <2>3, <4>2
      <4> HIDE DEF a, b, S
      <4> QED BY <1>g, <3>3, <4>1, <4>3, NewEdge
    <3>4. Orderly' = Orderly
      BY <2>1 DEF Orderly
    <3> QED BY <3>2, <3>3, <3>4 DEF WalkInv
  <2> QED BY <1>8, <2>2, <2>3 DEF SaveDependency
<1> QED BY <1>2, <1>3, <1>4, <1>5, <1>6, <1>7, <1>8 DEF Step

LEMMA WalkOthers ==
  ASSUME TypeInv, WalkInv,
         \/ \E h \in Handlers : PartsRequest(h) /\ UNCHANGED <<projects, sprints, deps, propagated>>
         \/ \E h \in Handlers : PartsStep(h) /\ UNCHANGED <<projects, sprints, deps, propagated>>
         \/ Stops /\ UNCHANGED <<projects, sprints, deps, propagated>>
         \/ \E t \in mode.tickets : Close(t) /\ UNCHANGED <<projects, sprints, deps, propagated>>
         \/ \E h \in Handlers, t \in mode.tickets : RemoveTask(h, t)
         \/ \E h \in Handlers : Propagation(h)
  PROVE  WalkInv'
<1>1. ASSUME NEW h \in Handlers, PartsRequest(h) \/ PartsStep(h), UNCHANGED deps
      PROVE  WalkInv'
  <2>1. PICK r \in PartsRequests \cup {Idle} : Awaits(h, r)
    BY <1>1, PartsMoves
  <2>2. r.at \notin WalkAwaits
    BY IdleAt DEF PartsRequests, OnTicket, OnFile, OnAttachment, OnNewSubtask, OnSubtask, WalkAwaits
  <2> QED BY <1>1, <2>1, <2>2, NotWalking, WalkAlone
<1>2. CASE Stops /\ UNCHANGED deps
  <2>1. mode' = mode /\ \A h \in Handlers : req'[h] = Idle
    BY <1>2 DEF Stops
  <2>2. Orderly' = Orderly /\ \A t : Reachable(t)' = Reachable(t)
    BY <1>2, <2>1 DEF Orderly, Reachable
  <2> QED BY <2>1, <2>2, IdleAt DEF WalkInv, WalkSound
<1>3. ASSUME NEW t, Close(t), UNCHANGED deps
      PROVE  WalkInv'
  <2>1. UNCHANGED <<mode, req>> /\ Orderly' = Orderly /\ \A u : Reachable(u)' = Reachable(u)
    BY <1>3 DEF Close, Orderly, Reachable
  <2> QED BY <1>3, <2>1 DEF WalkInv, WalkSound
<1>4. ASSUME NEW h \in Handlers, NEW t, RemoveTask(h, t)
      PROVE  WalkInv'
  BY <1>4, EdgesGo DEF RemoveTask
<1>5. ASSUME NEW h \in Handlers, Propagation(h)
      PROVE  WalkInv'
  BY <1>5, IdleAt, NotWalking, WalkAlone DEF Propagation, AttachProject, ImportSave, Ends, WalkAwaits
<1> QED BY <1>1, <1>2, <1>3, <1>4, <1>5

LEMMA InitWalks == Init => WalkInv
<1> SUFFICES ASSUME Init PROVE WalkInv
  OBVIOUS
<1>1. \A h \in Handlers : req[h].at = "idle"
  BY IdleAt DEF Init
<1>2. ASSUME NEW t \in Tickets
      PROVE  t \notin Reachable(t)
  <2>1. ClosedUnder(deps, {}) /\ {d[2] : d \in {e \in deps : e[1] = t}} \subseteq {}
    BY DEF Init, ClosedUnder
  <2> QED BY <2>1 DEF Reachable
<1> QED BY <1>1, <1>2 DEF WalkInv, WalkSound

LEMMA NextWalks == TypeInv /\ WalkInv /\ [Next]_vars => WalkInv'
<1>1. CASE UNCHANGED vars
  <2>1. UNCHANGED <<mode, req, deps>> /\ Orderly' = Orderly /\ \A t : Reachable(t)' = Reachable(t)
    BY <1>1 DEF vars, planning, Orderly, Reachable
  <2> QED BY <2>1 DEF WalkInv, WalkSound
<1>2. ASSUME TypeInv, WalkInv, Next
      PROVE  WalkInv'
  BY <1>2, NextSplit, WalkRequests, WalkSteps, WalkOthers
<1> QED BY <1>1, <1>2

\* As long as requests come one at a time no chain of addDependency(),
\* removeDependency() and removeTask(), however long, makes a ticket wait for
\* itself: what reaches() walks is enough to refuse every loop.
THEOREM NoLoops == Spec => []NoTicketWaitsForItself
<1>1. WalkInv => NoTicketWaitsForItself
  BY DEF WalkInv, NoTicketWaitsForItself
<1> QED BY <1>1, InitWalks, NextWalks, PlanningTyped, PTL DEF Spec

-----------------------------------------------------------------------------
(***************************************************************************)
(* PartsStand.  The requests that have counted and not saved yet are room  *)
(* taken; a name a handler is about to unlink belongs to no row, and none  *)
(* is drawn again while a handler holds it; with one request at a time,    *)
(* what a handler has read of the subtasks still holds when it saves.      *)
(***************************************************************************)
Saving(t) == {h \in mode.handlers : req[h].at = "save attachment" /\ req[h].ticket = t}

RoomTaken ==
    \A t \in Tickets :
        Cardinality(OfTicket(attachments, t)) + Cardinality(Saving(t)) < MaxAttachments + Cardinality(mode.handlers)

UnderWay(id) == \E h \in Handlers : req[h].at \in {"write file", "unsave"} /\ req[h].id = id

FilesInv ==
    /\ \A h \in Handlers : req[h].at = "unlink" => req[h].id \notin DOMAIN attachments
    /\ "crash" \in mode.faults \/ \A id \in DOMAIN attachments \ files : UnderWay(id)

Positions(t) == {subtasks[s].position : s \in SubtasksOf(t)}

Dense(t) == Positions(t) = 0 .. Cardinality(SubtasksOf(t)) - 1

StillRead(r) ==
    /\ r.at = "save subtask" => r.position = Cardinality(SubtasksOf(r.ticket))
    /\ r.at \in {"its ticket", "resave subtask"} =>
         /\ r.id \in DOMAIN subtasks
         /\ r.row.ticket = subtasks[r.id].ticket /\ r.row.position = subtasks[r.id].position

SubtasksInv ==
    Orderly => (\A t \in Tickets : Dense(t)) /\ \A h \in Handlers : StillRead(req[h])

PartsInv == RoomTaken /\ FilesInv /\ SubtasksInv

\* One request moves; the others stay.
LEMMA Moves ==
  ASSUME TypeInv, NEW h \in Handlers, NEW r, Awaits(h, r)
  PROVE  mode' = mode /\ Orderly' = Orderly /\ \A g \in Handlers : req'[g] = IF g = h THEN r ELSE req[g]
  BY DEF Awaits, TypeInv, RequestsTyped, Orderly

LEMMA RoomKept ==
  ASSUME TypeInv, RoomTaken, mode' = mode,
         \A t \in Tickets : OfTicket(attachments', t) \subseteq OfTicket(attachments, t) /\ Saving(t)' \subseteq Saving(t)
  PROVE  RoomTaken'
<1>0. /\ IsFiniteSet(DOMAIN attachments) /\ IsFiniteSet(mode.handlers) /\ Cardinality(mode.handlers) \in Nat
      /\ MaxAttachments \in Nat
  BY ModesGiven, WorkPlanningAssumption DEF TypeInv, TablesTyped
<1> SUFFICES ASSUME NEW t \in Tickets
             PROVE  Cardinality(OfTicket(attachments', t)) + Cardinality(Saving(t)')
                      < MaxAttachments + Cardinality(mode.handlers)
  BY DEF RoomTaken
<1>1. IsFiniteSet(OfTicket(attachments, t)) /\ IsFiniteSet(Saving(t))
  BY <1>0, AttachmentsCounted, FS_Subset DEF Saving
<1>2. /\ Cardinality(OfTicket(attachments', t)) <= Cardinality(OfTicket(attachments, t))
      /\ Cardinality(Saving(t)') <= Cardinality(Saving(t))
      /\ IsFiniteSet(OfTicket(attachments', t)) /\ IsFiniteSet(Saving(t)')
  BY <1>1, FS_Subset
<1>3. /\ Cardinality(OfTicket(attachments, t)) \in Nat /\ Cardinality(OfTicket(attachments', t)) \in Nat
      /\ Cardinality(Saving(t)) \in Nat /\ Cardinality(Saving(t)') \in Nat
  BY <1>1, <1>2, FS_CardinalityType
<1> QED BY <1>0, <1>2, <1>3 DEF RoomTaken

\* A request that is not about to save an attachment takes no room.
LEMMA RoomFor ==
  ASSUME TypeInv, RoomTaken, NEW h \in Handlers, NEW r, Awaits(h, r), r.at # "save attachment",
         \A t \in Tickets : OfTicket(attachments', t) \subseteq OfTicket(attachments, t)
  PROVE  RoomTaken'
<1>1. mode' = mode /\ \A t \in Tickets : Saving(t)' \subseteq Saving(t)
  BY Moves, ModesGiven DEF Saving, TypeInv, TablesTyped
<1> QED BY <1>1, RoomKept

LEMMA FilesKept ==
  ASSUME TypeInv, FilesInv, NEW h \in Handlers, NEW r, Awaits(h, r),
         DOMAIN attachments' \subseteq DOMAIN attachments, DOMAIN attachments \cap files \subseteq files' \cup (DOMAIN attachments \ DOMAIN attachments'),
         r.at = "unlink" => r.id \notin DOMAIN attachments',
         req[h].at \in {"write file", "unsave"}
           => \/ r.at \in {"write file", "unsave"} /\ r.id = req[h].id
              \/ req[h].id \notin DOMAIN attachments' \ files'
  PROVE  FilesInv'
<1>1. mode' = mode /\ \A g \in Handlers : req'[g] = IF g = h THEN r ELSE req[g]
  BY Moves
<1>2. ASSUME NEW g \in Handlers, req'[g].at = "unlink"
      PROVE  req'[g].id \notin DOMAIN attachments'
  BY <1>1, <1>2 DEF FilesInv
<1>3. ASSUME "crash" \notin mode.faults, NEW id \in DOMAIN attachments' \ files'
      PROVE  UnderWay(id)'
  <2>1. PICK g \in Handlers : req[g].at \in {"write file", "unsave"} /\ req[g].id = id
    BY <1>3 DEF FilesInv, UnderWay
  <2> QED BY <1>1, <1>3, <2>1 DEF UnderWay
<1> QED BY <1>1, <1>2, <1>3 DEF FilesInv

LEMMA SubtasksKept ==
  ASSUME TypeInv, SubtasksInv, NEW h \in Handlers, NEW r, Awaits(h, r), UNCHANGED subtasks, Orderly => StillRead(r)
  PROVE  SubtasksInv'
<1>1. mode' = mode /\ Orderly' = Orderly /\ \A g \in Handlers : req'[g] = IF g = h THEN r ELSE req[g]
  BY Moves
<1>2. \A t : SubtasksOf(t)' = SubtasksOf(t)
  BY DEF SubtasksOf
<1>3. \A t : Dense(t)' = Dense(t)
  BY <1>2 DEF Dense, Positions
<1>4. ASSUME Orderly, NEW g \in Handlers
      PROVE  StillRead(req[g])'
  <2>1. StillRead(req'[g])
    BY <1>1, <1>4 DEF SubtasksInv
  <2> QED BY <1>2, <2>1 DEF StillRead
<1> QED BY <1>1, <1>3, <1>4 DEF SubtasksInv

\* Nothing any of this speaks of has changed.
LEMMA PartsSame ==
  ASSUME PartsInv, UNCHANGED <<mode, req, attachments, files, subtasks>>
  PROVE  PartsInv'
<1>1. \A t : Saving(t)' = Saving(t) /\ SubtasksOf(t)' = SubtasksOf(t) /\ OfTicket(attachments', t) = OfTicket(attachments, t)
  BY DEF Saving, SubtasksOf
<1>2. \A t : Dense(t)' = Dense(t)
  BY <1>1 DEF Dense, Positions
<1>3. RoomTaken'
  BY <1>1 DEF PartsInv, RoomTaken
<1>4. FilesInv'
  BY DEF PartsInv, FilesInv, UnderWay
<1>5. Orderly' = Orderly /\ \A h \in Handlers : StillRead(req[h])' = StillRead(req[h])
  BY <1>1 DEF Orderly, StillRead
<1>6. SubtasksInv'
  BY <1>2, <1>5 DEF PartsInv, SubtasksInv
<1> QED BY <1>3, <1>4, <1>6 DEF PartsInv

\* A step that touches neither the parts nor a request on its way to touch them.
QuietAwaits == {"save attachment", "write file", "unsave", "unlink", "save subtask", "its ticket", "resave subtask"}

LEMMA PartsAlone ==
  ASSUME TypeInv, PartsInv, NEW h \in Handlers, NEW r, Awaits(h, r), r.at \notin QuietAwaits,
         req[h].at \notin {"write file", "unsave"}, UNCHANGED <<attachments, files, subtasks>>
  PROVE  PartsInv'
<1>1. RoomTaken'
  BY RoomFor DEF PartsInv, QuietAwaits
<1>2. FilesInv'
  BY FilesKept DEF PartsInv, QuietAwaits
<1>3. SubtasksInv'
  BY SubtasksKept DEF PartsInv, QuietAwaits, StillRead
<1> QED BY <1>1, <1>2, <1>3 DEF PartsInv

LEMMA PlanningParts ==
  ASSUME TypeInv, PartsInv, NEW h \in Handlers, Request(h) \/ Step(h) \/ Propagation(h), UNCHANGED parts
  PROVE  PartsInv'
<1> DEFINE p == req[h]
<1>0. p \in InFlight /\ (p.at \in PlanningAwaits => p \in PlanningRequest)
  BY Shapes DEF TypeInv, RequestsTyped
<1> USE DEF PlanningAwaits, SprintAwaits, TicketAwaits, WalkAwaits
<1>a. ASSUME p.at \in PlanningAwaits \cup {"idle"}, NEW r, Awaits(h, r), r.at \in PlanningAwaits \cup {"idle"}
      PROVE  PartsInv'
  BY <1>a, PartsAlone DEF parts, QuietAwaits
<1>s. ASSUME p.at \in PlanningAwaits \cup {"idle"}, NEW t, NEW row, Sprinted(h, t, row)
      PROVE  PartsInv'
  <2> DEFINE r == [Blank EXCEPT !.ticket = t, !.row = row,
                     !.at = IF row.project # None /\ row.sprint # None THEN "assert sprint" ELSE "save ticket"]
  <2>1. r.at \in {"assert sprint", "save ticket"} /\ Awaits(h, r)
    BY <1>s, BlankFormed DEF Sprinted
  <2> HIDE DEF r
  <2> QED BY <1>a, <1>s, <2>1
<1>i. ASSUME p.at \in PlanningAwaits \cup {"idle"}, Ends(h)
      PROVE  PartsInv'
  BY <1>a, <1>i, IdleAt DEF Ends
<1>1. ASSUME NEW s, NEW q, NEW st, CreateSprint(h, s, q, st)
      PROVE  PartsInv'
  <2> DEFINE r == [Blank EXCEPT !.at = IF st = "active" THEN "one active" ELSE "save sprint",
                     !.sprint = s, !.saved = WorkSprint(q, st)]
  <2>1. r.at \in SprintAwaits /\ Awaits(h, r) /\ p.at = "idle"
    BY <1>1, BlankFormed DEF CreateSprint, MayStart
  <2> HIDE DEF r
  <2> QED BY <1>a, <2>1
<1>2. ASSUME NEW s, NEW st, UpdateSprint(h, s, st)
      PROVE  PartsInv'
  <2> DEFINE r == [Blank EXCEPT !.at = IF Activating(st, sprints[s].status) /\ sprints[s].project # None
                                       THEN "one active" ELSE "save sprint",
                     !.sprint = s, !.saved = [sprints[s] EXCEPT !.status = st]]
  <2>1. r.at \in SprintAwaits /\ Awaits(h, r) /\ p.at = "idle"
    BY <1>2, BlankFormed DEF UpdateSprint, MayStart
  <2> HIDE DEF r
  <2> QED BY <1>a, <2>1
<1>3. ASSUME NEW t, NEW u, NEW w, CreateTicket(h, t, u, w) \/ UpdateTicket(h, t, u, w)
      PROVE  PartsInv'
  BY <1>3, <1>s DEF CreateTicket, UpdateTicket, MayStart
<1>4. ASSUME NEW t, NEW q, StudioUpdateTask(h, t, q)
      PROVE  PartsInv'
  <2> DEFINE s == IF tickets[t].sprint # None /\ tickets[t].project # q THEN None ELSE Keep
             r == [Blank EXCEPT !.at = "studio", !.ticket = t, !.row = [project |-> q, sprint |-> s]]
  <2>1. r.at = "studio" /\ Awaits(h, r) /\ p.at = "idle"
    BY <1>4, BlankFormed DEF StudioUpdateTask, MayStart
  <2> HIDE DEF r
  <2> QED BY <1>a, <2>1
<1>5. ASSUME NEW t, NEW u, AddDependency(h, t, u)
      PROVE  PartsInv'
  <2> DEFINE r == [Blank EXCEPT !.at = "duplicate", !.ticket = t, !.target = u]
  <2>1. r.at = "duplicate" /\ Awaits(h, r) /\ p.at = "idle"
    BY <1>5, BlankFormed DEF AddDependency, MayStart
  <2> HIDE DEF r
  <2> QED BY <1>a, <2>1
<1>6. ASSUME NEW d, RemoveDependency(h, d)
      PROVE  PartsInv'
  BY <1>6, PartsSame DEF RemoveDependency, parts
<1>7. ASSUME NEW q, CountReferences(h, q)
      PROVE  PartsInv'
  <2> DEFINE r == [Blank EXCEPT !.at = "remove project", !.row.project = q]
  <2>1. r.at = "remove project" /\ Awaits(h, r) /\ p.at = "idle"
    BY <1>7, BlankFormed DEF CountReferences, MayStart
  <2> HIDE DEF r
  <2> QED BY <1>a, <2>1
<1>8. CASE Step(h)
  <2>1. \/ p.at \in PlanningAwaits /\ Ends(h)
        \/ p.at = "studio" /\ \E t, row : Sprinted(h, t, row)
        \/ p.at \in PlanningAwaits /\ \E at \in PlanningAwaits : Awaits(h, [p EXCEPT !.at = at])
        \/ DependencyIsNew(h) \/ ReachesStep(h)
    BY <1>8 DEF Step, AssertNoActiveSprint, SaveSprint, StudioUpdate, AssertSprint, SaveTicket, SaveDependency, RemoveProject
  <2>2. ASSUME p.at \in PlanningAwaits, NEW at \in PlanningAwaits, Awaits(h, [p EXCEPT !.at = at])
        PROVE  PartsInv'
    <3>1. [p EXCEPT !.at = at].at = at
      BY <1>0, <2>2 DEF PlanningRequest
    <3> QED BY <1>a, <2>2, <3>1
  <2>3. CASE DependencyIsNew(h)
    <3> DEFINE r == [p EXCEPT !.at = "reaches", !.frontier = {p.target}]
    <3>1. r.at = "reaches" /\ p.at = "duplicate"
      BY <1>0, <2>3 DEF DependencyIsNew, PlanningRequest
    <3> HIDE DEF r
    <3>2. Ends(h) \/ Awaits(h, r)
      BY <2>3 DEF DependencyIsNew, r
    <3> QED BY <1>a, <1>i, <3>1, <3>2
  <2>4. CASE ReachesStep(h)
    <3>0. p.at = "reaches"
      BY <2>4 DEF ReachesStep
    <3>1. ASSUME NEW current,
                 Awaits(h, [p EXCEPT !.seen = @ \cup {current},
                              !.frontier = (@ \ {current}) \cup {d[2] : d \in {e \in deps : e[1] = current}}])
          PROVE  PartsInv'
      <4> DEFINE next == [p EXCEPT !.seen = @ \cup {current},
                            !.frontier = (@ \ {current}) \cup {d[2] : d \in {e \in deps : e[1] = current}}]
      <4>1. next.at = "reaches"
        BY <1>0, <3>0 DEF PlanningRequest
      <4> HIDE DEF next
      <4> QED BY <1>a, <3>0, <3>1, <4>1 DEF next
    <3> QED BY <1>i, <2>2, <2>4, <3>0, <3>1 DEF ReachesStep
  <2> QED BY <1>i, <1>s, <2>1, <2>2, <2>3, <2>4
<1>9. CASE Propagation(h)
  BY <1>9, <1>i DEF Propagation, AttachProject, ImportSave
<1>10. ASSUME NEW t, TouchTicket(h, t)
       PROVE  PartsInv'
  <2> DEFINE r == [Blank EXCEPT !.at = "save ticket", !.ticket = t, !.row = tickets[t]]
  <2>1. r.at = "save ticket" /\ Awaits(h, r) /\ p.at = "idle"
    BY <1>10, BlankFormed DEF TouchTicket, MayStart
  <2> HIDE DEF r
  <2> QED BY <1>a, <2>1
<1>11. ASSUME NEW q, UpdateReference(h, q)
       PROVE  PartsInv'
  <2> DEFINE r == [Blank EXCEPT !.at = "attach", !.row.project = q]
  <2>1. r.at = "attach" /\ Awaits(h, r) /\ p.at = "idle"
    BY <1>11, BlankFormed DEF UpdateReference, MayStart
  <2> HIDE DEF r
  <2> QED BY <1>a, <2>1
<1>12. ASSUME NEW t, NEW q, ImportItem(h, t, q)
       PROVE  PartsInv'
  <2> DEFINE found == IF t \in DOMAIN tickets THEN tickets[t].project ELSE None
             r == [Blank EXCEPT !.at = "import", !.ticket = t, !.row.project = IF found = None THEN q ELSE found]
  <2>1. r.at = "import" /\ Awaits(h, r) /\ p.at = "idle"
    BY <1>12, BlankFormed DEF ImportItem, MayStart
  <2> HIDE DEF r
  <2> QED BY <1>a, <2>1
<1> QED BY <1>1, <1>2, <1>3, <1>4, <1>5, <1>6, <1>7, <1>8, <1>9, <1>10, <1>11, <1>12 DEF Request

LEMMA OneForOne ==
  \A a, b, c, d \in Nat : a + b < c + d => (a + 1) + (b - 1) < c + d
OBVIOUS

\* A row more, from a request that had counted.
LEMMA RoomUsed ==
  ASSUME TypeInv, RoomTaken, NEW h \in Handlers, NEW id \in PartIds, NewFile(id, attachments), At(h, "save attachment"),
         attachments' = With(attachments, id, req[h].ticket), Awaits(h, [at |-> "write file", id |-> id])
  PROVE  RoomTaken'
<1> DEFINE t0 == req[h].ticket
           r == [at |-> "write file", id |-> id]
<1>0. /\ IsFiniteSet(DOMAIN attachments) /\ IsFiniteSet(mode.handlers) /\ Cardinality(mode.handlers) \in Nat
      /\ MaxAttachments \in Nat /\ h \in mode.handlers /\ id \notin DOMAIN attachments
  BY ModesGiven, WorkPlanningAssumption DEF TypeInv, TablesTyped, RequestsTyped, At, NewFile, Unused
<1>1. mode' = mode /\ (\A g \in Handlers : req'[g] = IF g = h THEN r ELSE req[g]) /\ r.at = "write file"
  BY Moves
<1> HIDE DEF r
<1>2. mode.handlers \subseteq Handlers
  BY ModesGiven DEF TypeInv, TablesTyped
<1> SUFFICES ASSUME NEW t \in Tickets
             PROVE  Cardinality(OfTicket(attachments', t)) + Cardinality(Saving(t)')
                      < MaxAttachments + Cardinality(mode.handlers)
  BY <1>1 DEF RoomTaken
<1>3. IsFiniteSet(OfTicket(attachments, t)) /\ IsFiniteSet(Saving(t))
  BY <1>0, AttachmentsCounted, FS_Subset DEF Saving
<1>4. CASE t = t0
  <2>1. OfTicket(attachments', t) = OfTicket(attachments, t) \cup {id} /\ id \notin OfTicket(attachments, t)
    BY <1>0, <1>4 DEF OfTicket, With
  <2>2. Saving(t)' = Saving(t) \ {h} /\ h \in Saving(t)
    BY <1>0, <1>1, <1>2, <1>4 DEF Saving, At
  <2>3. Cardinality(OfTicket(attachments', t)) = Cardinality(OfTicket(attachments, t)) + 1
    BY <1>3, <2>1, FS_AddElement
  <2>4. Cardinality(Saving(t)') = Cardinality(Saving(t)) - 1
    BY <1>3, <2>2, FS_RemoveElement
  <2>5. Cardinality(OfTicket(attachments, t)) \in Nat /\ Cardinality(Saving(t)) \in Nat
    BY <1>3, FS_CardinalityType
  <2>6. Cardinality(OfTicket(attachments, t)) + Cardinality(Saving(t)) < MaxAttachments + Cardinality(mode.handlers)
    BY DEF RoomTaken
  <2> DEFINE a == Cardinality(OfTicket(attachments, t))
             b == Cardinality(Saving(t))
             c == Cardinality(mode.handlers)
  <2>7. a \in Nat /\ b \in Nat /\ c \in Nat /\ MaxAttachments \in Nat /\ a + b < MaxAttachments + c
    BY <1>0, <2>5, <2>6
  <2>8. Cardinality(OfTicket(attachments', t)) = a + 1 /\ Cardinality(Saving(t)') = b - 1
    BY <2>3, <2>4
  <2> HIDE DEF a, b, c
  <2>9. (a + 1) + (b - 1) < MaxAttachments + c
    BY <2>7, OneForOne
  <2> QED BY <2>8, <2>9 DEF c
<1>5. CASE t # t0
  <2>1. OfTicket(attachments', t) = OfTicket(attachments, t)
    BY <1>0, <1>5 DEF OfTicket, With
  <2>2. Saving(t)' = Saving(t)
    BY <1>1, <1>2, <1>5 DEF Saving, At
  <2> QED BY <2>1, <2>2 DEF RoomTaken
<1> QED BY <1>4, <1>5

\* A count that finds room lets one handler more into saving, of all there are.
LEMMA RoomCounted ==
  ASSUME TypeInv, RoomTaken, NEW h \in Handlers, NEW r \in OnTicket, Awaits(h, r), UNCHANGED attachments,
         Cardinality(OfTicket(attachments, r.ticket)) < MaxAttachments
  PROVE  RoomTaken'
<1>0. /\ IsFiniteSet(DOMAIN attachments) /\ IsFiniteSet(mode.handlers) /\ Cardinality(mode.handlers) \in Nat
      /\ MaxAttachments \in Nat
  BY ModesGiven, WorkPlanningAssumption DEF TypeInv, TablesTyped
<1>1. mode' = mode /\ \A g \in Handlers : req'[g] = IF g = h THEN r ELSE req[g]
  BY Moves
<1>2. mode.handlers \subseteq Handlers
  BY ModesGiven DEF TypeInv, TablesTyped
<1> SUFFICES ASSUME NEW t \in Tickets
             PROVE  Cardinality(OfTicket(attachments, t)) + Cardinality(Saving(t)')
                      < MaxAttachments + Cardinality(mode.handlers)
  BY <1>1 DEF RoomTaken
<1>3. IsFiniteSet(OfTicket(attachments, t)) /\ Cardinality(OfTicket(attachments, t)) \in Nat
  BY <1>0, AttachmentsCounted
<1>4. CASE t = r.ticket
  <2>1. Saving(t)' \subseteq mode.handlers
    BY <1>1 DEF Saving
  <2>2. Cardinality(Saving(t)') <= Cardinality(mode.handlers) /\ IsFiniteSet(Saving(t)')
    BY <1>0, <2>1, FS_Subset
  <2>3. Cardinality(Saving(t)') \in Nat
    BY <2>2, FS_CardinalityType
  <2> QED BY <1>0, <1>3, <1>4, <2>2, <2>3
<1>5. CASE t # r.ticket
  <2>1. Saving(t)' \subseteq Saving(t)
    BY <1>1, <1>2, <1>5 DEF Saving
  <2>2. IsFiniteSet(Saving(t))
    BY <1>0, FS_Subset DEF Saving
  <2>3. Cardinality(Saving(t)') <= Cardinality(Saving(t)) /\ IsFiniteSet(Saving(t)')
    BY <2>1, <2>2, FS_Subset
  <2>4. Cardinality(Saving(t)') \in Nat /\ Cardinality(Saving(t)) \in Nat
    BY <2>2, <2>3, FS_CardinalityType
  <2> QED BY <1>0, <1>3, <2>3, <2>4 DEF RoomTaken
<1> QED BY <1>4, <1>5

LEMMA AttachmentSteps ==
  ASSUME TypeInv, PartsInv, NEW h \in Handlers,
         CountAttachments(h) \/ SaveAttachment(h) \/ WriteFile(h) \/ Unsave(h) \/ FindAttachment(h) \/ RemoveRow(h) \/ Unlink(h)
  PROVE  PartsInv'
<1> DEFINE p == req[h]
<1>0. /\ p \in InFlight /\ IsTable(attachments, PartIds, Tickets) /\ RoomTaken /\ FilesInv /\ SubtasksInv
  BY DEF TypeInv, TablesTyped, RequestsTyped, PartsInv
<1>q. /\ p.at \in {"count attachments", "save attachment"} => p \in OnTicket
      /\ p.at \in {"write file", "unsave"} => p \in OnFile
      /\ p.at \in {"find attachment", "remove row", "unlink"} => p \in OnAttachment
  BY <1>0, Shapes
<1> USE DEF At, parts
<1>1. CASE CountAttachments(h)
  <2>1. CASE Ends(h)
    BY <1>1, <2>1, IdleAt, PartsAlone DEF CountAttachments, Ends, QuietAwaits
  <2>2. CASE ~ (Cardinality(OfTicket(attachments, p.ticket)) >= MaxAttachments)
    <3> DEFINE r == [p EXCEPT !.at = "save attachment"]
    <3>1. r \in OnTicket /\ r.at = "save attachment" /\ r.ticket = p.ticket /\ Awaits(h, r) /\ UNCHANGED <<attachments, files, subtasks>>
      BY <1>1, <1>q, <2>2 DEF CountAttachments, OnTicket
    <3> HIDE DEF r
    <3>2. /\ Cardinality(OfTicket(attachments, p.ticket)) \in Nat /\ MaxAttachments \in Nat
      BY AttachmentsCounted, WorkPlanningAssumption DEF TypeInv, TablesTyped
    <3>3. RoomTaken'
      <4>0. Cardinality(OfTicket(attachments, p.ticket)) < MaxAttachments
        BY <2>2, <3>2
      <4>1. Cardinality(OfTicket(attachments, r.ticket)) < MaxAttachments
        BY <3>1, <4>0
      <4> QED BY <1>0, <3>1, <4>1, RoomCounted
    <3>4. FilesInv'
      BY <1>0, <1>1, <3>1, FilesKept DEF CountAttachments
    <3>5. SubtasksInv'
      BY <1>0, <3>1, SubtasksKept DEF StillRead
    <3> QED BY <3>3, <3>4, <3>5 DEF PartsInv
  <2> QED BY <1>1, <2>1, <2>2 DEF CountAttachments
<1>2. CASE SaveAttachment(h)
  <2>1. CASE Ends(h) /\ UNCHANGED attachments
    BY <1>2, <2>1, IdleAt, PartsAlone DEF SaveAttachment, Ends, QuietAwaits
  <2>2. ASSUME NEW id \in PartIds, NewFile(id, attachments), attachments' = With(attachments, id, p.ticket),
               Awaits(h, [at |-> "write file", id |-> id])
        PROVE  PartsInv'
    <3> DEFINE r == [at |-> "write file", id |-> id]
    <3>1. RoomTaken'
      BY <1>0, <1>2, <2>2, RoomUsed DEF SaveAttachment
    <3>2. mode' = mode /\ (\A g \in Handlers : req'[g] = IF g = h THEN r ELSE req[g]) /\ r.at = "write file" /\ r.id = id
      BY <2>2, Moves
    <3> HIDE DEF r
    <3>3. ASSUME NEW g \in Handlers, req'[g].at = "unlink"
          PROVE  req'[g].id \notin DOMAIN attachments'
      <4>1. g # h /\ req[g].at = "unlink" /\ req'[g] = req[g]
        BY <3>2, <3>3
      <4>2. req[g] \in OnAttachment
        BY <4>1, Shapes DEF TypeInv, RequestsTyped
      <4>3. req[g].id # id
        BY <2>2, <4>2 DEF NewFile, Unused, OnAttachment
      <4> QED BY <1>0, <2>2, <4>1, <4>3 DEF With, FilesInv
    <3>4. ASSUME "crash" \notin mode.faults, NEW i \in DOMAIN attachments' \ files'
          PROVE  UnderWay(i)'
      <4>1. CASE i = id
        BY <3>2, <4>1 DEF UnderWay
      <4>2. CASE i # id
        <5>1. i \in DOMAIN attachments \ files
          BY <1>2, <2>2, <3>4, <4>2 DEF With, SaveAttachment
        <5>2. PICK g \in Handlers : req[g].at \in {"write file", "unsave"} /\ req[g].id = i
          BY <1>0, <3>4, <5>1 DEF FilesInv, UnderWay
        <5> QED BY <1>2, <3>2, <5>2 DEF UnderWay, SaveAttachment
      <4> QED BY <4>1, <4>2
    <3>5. FilesInv'
      BY <3>2, <3>3, <3>4 DEF FilesInv
    <3>6. SubtasksInv'
      BY <1>0, <1>2, <2>2, SubtasksKept DEF SaveAttachment, StillRead
    <3> QED BY <3>1, <3>5, <3>6 DEF PartsInv
  <2> QED BY <1>2, <2>1, <2>2 DEF SaveAttachment
<1>3. CASE WriteFile(h)
  <2>1. ASSUME NEW r, Awaits(h, r), (r = Idle /\ p.id \in files') \/ r = [p EXCEPT !.at = "unsave"]
        PROVE  PartsInv'
    <3>1. r.at \in {"idle", "unsave"} /\ (r.at = "unsave" => r.id = p.id) /\ UNCHANGED <<attachments, subtasks>> /\ files \subseteq files'
      BY <1>3, <1>q, <2>1, IdleAt DEF WriteFile, OnFile
    <3>2. (r.at = "idle" => p.id \in files')
      BY <1>3, <1>q, <2>1 DEF WriteFile, OnFile
    <3>3. RoomTaken'
      BY <1>0, <2>1, <3>1, RoomFor
    <3>4. FilesInv'
      BY <1>0, <2>1, <3>1, <3>2, FilesKept
    <3>5. SubtasksInv'
      BY <1>0, <2>1, <3>1, SubtasksKept DEF StillRead
    <3> QED BY <3>3, <3>4, <3>5 DEF PartsInv
  <2> QED BY <1>3, <2>1 DEF WriteFile, Ends
<1>4. ASSUME NEW r, Awaits(h, r), attachments' = Without(attachments, {p.id}), UNCHANGED <<files, subtasks>>,
             r.at = "idle" \/ (r.at = "unlink" /\ r.id = p.id)
      PROVE  PartsInv'
  <2>1. DOMAIN attachments' = DOMAIN attachments \ {p.id} /\ \A t : OfTicket(attachments', t) \subseteq OfTicket(attachments, t)
    BY <1>4 DEF Without, OfTicket
  <2>2. RoomTaken'
    BY <1>0, <1>4, <2>1, RoomFor
  <2>3. FilesInv'
    BY <1>0, <1>4, <2>1, FilesKept
  <2>4. SubtasksInv'
    BY <1>0, <1>4, SubtasksKept DEF StillRead
  <2> QED BY <2>2, <2>3, <2>4 DEF PartsInv
<1>5. CASE Unsave(h)
  BY <1>4, <1>5, IdleAt DEF Unsave, Ends
<1>6. CASE RemoveRow(h)
  <2> DEFINE r == [p EXCEPT !.at = "unlink"]
  <2>1. r.at = "unlink" /\ r.id = p.id /\ Awaits(h, r)
    BY <1>6, <1>q DEF RemoveRow, OnAttachment
  <2> HIDE DEF r
  <2> QED BY <1>4, <1>6, <2>1 DEF RemoveRow
<1>7. CASE FindAttachment(h)
  <2> DEFINE r == [p EXCEPT !.at = "remove row"]
  <2>1. r.at = "remove row"
    BY <1>7, <1>q DEF FindAttachment, OnAttachment
  <2> HIDE DEF r
  <2>2. Awaits(h, r) \/ Ends(h)
    BY <1>7 DEF FindAttachment, r
  <2> QED BY <1>7, <2>1, <2>2, IdleAt, PartsAlone DEF FindAttachment, Ends, QuietAwaits
<1>8. CASE Unlink(h)
  <2>1. p.id \notin DOMAIN attachments /\ Awaits(h, Idle) /\ UNCHANGED <<attachments, subtasks>> /\ files \ {p.id} \subseteq files'
    BY <1>0, <1>8 DEF Unlink, FilesInv, Ends
  <2>2. RoomTaken'
    BY <1>0, <2>1, IdleAt, RoomFor
  <2>3. FilesInv'
    BY <1>0, <1>8, <2>1, IdleAt, FilesKept DEF Unlink
  <2>4. SubtasksInv'
    BY <1>0, <2>1, IdleAt, SubtasksKept DEF StillRead
  <2> QED BY <2>2, <2>3, <2>4 DEF PartsInv
<1> QED BY <1>1, <1>2, <1>3, <1>5, <1>6, <1>7, <1>8

\* The subtask at the end of the list.
LEMMA OneMoreSubtask ==
  ASSUME TypeInv, NEW t \in Tickets, NEW id \in PartIds, id \notin DOMAIN subtasks, Dense(t),
         subtasks' = With(subtasks, id, [ticket |-> t, done |-> FALSE, position |-> Cardinality(SubtasksOf(t))])
  PROVE  /\ Dense(t)'
         /\ \A u : u # t => (Dense(u)' = Dense(u))
<1>0. IsFiniteSet(SubtasksOf(t)) /\ Cardinality(SubtasksOf(t)) \in Nat
  BY SubtasksCounted DEF TypeInv, TablesTyped
<1> DEFINE n == Cardinality(SubtasksOf(t))
<1>1. /\ DOMAIN subtasks' = DOMAIN subtasks \cup {id}
      /\ subtasks'[id].ticket = t /\ subtasks'[id].position = n
      /\ \A s \in DOMAIN subtasks : subtasks'[s] = subtasks[s]
  BY DEF With
<1> HIDE DEF n
<1>2. SubtasksOf(t)' = SubtasksOf(t) \cup {id} /\ id \notin SubtasksOf(t)
  BY <1>1 DEF SubtasksOf
<1>3. Cardinality(SubtasksOf(t)') = n + 1
  BY <1>0, <1>2, FS_AddElement DEF n
<1>4. Positions(t)' = Positions(t) \cup {n}
  <2>1. \A s \in SubtasksOf(t) : s \in DOMAIN subtasks /\ subtasks'[s] = subtasks[s]
    BY <1>1 DEF SubtasksOf
  <2>2. Positions(t)' = {subtasks'[s].position : s \in SubtasksOf(t) \cup {id}}
    BY <1>2 DEF Positions
  <2>3. {subtasks'[s].position : s \in SubtasksOf(t) \cup {id}} = {subtasks[s].position : s \in SubtasksOf(t)} \cup {n}
    <3>1. \A s \in SubtasksOf(t) : subtasks'[s].position = subtasks[s].position
      BY <2>1
    <3>2. subtasks'[id].position = n
      BY <1>1
    <3> HIDE DEF n
    <3> QED BY <3>1, <3>2
  <2> QED BY <2>2, <2>3 DEF Positions
<1>5. 0 .. (n + 1) - 1 = (0 .. n - 1) \cup {n} /\ Positions(t) = 0 .. n - 1
  BY <1>0 DEF n, Dense
<1>6. Dense(t)'
  BY <1>3, <1>4, <1>5 DEF Dense
<1>7. ASSUME NEW u, u # t
      PROVE  Dense(u)' = Dense(u)
  <2>1. SubtasksOf(u)' = SubtasksOf(u)
    BY <1>1, <1>7 DEF SubtasksOf
  <2>2. Positions(u)' = Positions(u)
    <3>1. \A s \in SubtasksOf(u) : s \in DOMAIN subtasks /\ subtasks'[s] = subtasks[s]
      BY <1>1 DEF SubtasksOf
    <3> QED BY <2>1, <3>1 DEF Positions
  <2> QED BY <2>1, <2>2 DEF Dense
<1> QED BY <1>6, <1>7

LEMMA SubtaskSteps ==
  ASSUME TypeInv, PartsInv, NEW h \in Handlers,
         CountSubtasks(h) \/ SaveSubtask(h) \/ ItsTicket(h) \/ ResaveSubtask(h)
  PROVE  PartsInv'
<1> DEFINE p == req[h]
<1>0. /\ p \in InFlight /\ IsTable(subtasks, PartIds, SubtaskRow) /\ RoomTaken /\ FilesInv /\ SubtasksInv
      /\ Orderly => StillRead(p)
  BY DEF TypeInv, TablesTyped, RequestsTyped, PartsInv, SubtasksInv
<1>q. /\ p.at = "count subtasks" => p \in OnTicket
      /\ p.at = "save subtask" => p \in OnNewSubtask
      /\ p.at \in {"its ticket", "resave subtask"} => p \in OnSubtask
  BY <1>0, Shapes
<1> USE DEF At, parts
<1>k. ASSUME NEW r, Awaits(h, r), r.at \in {"idle", "save subtask", "resave subtask"}, UNCHANGED <<attachments, files>>
      PROVE  RoomTaken' /\ FilesInv'
  <2>1. p.at \in {"count subtasks", "save subtask", "its ticket", "resave subtask"}
    BY DEF CountSubtasks, SaveSubtask, ItsTicket, ResaveSubtask
  <2>2. RoomTaken'
    BY <1>0, <1>k, RoomFor
  <2>3. FilesInv'
    BY <1>0, <1>k, <2>1, FilesKept
  <2> QED BY <2>2, <2>3
<1>1. CASE CountSubtasks(h)
  <2> DEFINE r == [at |-> "save subtask", ticket |-> p.ticket, position |-> Cardinality(SubtasksOf(p.ticket))]
  <2>1. r.at = "save subtask" /\ StillRead(r) /\ Awaits(h, r) /\ UNCHANGED <<attachments, files, subtasks>>
    BY <1>1 DEF StillRead, CountSubtasks
  <2> HIDE DEF r
  <2> QED BY <1>0, <1>k, <2>1, SubtasksKept DEF PartsInv
<1>2. CASE ItsTicket(h)
  <2> DEFINE r == [p EXCEPT !.at = "resave subtask"]
  <2>1. /\ r.at = "resave subtask" /\ UNCHANGED <<attachments, files, subtasks>>
        /\ Orderly => StillRead(r)
    BY <1>0, <1>2, <1>q DEF StillRead, ItsTicket, OnSubtask
  <2>2. Orderly => StillRead(Idle)
    BY IdleAt DEF StillRead
  <2>3. Awaits(h, r) \/ Awaits(h, Idle)
    BY <1>2 DEF ItsTicket, Ends
  <2> HIDE DEF r
  <2> QED BY <1>0, <1>k, <2>1, <2>2, <2>3, IdleAt, SubtasksKept DEF PartsInv
<1>m. p.at # "idle" /\ h \in mode.handlers
  BY DEF CountSubtasks, SaveSubtask, ItsTicket, ResaveSubtask, TypeInv, RequestsTyped
<1>3. ASSUME Awaits(h, Idle), UNCHANGED <<attachments, files>>, Orderly => \A t \in Tickets : Dense(t)'
      PROVE  PartsInv'
  <2>1. mode' = mode /\ Orderly' = Orderly /\ \A g \in Handlers : req'[g] = IF g = h THEN Idle ELSE req[g]
    BY <1>3, Moves
  <2>3. Orderly => \A g \in Handlers : req'[g].at = "idle"
    BY <1>m, <2>1, OthersIdle, IdleAt
  <2>4. SubtasksInv'
    BY <1>3, <2>1, <2>3 DEF SubtasksInv, StillRead
  <2> QED BY <1>3, <1>k, <2>4, IdleAt DEF PartsInv
<1>4. CASE SaveSubtask(h)
  <2>1. CASE UNCHANGED subtasks
    BY <1>0, <1>4, <1>k, <2>1, IdleAt, SubtasksKept DEF SaveSubtask, Ends, PartsInv, StillRead
  <2>2. ASSUME NEW id \in PartIds, Unused(id, subtasks),
               subtasks' = With(subtasks, id, [ticket |-> p.ticket, done |-> FALSE, position |-> p.position])
        PROVE  PartsInv'
    <3>1. p.ticket \in Tickets /\ id \notin DOMAIN subtasks /\ (Orderly => p.position = Cardinality(SubtasksOf(p.ticket)))
      BY <1>0, <1>4, <1>q, <2>2 DEF SaveSubtask, OnNewSubtask, Unused, StillRead
    <3>2. ASSUME Orderly, NEW t \in Tickets
          PROVE  Dense(t)'
      <4>0. PICK k \in Tickets : k = p.ticket
        BY <3>1
      <4>1. Dense(t) /\ Dense(k)
        BY <1>0, <3>2 DEF SubtasksInv
      <4>2. subtasks' = With(subtasks, id, [ticket |-> k, done |-> FALSE, position |-> Cardinality(SubtasksOf(k))])
        BY <2>2, <3>1, <3>2, <4>0
      <4>3. Dense(k)' /\ \A u : u # k => (Dense(u)' = Dense(u))
        BY <3>1, <4>1, <4>2, OneMoreSubtask
      <4> QED BY <4>1, <4>3
    <3> QED BY <1>3, <1>4, <3>2 DEF SaveSubtask, Ends
  <2> QED BY <1>4, <2>1, <2>2 DEF SaveSubtask
<1>5. CASE ResaveSubtask(h)
  <2>1. ASSUME Orderly, NEW t \in Tickets
        PROVE  Dense(t)'
    <3>1. /\ Dense(t) /\ p.id \in DOMAIN subtasks
          /\ p.row.ticket = subtasks[p.id].ticket /\ p.row.position = subtasks[p.id].position
      BY <1>0, <1>5, <2>1 DEF SubtasksInv, StillRead, ResaveSubtask
    <3>2. /\ DOMAIN subtasks' = DOMAIN subtasks
          /\ \A s \in DOMAIN subtasks : subtasks'[s].ticket = subtasks[s].ticket /\ subtasks'[s].position = subtasks[s].position
      BY <1>5, <3>1 DEF ResaveSubtask, With
    <3>3. SubtasksOf(t)' = SubtasksOf(t)
      BY <3>2 DEF SubtasksOf
    <3>4. Positions(t)' = Positions(t)
      BY <3>2, <3>3 DEF Positions, SubtasksOf
    <3> QED BY <3>1, <3>3, <3>4 DEF Dense
  <2> QED BY <1>3, <1>5, <2>1 DEF ResaveSubtask, Ends
<1> QED BY <1>1, <1>2, <1>4, <1>5

LEMMA AttachmentRequests ==
  ASSUME TypeInv, PartsInv, NEW h \in Handlers, PartsRequest(h)
  PROVE  PartsInv'
<1> USE DEF parts, QuietAwaits
<1>1. ASSUME NEW t, NEW id, AddAttachment(h, t) \/ RemoveAttachment(h, t, id) \/ AddSubtask(h, t)
      PROVE  PartsInv'
  BY <1>1, PartsAlone DEF AddAttachment, RemoveAttachment, AddSubtask, MayStart
<1>2. ASSUME NEW id \in DOMAIN subtasks, NEW done, UpdateSubtask(h, id, done)
      PROVE  PartsInv'
  <2> DEFINE r == [at |-> "its ticket", id |-> id, ticket |-> subtasks[id].ticket, row |-> [subtasks[id] EXCEPT !.done = done]]
  <2>0. subtasks[id] \in SubtaskRow
    BY DEF TypeInv, TablesTyped, IsTable
  <2>1. r.at = "its ticket" /\ StillRead(r)
    BY <2>0 DEF StillRead, SubtaskRow
  <2>2. Awaits(h, r) /\ UNCHANGED <<attachments, files, subtasks>> /\ req[h].at = "idle"
    BY <1>2 DEF UpdateSubtask, MayStart
  <2> HIDE DEF r
  <2>3. RoomTaken'
    BY <2>1, <2>2, RoomFor DEF PartsInv
  <2>4. FilesInv'
    BY <2>1, <2>2, FilesKept DEF PartsInv
  <2>5. SubtasksInv'
    BY <2>1, <2>2, SubtasksKept DEF PartsInv
  <2> QED BY <2>3, <2>4, <2>5 DEF PartsInv
<1>3. ASSUME NEW t, AddAttachment(h, t) \/ AddSubtask(h, t)
      PROVE  PartsInv'
  BY <1>1, <1>3
<1> QED BY <1>1, <1>2, <1>3 DEF PartsRequest

LEMMA PartsOthers ==
  ASSUME TypeInv, PartsInv,
         \/ Stops /\ UNCHANGED <<projects, sprints, deps, propagated>>
         \/ \E t \in mode.tickets : Close(t) /\ UNCHANGED <<projects, sprints, deps, propagated>>
         \/ \E h \in Handlers, t \in mode.tickets : RemoveTask(h, t)
  PROVE  PartsInv'
<1>1. CASE Stops
  <2>1. /\ mode' = mode /\ UNCHANGED <<attachments, files, subtasks>> /\ "crash" \in mode.faults
        /\ \A h \in Handlers : req'[h] = Idle
    BY <1>1 DEF Stops, parts
  <2>2. \A h \in Handlers : req'[h].at = "idle"
    BY <2>1, IdleAt
  <2>3. mode.handlers \subseteq Handlers
    BY ModesGiven DEF TypeInv, TablesTyped
  <2>4. \A t \in Tickets : Saving(t)' \subseteq Saving(t)
    BY <2>1, <2>2, <2>3 DEF Saving
  <2>5. RoomTaken'
    BY <2>1, <2>4, RoomKept DEF PartsInv
  <2>6. FilesInv'
    BY <2>1, <2>2 DEF FilesInv
  <2>7. SubtasksInv'
    <3>1. Orderly' = Orderly /\ \A t : SubtasksOf(t)' = SubtasksOf(t)
      BY <2>1 DEF Orderly, SubtasksOf
    <3>2. \A t : Dense(t)' = Dense(t)
      BY <2>1, <3>1 DEF Dense, Positions
    <3> QED BY <2>2, <3>1, <3>2 DEF PartsInv, SubtasksInv, StillRead
  <2> QED BY <2>5, <2>6, <2>7 DEF PartsInv
<1>2. ASSUME NEW t, Close(t)
      PROVE  PartsInv'
  BY <1>2, PartsSame DEF Close
<1>3. ASSUME NEW h \in Handlers, NEW t, RemoveTask(h, t)
      PROVE  PartsInv'
  <2>1. /\ UNCHANGED <<mode, req, files>> /\ req[h].at = "idle" /\ h \in mode.handlers
        /\ attachments' = Without(attachments, OfTicket(attachments, t))
        /\ subtasks' = Without(subtasks, SubtasksOf(t))
    BY <1>3 DEF RemoveTask, PartsFollow, MayStart
  <2>2. /\ DOMAIN attachments' \subseteq DOMAIN attachments
        /\ \A u : OfTicket(attachments', u) \subseteq OfTicket(attachments, u)
        /\ \A u : Saving(u)' = Saving(u)
    BY <2>1 DEF Without, OfTicket, Saving
  <2>3. RoomTaken'
    BY <2>1, <2>2, RoomKept DEF PartsInv
  <2>4. FilesInv'
    BY <2>1, <2>2 DEF PartsInv, FilesInv, UnderWay
  <2>5. ASSUME Orderly, NEW u \in Tickets
        PROVE  Dense(u)'
    <3>1. CASE u = t
      <4>1. SubtasksOf(u)' = {}
        BY <2>1, <3>1 DEF SubtasksOf, Without
      <4>2. Cardinality({}) = 0 /\ 0 .. 0 - 1 = {}
        BY FS_EmptySet
      <4> QED BY <4>1, <4>2 DEF Dense, Positions
    <3>2. CASE u # t
      <4>1. SubtasksOf(u)' = SubtasksOf(u) /\ \A s \in SubtasksOf(u) : subtasks'[s] = subtasks[s]
        BY <2>1, <3>2 DEF SubtasksOf, Without
      <4>2. Positions(u)' = Positions(u)
        BY <4>1 DEF Positions
      <4> QED BY <2>5, <4>1, <4>2 DEF PartsInv, SubtasksInv, Dense
    <3> QED BY <3>1, <3>2
  <2>6. Orderly => \A g \in Handlers : req[g].at = "idle"
    BY <2>1, OthersIdle
  <2>7. SubtasksInv'
    BY <2>1, <2>5, <2>6 DEF SubtasksInv, StillRead, Orderly
  <2> QED BY <2>3, <2>4, <2>7 DEF PartsInv
<1> QED BY <1>1, <1>2, <1>3

LEMMA InitParts == Init => PartsInv
<1> SUFFICES ASSUME Init PROVE PartsInv
  OBVIOUS
<1>0. /\ \A h \in Handlers : req[h].at = "idle"
      /\ attachments = << >> /\ subtasks = << >> /\ MaxAttachments \in Nat \ {0} /\ mode \in Modes
  BY IdleAt, WorkPlanningAssumption DEF Init, PartsInit
<1>1. mode.handlers \subseteq Handlers /\ Cardinality(mode.handlers) \in Nat /\ Cardinality({}) = 0
  BY <1>0, ModesGiven, FS_EmptySet
<1>d. DOMAIN attachments = {} /\ DOMAIN subtasks = {}
  BY <1>0
<1>2. \A t : OfTicket(attachments, t) = {} /\ Saving(t) = {} /\ SubtasksOf(t) = {}
  BY <1>0, <1>1, <1>d DEF OfTicket, Saving, SubtasksOf
<1>3. RoomTaken
  <2> SUFFICES ASSUME NEW t \in Tickets
               PROVE  Cardinality(OfTicket(attachments, t)) + Cardinality(Saving(t)) < MaxAttachments + Cardinality(mode.handlers)
    BY DEF RoomTaken
  <2>1. Cardinality(OfTicket(attachments, t)) = 0 /\ Cardinality(Saving(t)) = 0
    BY <1>1, <1>2
  <2> QED BY <1>0, <1>1, <2>1
<1>4. FilesInv
  BY <1>0 DEF FilesInv
<1>5. 0 .. 0 - 1 = {}
  OBVIOUS
<1>6. SubtasksInv
  BY <1>0, <1>1, <1>2, <1>5 DEF SubtasksInv, StillRead, Dense, Positions
<1> QED BY <1>3, <1>4, <1>6 DEF PartsInv

LEMMA NextParts == TypeInv /\ PartsInv /\ [Next]_vars => PartsInv'
<1>1. CASE UNCHANGED vars
  BY <1>1, PartsSame DEF vars, parts
<1>2. ASSUME TypeInv, PartsInv, Next
      PROVE  PartsInv'
  BY <1>2, NextSplit, PlanningParts, AttachmentRequests, AttachmentSteps, SubtaskSteps, PartsOthers DEF PartsStep
<1> QED BY <1>1, <1>2

\* However many uploads, removals and deletions overlap: a ticket never has more
\* attachments than the limit and the handlers that were counting at once, an
\* attachment without its file is one whose upload has not ended (unless the
\* process stopped), and subtasks added one after the other are numbered from 0
\* without a gap, whatever updateSubtask() writes back.
THEOREM PartsKept == Spec => []PartsStand
<1>1. TypeInv /\ PartsInv => PartsStand
  <2> SUFFICES ASSUME TypeInv, PartsInv PROVE PartsStand
    OBVIOUS
  <2>1. ASSUME NEW t \in Tickets
        PROVE  Cardinality(OfTicket(attachments, t)) < MaxAttachments + Cardinality(mode.handlers)
    <3>1. IsFiniteSet(mode.handlers) /\ Cardinality(mode.handlers) \in Nat /\ MaxAttachments \in Nat
      BY ModesGiven, WorkPlanningAssumption DEF TypeInv, TablesTyped
    <3>2. IsFiniteSet(Saving(t))
      BY <3>1, FS_Subset DEF Saving
    <3>3. Cardinality(Saving(t)) \in Nat /\ Cardinality(OfTicket(attachments, t)) \in Nat
      BY <3>2, FS_CardinalityType, AttachmentsCounted DEF TypeInv, TablesTyped
    <3> QED BY <3>1, <3>3 DEF PartsInv, RoomTaken
  <2> QED BY <2>1 DEF PartsInv, FilesInv, UnderWay, SubtasksInv, Dense, Positions, PartsStand, Unavailable, At
<1> QED BY <1>1, InitParts, NextParts, PlanningTyped, PTL DEF Spec
=============================================================================
