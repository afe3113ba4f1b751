------------------------------ MODULE WorkItems ------------------------------
(***************************************************************************)
(* Tickets and the requests that change them, work-items.service.ts.       *)
(*                                                                         *)
(* items is the work_items table.  A handler reads rows, awaits, and later *)
(* saves what it read, changed in memory: req[p] says where process p is   *)
(* between two awaits and held[p] which rows it holds, stale or not.       *)
(* repository.save(rows) overwrites the rows with the snapshots in one     *)
(* transaction, inserting again a row that was deleted in between;         *)
(* repository.update(...) writes only its columns, on the rows of now.     *)
(*                                                                         *)
(* A date is its age in days: resolvedAt runs from 0 to Window, the reopen *)
(* window, and stays there; of closedAt only whether it is set is kept.    *)
(***************************************************************************)
EXTENDS Integers, FiniteSets, WorkItemRules

CONSTANTS
    Clients,        \* concurrent HTTP requests
    Closer,         \* StudioResolvedCloserScheduler's daily run
    MaxInFlight,    \* how many handlers may be between two awaits at once
    MaxItems,       \* bound on the tickets ever created
    Window,         \* REOPEN_WINDOW_MS, in days
    Projects,       \* roadmap initiatives tickets are filed under
    NoProject, Keep,
    Workloads       \* what requests may ask for, see Workload

ASSUME WorkItemsAssumption ==
    /\ MaxItems \in Nat /\ MaxInFlight \in Nat /\ Window \in Nat \ {0}
    /\ Closer \notin Clients
    /\ NoProject \notin Projects
    /\ \A w \in Workloads :
          /\ w.tickets \in 0 .. MaxItems
          /\ w.statuses \subseteq {"triage", "todo", "in_progress", "blocked",
                                   "review", "resolved", "closed"}
          /\ w.types \subseteq WorkItemTypes
          /\ w.parents \subseteq 0 .. MaxItems
          /\ w.projects \subseteq Projects
    /\ Keep \notin WorkItemTypes \cup Projects \cup Int
    /\ Keep \notin {"triage", "todo", "in_progress", "blocked",
                    "review", "resolved", "closed"}

VARIABLES
    items,      \* work_items: id -> row
    nextId,     \* its serial primary key
    taskSeq,    \* roadmap_initiatives.task_seq, per project
    req,        \* per process, the handler in flight
    held,       \* per process, the rows it read, or is ready to save
    workload    \* the inputs of this behaviour; never changes

vars == <<items, nextId, taskSeq, req, held, workload>>
tables == <<items, nextId, taskSeq>>

-----------------------------------------------------------------------------
Statuses == {"triage", "todo", "in_progress", "blocked", "review", "resolved", "closed"}

Ids == 1 .. MaxItems

Processes == Clients \cup {Closer}

NoDate == -1

\* A reference T<keyPrefix><NN> is kept as the draw it renders: the project
\* whose counter it came from and the number drawn.
NoReference == <<NoProject, 0>>

References == (Projects \X (Nat \ {0})) \cup {NoReference}

Rows == [status : Statuses, type : WorkItemTypes, parent : Ids \cup {NoParent},
         project : Projects \cup {NoProject}, reference : References,
         position : Nat, resolvedAt : NoDate .. Window, closedAt : {NoDate, 0}]

\* The key, in a request, of the row it is about to insert.
Draft == 0

IsTable(t, keys) == DOMAIN t \subseteq keys /\ t \in [DOMAIN t -> Rows]

\* A request body; Keep is an absent property.
Dtos == [status : Statuses \cup {Keep}, type : WorkItemTypes \cup {Keep},
         parent : Ids \cup {NoParent, Keep}, project : Projects \cup {Keep},
         at : 0 .. MaxItems]

NoDto == [status |-> Keep, type |-> Keep, parent |-> Keep, project |-> Keep, at |-> 0]

Pcs == {"idle", "reserve", "count", "insert", "ancestors", "update", "plan",
        "save", "triage"}

\* cursor is the one of assertParentAllowed's walk.
Requests == [pc : Pcs, id : Ids \cup {0}, dto : Dtos, cursor : Ids \cup {NoParent}]

Idle == [pc |-> "idle", id |-> 0, dto |-> NoDto, cursor |-> NoParent]

EmptyTable == [i \in {} |-> Idle]

\* The table with one row.
Row(id, row) == [i \in {id} |-> row]

Init ==
    /\ items = EmptyTable
    /\ nextId = 1
    /\ taskSeq = [p \in Projects |-> 0]
    /\ req = [p \in Processes |-> Idle]
    /\ held = [p \in Processes |-> EmptyTable]
    /\ workload \in Workloads

-----------------------------------------------------------------------------
\* repository.save(rows): whole-row upsert.
Upsert(table, rows) ==
    [i \in DOMAIN table \cup DOMAIN rows |->
        IF i \in DOMAIN rows THEN rows[i] ELSE table[i]]

\* parent_id's foreign key, ON DELETE SET NULL.
ParentsExist(table) ==
    \A i \in DOMAIN table : table[i].parent \in DOMAIN table \cup {NoParent}

\* A handler starts; the sequential runs allow one at a time.
MayStart(p) ==
    /\ req[p].pc = "idle"
    /\ Cardinality({q \in Processes : req[q].pc # "idle"}) < MaxInFlight

\* It reaches its next await at r, holding rows; or it answers.
Awaits(p, r, rows) ==
    /\ req' = [req EXCEPT ![p] = r]
    /\ held' = [held EXCEPT ![p] = rows]
    /\ UNCHANGED workload

Ends(p) == Awaits(p, Idle, EmptyTable)

\* applyStatusTimestamps
Stamped(row, previousStatus) ==
    IF row.status = previousStatus THEN row
    ELSE [row EXCEPT
            !.resolvedAt = IF row.status = "resolved" THEN 0
                           ELSE IF previousStatus = "resolved" THEN NoDate ELSE @,
            !.closedAt   = IF row.status = "closed" THEN 0 ELSE @]

\* Mutant: closed tickets may be changed.
MutableAlways(row) == TRUE

\* assertMutable
Mutable(row) == row.status # "closed"

\* count({ where: { status } })
CountOf(status) == Cardinality({i \in DOMAIN items : items[i].status = status})

-----------------------------------------------------------------------------
\* create(): count the column, stamp the dates, draw a number, insert.
NewRow(status, type, project, position) ==
    [status |-> status, type |-> type, parent |-> NoParent,
     project |-> project, reference |-> NoReference, position |-> position,
     resolvedAt |-> IF status = "resolved" THEN 0 ELSE NoDate,
     closedAt   |-> IF status = "closed" THEN 0 ELSE NoDate]

\* Bound: tickets created and creates in flight never exceed the workload's.
RoomForOne ==
    nextId + Cardinality({q \in Processes : req[q].pc \in {"reserve", "count", "insert"}})
        <= workload.tickets

CreateCount(p, status, type, project) ==
    /\ RoomForOne
    /\ MayStart(p)
    /\ Awaits(p, [Idle EXCEPT !.pc = "reserve"],
              Row(Draft, NewRow(status, type, project, CountOf(status))))
    /\ UNCHANGED tables

\* Mutant: the number is read, and the counter is not moved.
NextTaskSeqReadOnly(project) == taskSeq' = taskSeq

\* nextTaskSeq: UPDATE ... SET task_seq = task_seq + 1 RETURNING task_seq
NextTaskSeq(project) == taskSeq' = [taskSeq EXCEPT ![project] = @ + 1]

CreateReserve(p) ==
    /\ req[p].pc = "reserve"
    /\ LET draft == held[p][Draft]
       IN /\ NextTaskSeq(draft.project)
          /\ Awaits(p, [Idle EXCEPT !.pc = "insert"],
                Row(Draft, [draft EXCEPT !.reference =
                              <<draft.project, taskSeq[draft.project] + 1>>]))
    /\ UNCHANGED <<items, nextId>>

\* The INSERT that ends create() and capture().
Insert(p) ==
    /\ req[p].pc = "insert"
    /\ nextId <= MaxItems
    /\ items' = Upsert(items, Row(nextId, held[p][Draft]))
    /\ nextId' = nextId + 1
    /\ Ends(p)
    /\ UNCHANGED taskSeq

\* capture(): the project is optional; without one there is no reference.
Capture(p, type, project) ==
    /\ RoomForOne
    /\ MayStart(p)
    /\ Awaits(p, [Idle EXCEPT !.pc = "count"],
              Row(Draft, [NewRow("todo", type, project, 0) EXCEPT
                            !.reference = IF project = NoProject THEN NoReference
                                          ELSE <<project, taskSeq[project] + 1>>]))
    /\ IF project = NoProject THEN UNCHANGED taskSeq ELSE NextTaskSeq(project)
    /\ UNCHANGED <<items, nextId>>

CaptureCount(p) ==
    /\ req[p].pc = "count"
    /\ Awaits(p, [Idle EXCEPT !.pc = "insert"],
              Row(Draft, [held[p][Draft] EXCEPT !.position = CountOf("todo")]))
    /\ UNCHANGED tables

-----------------------------------------------------------------------------
\* update(): read the row, refuse a closed one; a new parent is looked up.
UpdateFind(p, id, dto) ==
    /\ MayStart(p)
    /\ id \in DOMAIN items
    /\ Mutable(items[id])
    /\ LET walks == dto.parent \notin {Keep, NoParent, items[id].parent}
       IN Awaits(p, [pc |-> IF walks THEN "ancestors" ELSE "update",
                     id |-> id, dto |-> dto,
                     cursor |-> IF walks THEN dto.parent ELSE NoParent],
                 Row(id, items[id]))
    /\ UNCHANGED tables

\* assertParentAllowed: one findOne per ancestor.  A missing parent is a 404, a
\* missing ancestor ends the chain.
ReadAncestor(p) ==
    /\ req[p].pc = "ancestors"
    /\ LET r == req[p]
       IN /\ r.cursor \notin DOMAIN held[p] \cup {NoParent}
          /\ IF r.cursor \in DOMAIN items
             THEN Awaits(p, [r EXCEPT !.cursor = items[r.cursor].parent],
                         Upsert(held[p], Row(r.cursor, items[r.cursor])))
             ELSE IF r.cursor = r.dto.parent THEN Ends(p)
             ELSE Awaits(p, [r EXCEPT !.cursor = NoParent], held[p])
    /\ UNCHANGED tables

\* The chain is loaded: checkParent decides, with the type the row had.
ParentVerdict(p) ==
    /\ req[p].pc = "ancestors"
    /\ LET r == req[p]
       IN /\ r.cursor \in DOMAIN held[p] \cup {NoParent}
          /\ IF CheckParent(r.id, held[p][r.id].type, r.dto.parent, held[p]) = "legal"
             THEN Awaits(p, [r EXCEPT !.pc = "update", !.cursor = NoParent],
                         Row(r.id, held[p][r.id]))
             ELSE Ends(p)
    /\ UNCHANGED tables

\* Object.assign(item, dto): what is absent from the body keeps its value.
Given(value, current) == IF value = Keep THEN current ELSE value

Assigned(row, dto) ==
    [row EXCEPT !.status = Given(dto.status, @), !.type = Given(dto.type, @),
                !.parent = Given(dto.parent, @), !.project = Given(dto.project, @)]

UpdateSave(p) ==
    /\ req[p].pc = "update"
    /\ LET id    == req[p].id
           found == held[p][id]
           after == Upsert(items,
                        Row(id, Stamped(Assigned(found, req[p].dto), found.status)))
       IN items' = IF ParentsExist(after) THEN after ELSE items
    /\ Ends(p)
    /\ UNCHANGED <<nextId, taskSeq>>

-----------------------------------------------------------------------------
\* move(): read the ticket, read the whole board, plan, save the changed rows.
MoveFind(p, id, status, at) ==
    /\ MayStart(p)
    /\ id \in DOMAIN items
    /\ Mutable(items[id])
    /\ Awaits(p, [Idle EXCEPT !.pc = "plan", !.id = id,
                    !.dto = [NoDto EXCEPT !.status = status, !.at = at]],
              Row(id, items[id]))
    /\ UNCHANGED tables

\* Mutant: only the moved ticket is saved, not the siblings it displaced.
MovedRowAlone(id, item, placements) ==
    [i \in {id} \cap DOMAIN placements |->
        Stamped([item EXCEPT !.status = placements[i].status,
                             !.position = placements[i].position], item.status)]

\* The moved row is the one findOne returned, its siblings are from find().
MovedRows(id, item, placements) ==
    [i \in DOMAIN placements |->
        LET row == IF i = id THEN item ELSE items[i]
            placed == [row EXCEPT !.status = placements[i].status,
                                  !.position = placements[i].position]
        IN IF i = id THEN Stamped(placed, item.status) ELSE placed]

MovePlan(p) ==
    /\ req[p].pc = "plan"
    /\ LET r == req[p]
           placements == PlanMove(items, r.id, r.dto.status, r.dto.at)
       IN IF DOMAIN placements = {} THEN Ends(p)
          ELSE Awaits(p, [Idle EXCEPT !.pc = "save", !.id = r.id],
                      MovedRows(r.id, held[p][r.id], placements))
    /\ UNCHANGED tables

\* repository.save(rows), of move() and of closeExpiredResolved().
Save(p) ==
    /\ req[p].pc = "save"
    /\ LET after == Upsert(items, held[p])
       IN items' = IF ParentsExist(after) THEN after ELSE items
    /\ Ends(p)
    /\ UNCHANGED <<nextId, taskSeq>>

-----------------------------------------------------------------------------
\* Mutant: the search asks for dates strictly older than the oldest.
ExpiredNever ==
    {i \in DOMAIN items : items[i].status = "resolved" /\ items[i].resolvedAt > Window}

\* closeExpiredResolved(): the resolved tickets whose window is over.
Expired ==
    {i \in DOMAIN items : items[i].status = "resolved" /\ items[i].resolvedAt = Window}

CloserFind ==
    /\ MayStart(Closer)
    /\ Expired # {}
    /\ Awaits(Closer, [Idle EXCEPT !.pc = "save"],
              [i \in Expired |-> [items[i] EXCEPT !.status = "closed", !.closedAt = 0]])
    /\ UNCHANGED tables

-----------------------------------------------------------------------------
\* decideTriage(): keep the ids read in triage, then one UPDATE on all of them.
TriageFind(p, ids, decision) ==
    /\ MayStart(p)
    /\ LET moved == {i \in ids \cap DOMAIN items : items[i].status = "triage"}
       IN /\ moved # {}
          /\ Awaits(p, [Idle EXCEPT !.pc = "triage",
                          !.dto = [NoDto EXCEPT !.status = decision]],
                    [i \in moved |-> items[i]])
    /\ UNCHANGED tables

\* Mutant: a dismissed proposal is closed without a date.
DismissedUndated(row, decision) == [row EXCEPT !.status = decision]

Decided(row, decision) ==
    [row EXCEPT !.status = decision,
                !.closedAt = IF decision = "closed" THEN 0 ELSE @]

TriageUpdate(p) ==
    /\ req[p].pc = "triage"
    /\ items' = [i \in DOMAIN items |->
                    IF i \in DOMAIN held[p]
                    THEN Decided(items[i], req[p].dto.status) ELSE items[i]]
    /\ Ends(p)
    /\ UNCHANGED <<nextId, taskSeq>>

-----------------------------------------------------------------------------
\* removeTask(): DELETE, no guard; the children's parent_id becomes null.
RemoveTask(p, id) ==
    /\ MayStart(p)
    /\ id \in DOMAIN items
    /\ items' = [i \in DOMAIN items \ {id} |->
                    IF items[i].parent = id THEN [items[i] EXCEPT !.parent = NoParent]
                    ELSE items[i]]
    /\ UNCHANGED <<nextId, taskSeq, req, held, workload>>

\* A day passes, for the rows and for the snapshots of them alike.
Aged(row) ==
    [row EXCEPT !.resolvedAt = IF @ \in {NoDate, Window} THEN @ ELSE @ + 1]

AgedTable(table) == [i \in DOMAIN table |-> Aged(table[i])]

Tick ==
    /\ items' = AgedTable(items)
    /\ held' = [p \in Processes |-> AgedTable(held[p])]
    /\ UNCHANGED <<nextId, taskSeq, req, workload>>

-----------------------------------------------------------------------------
\* UpdateWorkItemDto has no status; the studio's UpdateTaskDto has no type and
\* no parent.
UpdateDtos ==
    [status : {Keep}, type : workload.types \cup {Keep}, parent : workload.parents \cup {Keep},
     project : workload.projects \cup {Keep}, at : {0}]
    \cup [status : workload.statuses \cup {Keep}, type : {Keep}, parent : {Keep},
          project : workload.projects \cup {Keep}, at : {0}]

Request(p) ==
    \/ \E s \in workload.statuses \cup {"todo"}, t \in workload.types \cup {"task"},
          j \in Projects : CreateCount(p, s, t, j)
    \/ \E t \in workload.types \cup {"task"}, j \in Projects \cup {NoProject} : Capture(p, t, j)
    \/ \E i \in Ids, d \in UpdateDtos : UpdateFind(p, i, d)
    \/ \E i \in Ids, s \in workload.statuses, at \in 0 .. workload.tickets : MoveFind(p, i, s, at)
    \/ \E is \in SUBSET Ids, d \in {"todo", "closed"} : TriageFind(p, is, d)
    \/ \E i \in Ids : RemoveTask(p, i)

Step(p) ==
    \/ CreateReserve(p) \/ CaptureCount(p) \/ Insert(p)
    \/ ReadAncestor(p) \/ ParentVerdict(p) \/ UpdateSave(p)
    \/ MovePlan(p) \/ TriageUpdate(p)

Next ==
    \/ \E p \in Clients : Request(p) \/ Step(p)
    \/ \E p \in Processes : Save(p)
    \/ CloserFind
    \/ Tick

Spec == Init /\ [][Next]_vars

\* Time passes, the cron fires every day and its save completes.
Fairness == WF_vars(Tick) /\ WF_vars(CloserFind) /\ WF_vars(Save(Closer))

FairSpec == Spec /\ Fairness

-----------------------------------------------------------------------------
TypeOK ==
    /\ IsTable(items, Ids)
    /\ nextId \in 1 .. MaxItems + 1
    /\ taskSeq \in [Projects -> Nat]
    /\ req \in [Processes -> Requests]
    /\ DOMAIN held = Processes
    /\ \A p \in Processes : IsTable(held[p], Ids \cup {Draft})
    /\ workload \in Workloads

\* Every row the system holds, in the table or in a handler's hands.
StampedRow(row) ==
    /\ row.status = "resolved" => row.resolvedAt # NoDate
    /\ row.status = "closed" => row.closedAt # NoDate

\* A resolved ticket has the date the daily closer searches by and a closed one
\* its closing date (resolvedAt and closedAt of work-item.entity.ts), whatever
\* handlers overlap: a ticket without it would stay resolved for ever.
DatesStamped == \A i \in DOMAIN items : StampedRow(items[i])

\* Two tickets never carry the same reference, even when overlapping creates
\* draw numbers and stale saves bring deleted rows back (nextTaskSeq).
ReferencesDistinct ==
    \A i, j \in DOMAIN items :
        i # j /\ items[i].reference = items[j].reference
            => items[i].reference = NoReference

\* No ticket is ever its own ancestor, whatever types change in between:
\* assertParentAllowed loads the chain row by row and refuses every link that
\* would close a cycle, and a link refused as a cycle really would close one.
CyclesAndOnlyCyclesRefused ==
    /\ \A i \in DOMAIN items : i \notin Walked(items, i)
    /\ \A p \in Clients :
          LET r == req[p]
          IN  /\ r.pc = "ancestors"
              /\ r.cursor \in DOMAIN held[p] \cup {NoParent}
              /\ CheckParent(r.id, held[p][r.id].type, r.dto.parent, held[p]) = "cycle"
              => r.id \in Walked(items, r.dto.parent)

\* Closed tickets are read-only: what a row says is frozen once it is closed,
\* except its rank and its link to a deleted parent.
ClosedRowsFrozen ==
    [][\A i \in DOMAIN items \cap DOMAIN items' :
          items[i].status = "closed" =>
            [items[i] EXCEPT !.position = 0, !.parent = 0, !.resolvedAt = 0]
              = [items'[i] EXCEPT !.position = 0, !.parent = 0, !.resolvedAt = 0]]_vars

\* A saved move leaves both columns it touched without a gap or a duplicate
\* rank (planMove's re-densifying, through the rows that are really saved).
MoveLeavesDenseColumns ==
    [][\A p \in Clients :
          req[p].pc = "save" /\ req'[p].pc = "idle" /\ items' # items
            => /\ DenseColumn(items', items[req[p].id].status)
               /\ DenseColumn(items', items'[req[p].id].status)]_vars

\* No ticket stays resolved for ever: it is reopened, removed or closed.
ResolvedEndsOneDay ==
    \A i \in Ids :
        (i \in DOMAIN items /\ items[i].status = "resolved")
            ~> ~(i \in DOMAIN items /\ items[i].status = "resolved")
=============================================================================
