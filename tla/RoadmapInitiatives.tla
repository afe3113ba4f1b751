------------------------- MODULE RoadmapInitiatives -------------------------
(***************************************************************************)
(* Initiatives and projects, one table told apart by `scope`: their board, *)
(* prefixes and milestones (roadmap.service.ts), the project side of the   *)
(* studio proxy, and the references that tickets filed under a row take    *)
(* from its prefix and its counter (work-items.service.ts).  A prefix and  *)
(* a reference are sequences of symbols; a removal reads and deletes in    *)
(* one step.                                                               *)
(***************************************************************************)
EXTENDS RoadmapObjectives, SequencesExt

CONSTANTS
    Initiatives, Milestones, Tickets,
    Units,
    Statuses,       \* of the board, "dropped" among them
    MaxSeq          \* bound on task_seq

VARIABLES initiatives, milestones, tickets

work == <<initiatives, milestones, tickets>>

Scopes == {"project", "initiative"}
CreateInitiativeDto ==
    [status : Statuses, unit : Units, objective : Objectives \cup {None}, progress : 0 .. 100]
UpdateInitiativeDto ==
    [status : Statuses \cup {Keep}, objective : Objectives \cup {None, Keep},
     progress : 0 .. 100 \cup {Keep}]

Digits(n) == IF n < 10 THEN <<ToString(n)>> ELSE <<ToString(n \div 10), ToString(n % 10)>>
Padded(n) == IF n < 10 THEN <<"0">> \o Digits(n) ELSE Digits(n)

TaskReference(prefix, n) == prefix \o Padded(n)

Visible(i) == i \in DOMAIN initiatives /\ initiatives[i].unit \in mode.allowed
VisibleAs(i, scope) == Visible(i) /\ initiatives[i].scope = scope

-----------------------------------------------------------------------------
Candidate(base, n) == IF n = 1 THEN base ELSE base \o Digits(n)

GenerateKeyPrefix(base) ==
    LET taken == {initiatives[i].prefix : i \in DOMAIN initiatives}
    IN  Candidate(base, Min({n \in 1 .. Cardinality(taken) + 1 : Candidate(base, n) \notin taken}))

\* What the board, the references and the progress make of a row.
Initiative(scope, rank, prefix, dto) ==
    [scope |-> scope, status |-> dto.status, position |-> rank, prefix |-> prefix, seq |-> 0,
     archived |-> FALSE, objective |-> dto.objective, unit |-> dto.unit, progress |-> dto.progress]

\* A new card goes to the bottom of its column.
CreateInitiative(h, i, scope, base, dto) ==
    /\ MayStart(h) /\ Unused(i, initiatives)
    /\ dto.objective \in DOMAIN objectives \cup {None}
    /\ LET rank == Cardinality({j \in DOMAIN initiatives :
                       initiatives[j].status = dto.status /\ initiatives[j].scope = scope})
       IN Awaits(h, [at |-> "saveInitiatives",
                     rows |-> Single(i, Initiative(scope, rank, GenerateKeyPrefix(base), dto))])
    /\ UNCHANGED work

\* The body of an update; the prefix and the scope are not part of it.
UpdateInitiative(h, i, scope, dto) ==
    /\ MayStart(h) /\ VisibleAs(i, scope)
    /\ dto.objective \in DOMAIN objectives \cup {None, Keep}
    /\ Awaits(h, [at |-> "saveInitiatives",
                  rows |-> Single(i, [initiatives[i] EXCEPT !.objective = Given(dto.objective, @),
                                                            !.status = Given(dto.status, @),
                                                            !.progress = Given(dto.progress, @)])])
    /\ UNCHANGED work

UpdateKeyPrefix(h, i, prefix) ==
    /\ MayStart(h) /\ VisibleAs(i, "initiative") /\ initiatives[i].prefix # prefix
    /\ Awaits(h, [at |-> "prefix", rows |-> Single(i, initiatives[i]), prefix |-> prefix])
    /\ UNCHANGED work

\* Mutant: the tickets that carry the old prefix are not counted.
CheckKeyPrefixUncounted(h) ==
    /\ At(h, "prefix")
    /\ LET i == CHOOSE j \in DOMAIN req[h].rows : TRUE
           clash == \E j \in DOMAIN initiatives : initiatives[j].prefix = req[h].prefix
       IN IF clash THEN Ends(h)
          ELSE Awaits(h, [at |-> "saveInitiatives",
                          rows |-> [req[h].rows EXCEPT ![i].prefix = req[h].prefix]])
    /\ UNCHANGED work

\* No row has the new prefix, and no reference starts with the old one.
CheckKeyPrefix(h) ==
    /\ At(h, "prefix")
    /\ LET i == CHOOSE j \in DOMAIN req[h].rows : TRUE
           clash == \E j \in DOMAIN initiatives : initiatives[j].prefix = req[h].prefix
           used == \E t \in DOMAIN tickets : IsPrefix(req[h].rows[i].prefix, tickets[t].reference)
       IN IF clash \/ used THEN Ends(h)
          ELSE Awaits(h, [at |-> "saveInitiatives",
                          rows |-> [req[h].rows EXCEPT ![i].prefix = req[h].prefix]])
    /\ UNCHANGED work

\* The one handler that looks a row up whatever its scope.
UpdateScope(h, i, scope) ==
    /\ MayStart(h) /\ Visible(i) /\ initiatives[i].scope # scope
    /\ Awaits(h, [at |-> "saveInitiatives", rows |-> Single(i, [initiatives[i] EXCEPT !.scope = scope])])
    /\ UNCHANGED work

\* Every save of rows, in one transaction: the key prefix is unique, the
\* objective is there.
SaveInitiatives(h) ==
    /\ At(h, "saveInitiatives")
    /\ LET rows  == req[h].rows
           after == WithAll(initiatives, rows)
           fits  == /\ \A i \in DOMAIN rows : rows[i].objective \in DOMAIN objectives \cup {None}
                    /\ \A i \in DOMAIN rows, j \in DOMAIN after :
                           i # j => rows[i].prefix # after[j].prefix
       IN initiatives' = IF fits THEN after ELSE initiatives
    /\ Ends(h)
    /\ UNCHANGED <<milestones, tickets>>

-----------------------------------------------------------------------------
\* Rank first, then the identifier.
Below(rows, i, j) ==
    \/ rows[i].position < rows[j].position
    \/ rows[i].position = rows[j].position /\ i < j

\* The cards of a column, the moved one left out.
Column(rows, status, moved) == {i \in DOMAIN rows \ {moved} : rows[i].status = status}

Rank(rows, column, i) == Cardinality({j \in column : Below(rows, j, i)})

\* Both columns are ranked again around the moved card; the rows that change.
PlanMove(rows, moved, status, position) ==
    LET target == Column(rows, status, moved)
        source == Column(rows, rows[moved].status, moved) \ target
        index  == Min({position, Cardinality(target)})
        rank(i) == IF i = moved THEN index
                   ELSE IF i \in source THEN Rank(rows, source, i)
                   ELSE Rank(rows, target, i) + (IF Rank(rows, target, i) < index THEN 0 ELSE 1)
        placed(i) == [rows[i] EXCEPT !.status = IF i \in source THEN @ ELSE status,
                                     !.position = rank(i)]
    IN  [i \in {j \in target \cup source \cup {moved} : placed(j) # rows[j]} |-> placed(i)]

Move(h, i, status, position) ==
    /\ MayStart(h) /\ VisibleAs(i, "initiative")
    /\ Awaits(h, [at |-> "columns", id |-> i, from |-> initiatives[i].status, to |-> status,
                  position |-> position])
    /\ UNCHANGED work

\* The two columns, as far as the caller may see them.
PlanColumns(h) ==
    /\ At(h, "columns")
    /\ LET r == req[h]
           columns == [j \in {k \in DOMAIN initiatives :
                                 VisibleAs(k, "initiative")
                                   /\ initiatives[k].status \in {r.from, r.to}} |-> initiatives[j]]
           changed == IF r.id \in DOMAIN columns THEN PlanMove(columns, r.id, r.to, r.position)
                         ELSE << >>
       IN IF DOMAIN changed = {} THEN Ends(h)
          ELSE Awaits(h, [at |-> "saveInitiatives", rows |-> changed])
    /\ UNCHANGED work

-----------------------------------------------------------------------------
\* Milestones go with their initiative, tickets stay without a project; a
\* row numbers a ticket as long as it is there.
DeleteInitiative(i) ==
    /\ initiatives' = Without(initiatives, {i})
    /\ milestones' = Without(milestones, {m \in DOMAIN milestones : milestones[m].initiative = i})
    /\ tickets' = [t \in DOMAIN tickets |->
                     [tickets[t] EXCEPT !.project = IF @ = i THEN None ELSE @,
                                        !.numbered = IF @ = i THEN None ELSE @]]

RemoveInitiative(h, i) ==
    /\ MayStart(h) /\ VisibleAs(i, "initiative")
    /\ DeleteInitiative(i)
    /\ UNCHANGED <<mode, req>>

TicketsOf(i) == {t \in DOMAIN tickets : tickets[t].project = i}

\* Eleven kinds of dependents block it; milestones and tickets are the two kept here.
RemoveProject(h, i) ==
    /\ MayStart(h) /\ VisibleAs(i, "project")
    /\ TicketsOf(i) = {} /\ \A m \in DOMAIN milestones : milestones[m].initiative # i
    /\ Awaits(h, [at |-> "removeProject", id |-> i])
    /\ UNCHANGED work

DeleteProject(h) ==
    /\ At(h, "removeProject")
    /\ DeleteInitiative(req[h].id)
    /\ Ends(h)

\* Not while one of its tickets is open.
ArchiveProject(h, i) ==
    /\ MayStart(h) /\ VisibleAs(i, "project") /\ ~initiatives[i].archived
    /\ Awaits(h, [at |-> "open", id |-> i, row |-> initiatives[i]])
    /\ UNCHANGED work

CountOpenTickets(h) ==
    /\ At(h, "open")
    /\ IF \E t \in TicketsOf(req[h].id) : tickets[t].open THEN Ends(h)
       ELSE Awaits(h, [at |-> "saveInitiatives",
                       rows |-> Single(req[h].id, [req[h].row EXCEPT !.archived = TRUE])])
    /\ UNCHANGED work

UnarchiveProject(h, i) ==
    /\ MayStart(h) /\ VisibleAs(i, "project")
    /\ Awaits(h, [at |-> "saveInitiatives",
                  rows |-> Single(i, [initiatives[i] EXCEPT !.archived = FALSE])])
    /\ UNCHANGED work

-----------------------------------------------------------------------------
Milestone(i, done) == [initiative |-> i, done |-> done]

AddMilestone(h, m, i, done) ==
    /\ MayStart(h) /\ Unused(m, milestones) /\ i \in DOMAIN initiatives
    /\ Awaits(h, [at |-> "saveMilestone", id |-> m, row |-> Milestone(i, done)])
    /\ UNCHANGED work

UpdateMilestone(h, m, done) ==
    /\ MayStart(h) /\ m \in DOMAIN milestones
    /\ Awaits(h, [at |-> "saveMilestone", id |-> m, row |-> [milestones[m] EXCEPT !.done = done]])
    /\ UNCHANGED work

SaveMilestone(h) ==
    /\ At(h, "saveMilestone")
    /\ milestones' = IF req[h].row.initiative \in DOMAIN initiatives
                     THEN With(milestones, req[h].id, req[h].row) ELSE milestones
    /\ Ends(h)
    /\ UNCHANGED <<initiatives, tickets>>

RemoveMilestone(h, m) ==
    /\ MayStart(h) /\ m \in DOMAIN milestones
    /\ milestones' = Without(milestones, {m})
    /\ UNCHANGED <<initiatives, tickets, mode, req>>

-----------------------------------------------------------------------------
\* `numbered` is the row whose counter and prefix made the reference; a
\* ticket that is not open is resolved.
Ticket(i, open, prefix, n) ==
    [project |-> i, open |-> open, numbered |-> i, number |-> n,
     reference |-> TaskReference(prefix, n)]

\* Any row takes tickets, whatever its scope and archived or not.
CreateTicket(h, t, i, open) ==
    /\ MayStart(h) /\ Unused(t, tickets) /\ i \in DOMAIN initiatives
    /\ Awaits(h, [at |-> "nextTaskSeq", id |-> t, open |-> open, project |-> i,
                  prefix |-> initiatives[i].prefix])
    /\ UNCHANGED work

\* Incremented by the database; the counter of a row that is gone has no value.
NextTaskSeq(h) ==
    /\ At(h, "nextTaskSeq")
    /\ LET i == req[h].project
       IN IF i \notin DOMAIN initiatives THEN Ends(h) /\ UNCHANGED initiatives
          ELSE /\ initiatives[i].seq < MaxSeq
               /\ initiatives' = [initiatives EXCEPT ![i].seq = @ + 1]
               /\ Awaits(h, [at |-> "saveTicket", id |-> req[h].id,
                             row |-> Ticket(i, req[h].open, req[h].prefix, initiatives[i].seq + 1)])
    /\ UNCHANGED <<milestones, tickets>>

\* Any row it is moved to leaves the reference what it was; so does none.
UpdateTicket(h, t, i, open) ==
    /\ MayStart(h) /\ t \in DOMAIN tickets /\ i \in DOMAIN initiatives \cup {None, Keep}
    /\ Awaits(h, [at |-> "saveTicket", id |-> t,
                  row |-> [tickets[t] EXCEPT !.project = Given(i, @), !.open = open]])
    /\ UNCHANGED work

\* Refused when the reference is another ticket's, or the row gone.
SaveTicket(h) ==
    /\ At(h, "saveTicket")
    /\ LET row == req[h].row
           fits == /\ row.project \in DOMAIN initiatives \cup {None}
                   /\ \A t \in DOMAIN tickets \ {req[h].id} : tickets[t].reference # row.reference
       IN tickets' = IF fits THEN With(tickets, req[h].id, row) ELSE tickets
    /\ Ends(h)
    /\ UNCHANGED <<initiatives, milestones>>

RemoveTicket(h, t) ==
    /\ MayStart(h) /\ t \in DOMAIN tickets
    /\ tickets' = Without(tickets, {t})
    /\ UNCHANGED <<initiatives, milestones, mode, req>>

-----------------------------------------------------------------------------
\* The progress shown: derived when it is read, never written back.
InitiativeProgress(i) ==
    DeriveInitiativeProgress(initiatives[i].progress,
        {[done |-> milestones[m].done, id |-> m] : m \in {n \in DOMAIN milestones : milestones[n].initiative = i}})

InitiativesOf(o) == {i \in DOMAIN initiatives : initiatives[i].objective = o
                                                  /\ initiatives[i].scope = "initiative"}

KeyResultProgressOf(o) == [k \in KeyResultsOf(o) |-> ViewOf(k).progress]

ViewsOf(o) == [i \in InitiativesOf(o) |-> [status |-> initiatives[i].status,
                                           progress |-> InitiativeProgress(i)]]

\* The cascade stops at the second level.
ObjectiveProgress(o) ==
    LET children == {c \in DOMAIN objectives : objectives[c].parent = o}
        leaf(c)  == DeriveCascadedProgress(objectives[c].progress, KeyResultProgressOf(c), << >>, ViewsOf(c))
    IN  DeriveCascadedProgress(objectives[o].progress, KeyResultProgressOf(o),
                               [c \in children |-> leaf(c)], ViewsOf(o))
=============================================================================
