------------------------------- MODULE Roadmap -------------------------------
(***************************************************************************)
(* The roadmap as a whole: objectives and their measures beside            *)
(* initiatives, projects and the tickets filed under them.                 *)
(* mode.explores names the handlers a behaviour calls, mode.objectives and *)
(* mode.rows the tables it starts from, mode.fresh the initiatives it may  *)
(* create.                                                                 *)
(***************************************************************************)
EXTENDS RoadmapInitiatives

CONSTANTS
    ObjectiveBodies, ObjectivePatches,
    KeyResultBodies, KeyResultPatches,
    PointPatches,
    MetricValues,       \* captured: metric -> value
    InitiativeBodies, InitiativePatches,
    Bases,              \* slugs of the titles
    TypedPrefixes            \* typed by an owner

ASSUME WellFormedBodies ==
    /\ ObjectiveBodies \subseteq CreateObjectiveDto /\ ObjectivePatches \subseteq UpdateObjectiveDto
    /\ KeyResultBodies \subseteq CreateKeyResultDto /\ KeyResultPatches \subseteq UpdateKeyResultDto
    /\ PointPatches \subseteq TrajectoryPointDto
    /\ InitiativeBodies \subseteq CreateInitiativeDto /\ InitiativePatches \subseteq UpdateInitiativeDto
    /\ MetricValues \subseteq [DOMAIN Metrics -> Int]
    /\ Bases \cup TypedPrefixes \subseteq Seq(STRING)

\* The rows a behaviour starts from: a ticket is filed under none of them yet.
InitiativeRows ==
    [scope : Scopes, status : Statuses, position : Nat, prefix : Seq(STRING), seq : Nat,
     archived : BOOLEAN, objective : Objectives \cup {None}, unit : Units, progress : 0 .. 100]

ASSUME RoadmapAssumption ==
    /\ None \notin Int \cup (Int \X Int) \cup Initiatives /\ LastDay \in Nat
    /\ IsFiniteSet(Handlers) /\ IsFiniteSet(Initiatives)
    /\ \A m \in Modes :
          /\ m.handlers \subseteq Handlers /\ m.fresh \subseteq Initiatives
          /\ m.objectives \in [DOMAIN m.objectives -> ObjectiveRows] /\ IsFiniteSet(DOMAIN m.objectives)
          /\ m.rows \in [DOMAIN m.rows -> InitiativeRows] /\ DOMAIN m.rows \subseteq Initiatives

vars == <<mode, req, plan, measured, work>>

Explores(part) == part \in mode.explores

Init ==
    /\ mode \in Modes
    /\ req = [h \in Handlers |-> Idle]
    /\ objectives = mode.objectives /\ keyResults = << >> /\ points = << >>
    /\ snapshots = [m \in DOMAIN Metrics |-> << >>] /\ day = 0
    /\ initiatives = mode.rows /\ milestones = << >> /\ tickets = << >>

-----------------------------------------------------------------------------
\* The initiatives of an objective that is removed are kept, detached.
RemoveObjectiveDetaching(h, o) ==
    /\ RemoveObjective(h, o)
    /\ initiatives' = [i \in DOMAIN initiatives |->
                         IF initiatives[i].objective = o THEN [initiatives[i] EXCEPT !.objective = None]
                         ELSE initiatives[i]]
    /\ UNCHANGED <<milestones, tickets>>

ObjectiveRequests(h) ==
    \/ /\ Explores("objectives")
       /\ \E o \in Objectives, dto \in ObjectiveBodies : CreateObjective(h, o, dto)
    \/ /\ Explores("objectives") \/ Explores("patches")
       /\ \E o \in Objectives, dto \in ObjectivePatches : UpdateObjective(h, o, dto)
    \/ CheckParent(h) \/ CheckChildren(h) \/ SaveObjective(h)

KeyResultRequests(h) ==
    \/ /\ Explores("keyResults")
       /\ \/ \E k \in KeyResults, o \in Objectives, dto \in KeyResultBodies : CreateKeyResult(h, k, o, dto)
          \/ \E k \in KeyResults, dto \in KeyResultPatches : UpdateKeyResult(h, k, dto)
          \/ \E k \in KeyResults : RemoveKeyResult(h, k)
    \/ /\ Explores("trajectories")
       /\ \/ \E p \in Points, k \in KeyResults, date \in Days, dto \in PointPatches :
                 AddTrajectoryPoint(h, p, k, date, dto)
          \/ \E p \in Points, date \in Days \cup {Keep}, dto \in PointPatches :
                 UpdateTrajectoryPoint(h, p, date, dto)
          \/ \E p \in Points : RemoveTrajectoryPoint(h, p)
    \/ SaveKeyResult(h) \/ SavePoint(h)

BoardRequests(h) ==
    \/ /\ Explores("board")
       /\ \/ \E i \in Initiatives, scope \in Scopes, dto \in InitiativePatches :
                 UpdateInitiative(h, i, scope, dto)
          \/ \E i \in Initiatives, status \in Statuses, n \in 0 .. Cardinality(Initiatives) :
                 Move(h, i, status, n)
    \/ Explores("removals") /\ \E i \in Initiatives : RemoveInitiative(h, i)
    \/ PlanColumns(h) \/ SaveInitiatives(h)

MilestoneRequests(h) ==
    \/ /\ Explores("milestones")
       /\ \/ \E m \in Milestones, i \in Initiatives, done \in BOOLEAN : AddMilestone(h, m, i, done)
          \/ \E m \in Milestones, done \in BOOLEAN : UpdateMilestone(h, m, done)
          \/ \E m \in Milestones : RemoveMilestone(h, m)
    \/ SaveMilestone(h)

ReferenceRequests(h) ==
    \/ /\ Explores("references")
       /\ \/ \E i \in mode.fresh, scope \in Scopes, base \in Bases, dto \in InitiativeBodies :
                 CreateInitiative(h, i, scope, base, dto)
          \/ \E i \in Initiatives, prefix \in TypedPrefixes : UpdateKeyPrefix(h, i, prefix)
          \/ \E i \in Initiatives, scope \in Scopes : UpdateScope(h, i, scope)
          \/ \E i \in Initiatives : RemoveProject(h, i)
          \/ \E i \in Initiatives :
                Explores("archives") /\ (ArchiveProject(h, i) \/ UnarchiveProject(h, i))
    \/ CheckKeyPrefix(h) \/ DeleteProject(h) \/ CountOpenTickets(h)

\* That a ticket is closed is asked by archiveProject() only.
TicketRequests(h) ==
    \/ /\ Explores("tickets")
       /\ \/ \E t \in Tickets, i \in Initiatives, open \in BOOLEAN :
                (open \/ Explores("archives")) /\ CreateTicket(h, t, i, open)
          \/ \E t \in Tickets, i \in Initiatives \cup {None, Keep}, open \in BOOLEAN :
                (open \/ Explores("archives")) /\ UpdateTicket(h, t, i, open)
          \/ \E t \in Tickets : RemoveTicket(h, t)
    \/ NextTaskSeq(h) \/ SaveTicket(h)

Next ==
    \/ \E h \in Handlers :
          \/ ObjectiveRequests(h) /\ UNCHANGED <<measured, work>>
          \/ \E o \in Objectives : Explores("removals") /\ RemoveObjectiveDetaching(h, o) /\ UNCHANGED measured
          \/ KeyResultRequests(h) /\ UNCHANGED <<measured, work>>
          \/ BoardRequests(h) /\ UNCHANGED <<plan, measured>>
          \/ MilestoneRequests(h) /\ UNCHANGED <<plan, measured>>
          \/ ReferenceRequests(h) /\ UNCHANGED <<plan, measured>>
          \/ TicketRequests(h) /\ UNCHANGED <<plan, measured>>
    \/ /\ \/ Explores("calendar") /\ NextDay
          \/ /\ Explores("captures")
             /\ \E values \in MetricValues, tenants \in SUBSET {"tenant"} : CaptureDaily(values, tenants)
       /\ UNCHANGED <<mode, req, plan, work>>

Spec == Init /\ [][Next]_vars

-----------------------------------------------------------------------------
\* A key result that has to fall is read as its mirror image that has to
\* rise: same progress, same position against the plan.
DownMirrorsUp ==
    \A k \in DOMAIN keyResults :
        LET row    == keyResults[k]
            Neg(f) == [d \in DOMAIN f |-> -f[d]]
            mirror == [row EXCEPT !.baseline = -@, !.target = -@]
            shown  == ComputeKeyResult(mirror, Neg(Series(k, "target")), Neg(Series(k, "actual")),
                                       Neg(Measured(row.metric)))
        IN  shown.progress = ViewOf(k).progress /\ shown.status = ViewOf(k).status

\* Ticking off milestones, one after the other, never takes an objective
\* back, however its progress is cascaded.
DoneNeverLowers ==
    [][(/\ UNCHANGED <<objectives, keyResults, points, snapshots, day, initiatives>>
        /\ DOMAIN milestones' = DOMAIN milestones
        /\ \A m \in DOMAIN milestones : milestones[m].done => milestones'[m].done)
       => \A o \in DOMAIN objectives : ObjectiveProgress(o)' >= ObjectiveProgress(o)]_vars

\* The reference of a ticket is the current prefix of the row that numbered
\* it and its number, wherever the ticket was moved since, as long as that row
\* is there: a prefix that is typed anew orphans no reference.
ReferencesReadable ==
    Orderly => \A t \in DOMAIN tickets :
        tickets[t].numbered \in DOMAIN initiatives =>
            tickets[t].reference = TaskReference(initiatives[tickets[t].numbered].prefix, tickets[t].number)
=============================================================================
