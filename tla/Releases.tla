------------------------------ MODULE Releases ------------------------------
(***************************************************************************)
(* The release registry and the release a ticket aims at:                  *)
(* releases.service.ts.  Each operation is cut at its awaits; req[h] holds *)
(* where handler h is and what it has read.  The module is composed with   *)
(* the imports that also write tickets and look versions up                *)
(* (ExecutionImport), so it says of a row only what it needs: a parent and *)
(* a release.                                                              *)
(***************************************************************************)
EXTENDS Naturals, FiniteSets, Sequences

CONSTANTS
    Tickets, ReleaseIds,
    Versions,       \* what a release calls itself: unique in the database
    None,
    Keep,           \* a property absent from the body
    Handlers,
    Modes           \* what a run explores: see ExecutionImportAssumption

VARIABLES
    items,      \* work_items: id -> row with at least parent and release
    releases,   \* releases: id -> [version, status, dated]
    req,
    mode

-----------------------------------------------------------------------------
ReleaseStatuses == {"planned", "in_progress", "released", "cancelled"}

Idle == [at |-> "idle"]

MayStart(h) ==
    /\ req[h].at = "idle"
    /\ Cardinality({g \in Handlers : req[g].at # "idle"}) < mode.inFlight

Awaits(h, r) == req' = [req EXCEPT ![h] = r] /\ UNCHANGED mode

Ends(h) == Awaits(h, Idle)

With(table, key, row) ==
    [k \in DOMAIN table \cup {key} |-> IF k = key THEN row ELSE table[k]]

Given(value, current) == IF value = Keep THEN current ELSE value

\* The foreign key release_id.
ReleaseExists(r) == r \in DOMAIN releases \cup {None}

\* The unique index on version.
VersionTaken(v, r) == \E q \in DOMAIN releases \ {r} : releases[q].version = v

-----------------------------------------------------------------------------
Release(v, status) == [version |-> v, status |-> status, dated |-> FALSE]

\* create(): the version must be free; released_at starts null.
CreateRelease(h, r, v, status) ==
    /\ MayStart(h)
    /\ r \notin DOMAIN releases
    /\ \A g \in Handlers : req[g].at = "save release" => req[g].release # r
    /\ ~VersionTaken(v, r)
    /\ Awaits(h, [at |-> "save release", release |-> r,
                  row |-> Release(v, status)])
    /\ UNCHANGED <<items, releases>>

\* applyStatus: dated by the passage to released, erased by going back.
ApplyStatus(row, status) ==
    [row EXCEPT !.status = status,
                !.dated = status = "released" /\ (@ \/ row.status # "released")]

UpdateRelease(h, r, v, status) ==
    /\ MayStart(h)
    /\ r \in DOMAIN releases
    /\ LET found == releases[r]
           named == [found EXCEPT !.version = Given(v, @)]
       IN Awaits(h, [at |-> IF named = found THEN "save release" ELSE "version free",
                     release |-> r,
                     row |-> IF status = Keep THEN named ELSE ApplyStatus(named, status)])
    /\ UNCHANGED <<items, releases>>

VersionFree(h) ==
    /\ req[h].at = "version free"
    /\ IF VersionTaken(req[h].row.version, None)
       THEN Ends(h) ELSE Awaits(h, [req[h] EXCEPT !.at = "save release"])
    /\ UNCHANGED <<items, releases>>

\* The whole row is written, unless its version has been taken meanwhile.
SaveRelease(h) ==
    /\ req[h].at = "save release"
    /\ releases' = IF VersionTaken(req[h].row.version, req[h].release) THEN releases
                   ELSE With(releases, req[h].release, req[h].row)
    /\ Ends(h)
    /\ UNCHANGED items

\* remove(): refused while a ticket aims at the release ...
RemoveRelease(h, r) ==
    /\ MayStart(h)
    /\ r \in DOMAIN releases
    /\ \A t \in DOMAIN items : items[t].release # r
    /\ Awaits(h, [at |-> "delete release", release |-> r])
    /\ UNCHANGED <<items, releases>>

\* ... and ON DELETE SET NULL for those that aim at it by now.
DeleteRelease(h) ==
    /\ req[h].at = "delete release"
    /\ releases' = [q \in DOMAIN releases \ {req[h].release} |-> releases[q]]
    /\ items' = [t \in DOMAIN items |->
                    IF items[t].release = req[h].release
                    THEN [items[t] EXCEPT !.release = None] ELSE items[t]]
    /\ Ends(h)

-----------------------------------------------------------------------------
\* assignToWorkItem: the ticket is read, then the release it is to aim at.
Assign(h, t, r) ==
    /\ MayStart(h)
    /\ t \in DOMAIN items
    /\ Awaits(h, [at |-> "release exists", ticket |-> t, release |-> r, row |-> items[t]])
    /\ UNCHANGED <<items, releases>>

AssignFind(h) ==
    /\ req[h].at = "release exists"
    /\ IF ReleaseExists(req[h].release) /\ req[h].row.release # req[h].release
       THEN Awaits(h, [req[h] EXCEPT !.at = "save assigned"]) ELSE Ends(h)
    /\ UNCHANGED <<items, releases>>

\* The ticket's whole row, as it was read, with its new release.
AssignSave(h) ==
    /\ req[h].at = "save assigned"
    /\ LET r == req[h]
       IN IF ReleaseExists(r.release)
          THEN /\ items' = [items EXCEPT ![r.ticket] = [r.row EXCEPT !.release = r.release]]
               /\ Awaits(h, [at |-> "descend", ticket |-> r.ticket, release |-> r.release,
                             previous |-> r.row.release, depth |-> 0,
                             frontier |-> {r.ticket}, seen |-> {r.ticket}, followers |-> {}])
          ELSE Ends(h) /\ UNCHANGED items
    /\ UNCHANGED releases

\* `depth < 8` of descendantsOf.
MaxDepth == 8

\* A child someone sent to another release on purpose keeps it.
Follows(release, previous) == release \in {None, previous}

\* Mutant: the children only, not their children.
DescendOnce(h) ==
    /\ req[h].at = "descend"
    /\ LET r == req[h]
           children == {t \in DOMAIN items : items[t].parent \in r.frontier} \ r.seen
       IN Awaits(h, [r EXCEPT !.at = "cascade",
                       !.followers = {t \in children : Follows(items[t].release, r.previous)}])
    /\ UNCHANGED <<items, releases>>

\* One level of descendantsOf: one query.
Descend(h) ==
    /\ req[h].at = "descend"
    /\ LET r == req[h]
           children == {t \in DOMAIN items : items[t].parent \in r.frontier} \ r.seen
           more == children # {} /\ r.depth + 1 < MaxDepth
       IN Awaits(h, [r EXCEPT
              !.at = IF more THEN "descend" ELSE "cascade",
              !.depth = @ + 1,
              !.frontier = children,
              !.seen = @ \cup children,
              !.followers = @ \cup {t \in children : Follows(items[t].release, r.previous)}])
    /\ UNCHANGED <<items, releases>>

\* One UPDATE for all of them, by their ids.
Cascade(h) ==
    /\ req[h].at = "cascade"
    /\ items' = [t \in DOMAIN items |->
                    IF t \in req[h].followers /\ ReleaseExists(req[h].release)
                    THEN [items[t] EXCEPT !.release = req[h].release] ELSE items[t]]
    /\ Ends(h)
    /\ UNCHANGED releases

-----------------------------------------------------------------------------
ReleaseRequest(h) ==
    \/ \E r \in mode.releases, v \in Versions, s \in ReleaseStatuses : CreateRelease(h, r, v, s)
    \/ \E r \in mode.releases, v \in Versions \cup {Keep}, s \in ReleaseStatuses \cup {Keep} :
          UpdateRelease(h, r, v, s)
    \/ \E r \in mode.releases : RemoveRelease(h, r)
    \/ \E t \in Tickets, r \in mode.releases \cup {None} : Assign(h, t, r)

ReleaseStep(h) ==
    \/ VersionFree(h) \/ SaveRelease(h) \/ DeleteRelease(h)
    \/ AssignFind(h) \/ AssignSave(h) \/ Descend(h) \/ Cascade(h)

-----------------------------------------------------------------------------
\* The tickets below t, however deep.
Below(t) ==
    LET b[n \in 0 .. Cardinality(Tickets)] ==
            IF n = 0 THEN {c \in DOMAIN items : items[c].parent = t}
            ELSE LET above == b[n - 1]
                 IN  above \cup {c \in DOMAIN items : items[c].parent \in above}
    IN  b[Cardinality(Tickets)] \ {t}

\* "On ne livre pas la moitie d'un epic" and "la cascade ne defait pas une
\* decision": as long as requests come one at a time and the process lives to
\* run it, the cascade moves every descendant that was following, at whatever
\* depth, and no other ticket.
CascadeMovesFollowers ==
    [][\A h \in Handlers : mode.inFlight = 1 /\ ~mode.crash /\ req[h].at = "cascade" /\ req'[h] = Idle =>
          LET below == Below(req[h].ticket)
          IN  \A t \in DOMAIN items :
              items'[t].release =
                  IF t \in below /\ items[t].release \in {None, req[h].previous}
                  THEN req[h].release ELSE items[t].release]_<<items, releases, req, mode>>
=============================================================================
