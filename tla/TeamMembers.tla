----------------------------- MODULE TeamMembers -----------------------------
(***************************************************************************)
(* The rows of the team, and the realm where their accounts hold the roles *)
(* that are enforced (team.service.ts).  Every call to the admin API of    *)
(* Keycloak is an await: it may be refused (the client answers null or     *)
(* false) or lost (fetch throws, before or after the realm applied it).    *)
(***************************************************************************)
EXTENDS Requests

CONSTANTS
    Emails,
    Levels          \* the access levels, weakest first

VARIABLES
    members,        \* id -> [email, access]
    accounts        \* email -> the levels whose realm role it holds

team == <<members, accounts>>

Level == {Levels[i] : i \in DOMAIN Levels}

Rank(level) == CHOOSE i \in DOMAIN Levels : Levels[i] = level

\* hasHqRole(): the roles are nested.
HasHqRole(roles, level) == \E r \in roles : Rank(r) >= Rank(level)

Owner == Levels[Len(Levels)]

Highest(roles) == IF roles = {} THEN None ELSE CHOOSE r \in roles : \A q \in roles : Rank(q) <= Rank(r)

\* A row of the team; its level is null until it is known.
Person == [email : Emails, access : Level \cup {None}]

Owners == {id \in DOMAIN members : members[id].access = Owner}

\* deriveId(): the key of a row is the local part of its address.
DeriveId(email) == mode.localPart[email]

EmailFree(id, email) == \A other \in DOMAIN members \ {id} : members[other].email # email

Called(what, h) == what \in mode.calls /\ MayStart(h)

Refused(call) == call \in mode.faults

Lost == "lost" \in mode.faults

\* What the realm answers: the roles of an address (none without an account), and
\* the accounts that hold a role.
UserRealmRoles(email) == IF email \in DOMAIN accounts THEN accounts[email] ELSE {}

UsersWithRealmRole(level) == {e \in DOMAIN accounts : level \in accounts[e]}

\* What createUser() asks of it: an account that is there already stays as it is.
Created(email) == [e \in DOMAIN accounts \cup {email} |-> UserRealmRoles(e)]

-----------------------------------------------------------------------------
(* update() *)

\* An owner is not demoted by itself; anything else goes to the database.
UpdateMember(h, id, email, access, actor) ==
    LET m == members[id]
        row == [email |-> Given(email, m.email), access |-> Given(access, m.access)]
        demotes == access # Keep /\ access # m.access /\ m.access = Owner
    IN  /\ Called("update", h) /\ id \in DOMAIN members
        /\ ~(demotes /\ m.email = actor)
        /\ Awaits(h, [at |-> IF demotes THEN "count" ELSE "save", id |-> id, row |-> row,
                      from |-> m.access, changes |-> access # Keep /\ access # m.access])
        /\ UNCHANGED team

CountOwners(h) ==
    /\ At(h, "count")
    /\ IF Cardinality(Owners) <= 1 THEN Ends(h) ELSE Awaits(h, [req[h] EXCEPT !.at = "save"])
    /\ UNCHANGED team

SaveMember(h) ==
    LET r == req[h]
    IN  /\ At(h, "save")
        /\ members' = IF EmailFree(r.id, r.row.email) THEN With(members, r.id, r.row) ELSE members
        /\ IF EmailFree(r.id, r.row.email) /\ r.changes /\ mode.configured
           THEN Awaits(h, [r EXCEPT !.at = "find"])
           ELSE Ends(h)
        /\ UNCHANGED accounts

\* syncKeycloakRole(): no account, or no answer, takes the change back.
FindUserByEmail(h) ==
    LET r == req[h]
    IN  /\ At(h, "find")
        /\ \/ r.row.email \in DOMAIN accounts /\ Awaits(h, [r EXCEPT !.at = "assign"])
           \/ (r.row.email \notin DOMAIN accounts \/ Refused("find")) /\ Awaits(h, [r EXCEPT !.at = "rollback"])
           \/ Lost /\ Ends(h)
        /\ UNCHANGED team

Granted(email, level) == [accounts EXCEPT ![email] = @ \cup {level}]

AssignRealmRole(h) ==
    LET r == req[h]
    IN  /\ At(h, "assign")
        /\ \/ /\ accounts' = Granted(r.row.email, r.row.access)
              /\ IF r.from = None THEN Ends(h) ELSE Awaits(h, [r EXCEPT !.at = "unassign"])
           \/ Refused("assign") /\ UNCHANGED accounts /\ Awaits(h, [r EXCEPT !.at = "rollback"])
           \/ Lost /\ accounts' \in {accounts, Granted(r.row.email, r.row.access)} /\ Ends(h)
        /\ UNCHANGED members

\* The answer of removeRealmRole() is not looked at.
RemoveRealmRole(h) ==
    LET r == req[h]
        revoked == [accounts EXCEPT ![r.row.email] = @ \ {r.from}]
    IN  /\ At(h, "unassign")
        /\ accounts' \in {revoked} \cup (IF Refused("remove") \/ Lost THEN {accounts} ELSE {})
        /\ Ends(h)
        /\ UNCHANGED members

\* Mutant: the change is reported as failed and stays in the database.
RollbackForgotten(h) == At(h, "rollback") /\ Ends(h) /\ UNCHANGED team

\* The whole row as it was saved, with the access it had.
Rollback(h) ==
    LET r == req[h]
    IN  /\ At(h, "rollback")
        /\ members' = IF EmailFree(r.id, r.row.email)
                      THEN With(members, r.id, [r.row EXCEPT !.access = r.from]) ELSE members
        /\ Ends(h)
        /\ UNCHANGED accounts

-----------------------------------------------------------------------------
(* backfillHqAccessFromKeycloak() and backfillMissingMembers() *)

BackfillHqAccess(h) ==
    /\ Called("backfill", h) /\ mode.configured
    /\ Awaits(h, [at |-> "look", rows |-> [id \in {i \in DOMAIN members : members[i].access = None} |-> members[id]]])
    /\ UNCHANGED team

\* One pending row: its account, and the highest role it holds.
LookUpRoles(h, id) ==
    LET rows == req[h].rows
        email == rows[id].email
        level == Highest(UserRealmRoles(email))
        rest == Without(rows, {id})
    IN  /\ At(h, "look") /\ id \in DOMAIN rows
        /\ \/ level # None /\ Awaits(h, [at |-> "resolve", id |-> id, level |-> level, rows |-> rows])
           \/ (level = None \/ Refused("find")) /\ Awaits(h, [at |-> "look", rows |-> rest])
           \/ Lost /\ Ends(h)
        /\ UNCHANGED team

SaveResolved(h) ==
    LET r == req[h]
        row == [r.rows[r.id] EXCEPT !.access = r.level]
    IN  /\ At(h, "resolve")
        /\ members' = IF EmailFree(r.id, row.email) THEN With(members, r.id, row) ELSE members
        /\ IF EmailFree(r.id, row.email)
              THEN Awaits(h, [at |-> "look", rows |-> Without(r.rows, {r.id})])
           ELSE Ends(h)
        /\ UNCHANGED accounts

BackfillDone(h) == At(h, "look") /\ req[h].rows = << >> /\ Ends(h) /\ UNCHANGED team

BackfillMissing(h) ==
    /\ Called("missing", h) /\ mode.configured
    /\ Awaits(h, [at |-> "list", known |-> {members[id].email : id \in DOMAIN members},
                  next |-> Len(Levels), found |-> << >>])
    /\ UNCHANGED team

\* usersWithRealmRole(), strongest role first: the first one an account is
\* found under is kept.
ListHolders(h) ==
    LET r == req[h]
        holders == UsersWithRealmRole(Levels[r.next])
        found == [e \in DOMAIN r.found \cup holders |-> IF e \in DOMAIN r.found THEN r.found[e]
                                                           ELSE Levels[r.next]]
        next == [r EXCEPT !.next = @ - 1, !.at = IF r.next = 1 THEN "create" ELSE "list"]
    IN  /\ At(h, "list")
        /\ \/ Awaits(h, [next EXCEPT !.found = found])
           \/ Refused("list") /\ Awaits(h, next)
           \/ Lost /\ Ends(h)
        /\ UNCHANGED team

\* save() of a row under a derived key: inserted, or written over the row that
\* has the key already.
CreateMissing(h, email) ==
    LET r == req[h]
        id == DeriveId(email)
        free == EmailFree(id, email)
    IN  /\ At(h, "create") /\ email \in DOMAIN r.found \ r.known
        /\ members' = IF free THEN With(members, id, [email |-> email, access |-> r.found[email]])
                         ELSE members
        /\ IF free THEN Awaits(h, [r EXCEPT !.known = @ \cup {email}]) ELSE Ends(h)
        /\ UNCHANGED accounts

MissingDone(h) ==
    At(h, "create") /\ DOMAIN req[h].found \subseteq req[h].known /\ Ends(h) /\ UNCHANGED team

-----------------------------------------------------------------------------
(* invite() and remove() *)

Invite(h, email, access) ==
    /\ Called("invite", h)
    /\ \A id \in DOMAIN members : members[id].email # email
    /\ Awaits(h, [at |-> "insert", id |-> DeriveId(email), row |-> [email |-> email, access |-> access]])
    /\ UNCHANGED team

InsertInvited(h) ==
    LET r == req[h]
        free == EmailFree(r.id, r.row.email)
    IN  /\ At(h, "insert")
        /\ members' = IF free THEN With(members, r.id, r.row) ELSE members
        /\ IF free /\ mode.configured THEN Awaits(h, [r EXCEPT !.at = "provision"]) ELSE Ends(h)
        /\ UNCHANGED accounts

\* provisionKeycloak(): the account, created if there is none; what fails is
\* caught and reported, the row stays.
CreateUser(h) ==
    LET r == req[h]
        created == Created(r.row.email)
    IN  /\ At(h, "provision")
        /\ \/ accounts' = created /\ Awaits(h, [r EXCEPT !.at = "grant"])
           \/ Refused("create") /\ UNCHANGED accounts /\ Ends(h)
           \/ Lost /\ accounts' \in {accounts, created} /\ Ends(h)
        /\ UNCHANGED members

GrantInvited(h) ==
    LET r == req[h]
        granted == Granted(r.row.email, r.row.access)
    IN  /\ At(h, "grant")
        /\ accounts' \in {granted} \cup (IF Refused("assign") \/ Lost THEN {accounts} ELSE {})
        /\ Ends(h)
        /\ UNCHANGED members

RemoveMember(h, id, actor) ==
    LET m == members[id]
    IN  /\ Called("remove", h) /\ id \in DOMAIN members
        /\ ~(m.access = Owner /\ m.email = actor)
        /\ Awaits(h, [at |-> IF m.access = Owner THEN "countRemoved" ELSE "delete", id |-> id])
        /\ UNCHANGED team

CountRemoved(h) ==
    /\ At(h, "countRemoved")
    /\ IF Cardinality(Owners) <= 1 THEN Ends(h) ELSE Awaits(h, [req[h] EXCEPT !.at = "delete"])
    /\ UNCHANGED team

\* The account keeps its roles.
DeleteMember(h) ==
    /\ At(h, "delete")
    /\ members' = Without(members, {req[h].id})
    /\ Ends(h)
    /\ UNCHANGED accounts

-----------------------------------------------------------------------------
Quiet == \A h \in Handlers : req[h].at = "idle"

Renames == \E body \in mode.patches : body.email # Keep

\* A derived key is the key of no other member: no two addresses share their
\* local part, and no row was renamed away from its own, before or meanwhile.
KeysDistinct ==
    mode.calls \cap {"invite", "missing"} # {} =>
      /\ \A e, f \in Emails : mode.localPart[e] = mode.localPart[f] => e = f
      /\ \A id \in DOMAIN mode.members : DeriveId(mode.members[id].email) = id
      /\ ~Renames

\* A row tells the strongest role of its account, if it tells any and has one.
Tells(m, realm) == m.access # None /\ m.email \in DOMAIN realm => Highest(realm[m.email]) = m.access

\* The addresses of a mode agree with their rows at the start: nobody holds a
\* role without a row that tells it, or that a backfill is there to fill.
Agreed ==
    /\ \A id \in DOMAIN mode.members : Tells(mode.members[id], mode.accounts)
    /\ \A e \in DOMAIN mode.accounts : mode.accounts[e] # {} =>
         \/ mode.calls = {"missing"}
         \/ \E id \in DOMAIN mode.members :
               /\ mode.members[id].email = e
               /\ mode.members[id].access = None => mode.calls = {"backfill"}

\* What update() takes back may be refused; what nobody looks at again was not:
\* the removal of a role, a list of holders, an account or a role of one invited.
NothingUnseen ==
    /\ ~Lost /\ ~Interrupted /\ mode.faults \cap {"remove", "list"} = {}
    /\ "invite" \in mode.calls => mode.faults \cap {"create", "assign"} = {}

\* update() puts one role in the place of one: weaker ones beside it would stay.
OneRoleEach == "update" \in mode.calls => \A e \in DOMAIN mode.accounts : \A r, q \in mode.accounts[e] : r = q

\* Once somebody is an owner, somebody is.
OwnersRemain == KeysDistinct /\ (\E id \in DOMAIN mode.members : mode.members[id].access = Owner) => Owners # {}

Trusted ==
    /\ mode.configured /\ mode.calls \subseteq {"update", "invite", "backfill", "missing"}
    /\ Agreed /\ ~Renames /\ KeysDistinct /\ NothingUnseen /\ OneRoleEach

\* A row tells what Keycloak grants, whatever update() could not synchronise.
AccessTold == Trusted /\ Quiet => \A id \in DOMAIN members : Tells(members[id], accounts)

\* One request at a time: while derived keys are distinct somebody stays an owner
\* (update() and remove(): the count before a demotion, the row that is written
\* back when Keycloak refuses); and when no request is in flight the strongest
\* role of a member's account is the access its row tells, whatever update()
\* could not synchronise, and filling the rows and inviting keep it so.
TeamIsGoverned == Orderly => OwnersRemain /\ AccessTold

-----------------------------------------------------------------------------
(***************************************************************************)
(* Who may act: a login seals the roles of the account in a cookie, every  *)
(* request is judged by the roles in its cookie until it expires, and a    *)
(* logout only clears the browser's copy (auth.service.ts, the guards).    *)
(* Assisted access turns such a request into a one-time code               *)
(* (assist.service.ts, handoff.store.ts).                                  *)
(***************************************************************************)
CONSTANTS
    Ttl,            \* SESSION_TTL_SECONDS
    CodeTtl,        \* TTL_MS of a handoff
    LastTick,       \* bound on the clock
    MaxCookies,     \* bound on the sessions ever opened
    HandoffCodes

ASSUME SessionAssumption ==
    /\ Ttl \in Nat /\ {2, Len(Levels)} \subseteq DOMAIN Levels
    /\ DOMAIN Levels = 1..Len(Levels) /\ Len(Levels) \in Nat
    /\ \A i, j \in DOMAIN Levels : Levels[i] = Levels[j] => i = j
    /\ {None, Keep} \cap Level = {} /\ {None, Keep} \cap Emails = {} /\ None # Keep

VARIABLES
    clock,
    cookies,        \* every sealed session: [email, roles, expires]
    handoffs,       \* code -> [by, write, expires]
    lastHeld        \* history: email -> level -> when it was last held

session == <<clock, cookies, handoffs, lastHeld>>

Holds(email, level) == email \in DOMAIN accounts /\ HasHqRole(accounts[email], level)

Watches ==
    lastHeld' = IF "tick" \notin mode.calls THEN lastHeld
                ELSE [e \in Emails |-> [l \in Level |-> IF Holds(e, l)' THEN clock' ELSE lastHeld[e][l]]]

SessionInit ==
    /\ clock = 0 /\ handoffs = << >>
    /\ cookies = mode.cookies
    /\ lastHeld = [e \in Emails |-> [l \in Level |->
                    IF Holds(e, l) \/ \E c \in mode.cookies : c.email = e /\ HasHqRole(c.roles, l)
                    THEN 0 ELSE -1 - Ttl]]

Tick ==
    /\ "tick" \in mode.calls /\ clock < LastTick
    /\ clock' = clock + 1
    /\ UNCHANGED <<mode, req, team, cookies, handoffs>>

Login(email) ==
    /\ email \in mode.logins \cap DOMAIN accounts /\ Cardinality(cookies) < MaxCookies
    /\ cookies' = cookies \cup {[email |-> email, roles |-> accounts[email], expires |-> clock + Ttl]}
    /\ UNCHANGED <<mode, req, team, clock, handoffs>>

\* Mutant: the cookie's own lifetime in the browser is trusted.
ResolveSessionTrusting(email, level) == \E c \in cookies : c.email = email /\ HasHqRole(c.roles, level)

\* resolveSession() and the guard of the roles.
MayAct(email, level) ==
    \E c \in cookies : c.email = email /\ ~(c.expires < clock) /\ HasHqRole(c.roles, level)

\* A session that is read-only asks for an operator, one that writes for an owner.
LevelFor(write) == IF write THEN Owner ELSE Levels[2]

StartAssist(h, email, write) ==
    /\ Called("assist", h)
    /\ MayAct(email, LevelFor(write))
    /\ Awaits(h, [at |-> "mint", by |-> email, write |-> write])
    /\ UNCHANGED <<team, clock, cookies, handoffs>>

Swept == Without(handoffs, {c \in DOMAIN handoffs : handoffs[c].expires < clock})

\* The identity service answered with a token, or with none.
CreateHandoff(h, code) ==
    LET r == req[h]
    IN  /\ At(h, "mint") /\ code \notin DOMAIN handoffs
        /\ handoffs' \in {With(Swept, code, [by |-> r.by, write |-> r.write, expires |-> clock + CodeTtl]), handoffs}
        /\ Ends(h)
        /\ UNCHANGED <<team, clock, cookies>>

Redeem(code) ==
    /\ "assist" \in mode.calls /\ code \in DOMAIN handoffs
    /\ handoffs' = Without(Swept, {code})
    /\ UNCHANGED <<mode, req, team, clock, cookies>>

\* A redeploy: requests and codes are gone, the cookies are not.
Redeploy ==
    /\ "redeploy" \in mode.calls
    /\ req' = [h \in Handlers |-> Idle] /\ handoffs' = << >>
    /\ UNCHANGED <<mode, team, clock, cookies>>

\* Whoever starts assisted access held the role it takes at most the life of a
\* session ago, however the role was given, lost and given back meanwhile, over
\* redeploys too (resolveSession(); start() of the controller).
ActsOnRecentRoles ==
    [][\A h \in Handlers :
         (req'[h].at = "mint" /\ req[h].at # "mint") =>
           lastHeld[req'[h].by][LevelFor(req'[h].write)] >= clock - Ttl]_<<req, lastHeld, clock>>
=============================================================================
