------------------------------ MODULE Tenants ------------------------------
(***************************************************************************)
(* Tenants (tenants.service.ts).  What the console shows of them is merged *)
(* at each request from the billing service, the CRM table and the         *)
(* identity service; what it does to them is a command to billing or to    *)
(* the gateway, which may be refused, never arrive, or be obeyed without   *)
(* an answer.  The timeline is written after the answer.                   *)
(***************************************************************************)
EXTENDS Requests, FiniteSetsExt

CONSTANTS
    TenantIds,      \* the tenants there may be
    Apps,
    Plans,          \* the plans of an application, cheapest first
    MaxDone,        \* bound on what happens in billing
    RecoveryLimit   \* page of the recovery list

ASSUME TenantsAssumption == IsFiniteSet(TenantIds) /\ RecoveryLimit \in Nat

VARIABLES
    tenants,        \* external: billing's tenants, id -> [owner, org, life]
    subs,           \* external: its subscriptions, <<tenant, app>> -> [plan, status]
    due,            \* external: tenant -> days its oldest unpaid invoice is overdue
    crm,            \* the tenant_crm table
    timeline,       \* the activity rows of tenants, [did, id, app] -> how many
    done            \* history: what happened in billing, likewise

clients == <<tenants, subs, due, crm, timeline, done>>

Price(plan) == CHOOSE i \in DOMAIN Plans : Plans[i] = plan

Times(bag, key) == IF key \in DOMAIN bag THEN bag[key] ELSE 0
More(bag, key) == With(bag, key, Times(bag, key) + 1)

Act(did, id, app) == [did |-> did, id |-> id, app |-> app]

TenantsInit ==
    /\ tenants = mode.tenants /\ subs = mode.subs
    /\ due = [id \in DOMAIN mode.tenants |-> 0]
    /\ crm = << >> /\ timeline = << >> /\ done = << >>

\* How a call to another service may end.  "late": it was obeyed, and the
\* answer comes after the five seconds of the caller.
Endings == {"ok"} \cup (mode.faults \cap {"refused", "lost", "late"})
Obeyed(end) == end \in {"ok", "late"}

\* fetchOutstandingArDays() and its catch: a refusal is an empty map.
ArDays(end, id) == CASE end = "ok" -> due[id] [] end = "refused" -> 0 [] OTHER -> None

\* countUsersForOrg()
Users(end, org) == IF org = None THEN 0 ELSE IF end = "ok" THEN 1 ELSE None

\* mapLifecycleToStatus()
Status(life) ==
    CASE life = "active" -> "healthy" [] life = "grace_period" -> "attention" [] OTHER -> "suspended"

AppsOf(rows) == {key[2] : key \in DOMAIN rows}
Active(rows) == {key \in DOMAIN rows : rows[key].status = "active"}
PlanOf(rows) == IF Active(rows) = {} THEN "free" ELSE rows[CHOOSE key \in Active(rows) : TRUE].plan

\* merge()
View(row, note, days, users) ==
    [apps |-> AppsOf(row.subs), plan |-> PlanOf(row.subs), status |-> Status(row.life),
     owner |-> IF note = None THEN "" ELSE note, days |-> days, users |-> users]

SubsOf(id) == Rows(subs, {key \in DOMAIN subs : key[1] = id})
TenantRow(id) == [org |-> tenants[id].org, life |-> tenants[id].life, subs |-> SubsOf(id)]

Worth(views, id) == IF views[id].plan = "free" THEN 0 ELSE Price(views[id].plan)

\* The page of recoveryList(), by revenue, and those it keeps of it.
Recovered(views) ==
    {id \in DOMAIN views :
       /\ Cardinality({other \in DOMAIN views \ {id} : Worth(views, other) > Worth(views, id)}) < RecoveryLimit
       /\ \/ views[id].days # None /\ views[id].days > 0
          \/ views[id].status \in {"attention", "suspended"}}

\* Every read of a tenant starts with all of them; `ids` are those it is for.
Asks(h, op, ids, app, plan) ==
    /\ MayStart(h) /\ op \in mode.calls
    /\ Awaits(h, [at |-> "tenants", op |-> op, ids |-> ids, app |-> app, plan |-> plan])
    /\ UNCHANGED clients

List(h) == Asks(h, "list", TenantIds, None, None)
SendReminder(h, id) == Asks(h, "remind", {id}, None, None)
ActivateApp(h, id, app, plan) == Asks(h, "activate", {id}, app, plan)
ChangeTenantPlan(h, id, app, plan) == Asks(h, "change", {id}, app, plan)

\* fetchBillingTenants(), and the 404 of findOne().
FetchTenants(h) ==
    /\ At(h, "tenants")
    /\ \E end \in Endings :
         LET ids == req[h].ids \cap DOMAIN tenants
         IN  IF end # "ok" \/ (req[h].op # "list" /\ ids = {}) THEN Ends(h)
             ELSE Awaits(h, [req[h] EXCEPT !.at = "figures", !.ids = [id \in ids |-> TenantRow(id)]])
    /\ UNCHANGED clients

\* What a request does once it knows its tenant.
After(h, views) ==
    LET r == req[h]
        id == CHOOSE i \in DOMAIN views : TRUE
        Goes(at, app) == Awaits(h, [at |-> at, op |-> r.op, id |-> id, app |-> app, plan |-> r.plan])
    IN  CASE r.op = "list"     -> Awaits(h, [at |-> "answered", views |-> views, recovered |-> Recovered(views),
                                             \* history: who owed when it was read
                                             owing |-> {i \in DOMAIN views : due[i] > 0}])
          [] r.op = "remind"   -> Goes("told", None)
          [] r.op = "activate" -> Goes("subscriptions", r.app)
          [] r.op = "change"   ->
               IF r.app # None THEN Goes("command", r.app)
               ELSE IF Cardinality(views[id].apps) = 1
                       THEN Goes("command", CHOOSE a \in views[id].apps : TRUE)
               ELSE Ends(h)

\* The notes of the CRM table, the overdue days and the users.
ReadFigures(h) ==
    /\ At(h, "figures")
    /\ \E days \in Endings, users \in Endings :
         After(h, [id \in DOMAIN req[h].ids |->
                     View(req[h].ids[id], IF id \in DOMAIN crm THEN crm[id] ELSE None,
                          ArDays(days, id), Users(users, req[h].ids[id].org))])
    /\ UNCHANGED clients

Answer(h) == At(h, "answered") /\ Ends(h) /\ UNCHANGED clients

\* activateApp(): a subscription of any status stops it; without a plan it
\* takes the first of the catalogue.
ListSubscriptions(h) ==
    /\ At(h, "subscriptions")
    /\ \E end \in Endings :
         IF end # "ok" THEN Ends(h)
         ELSE IF <<req[h].id, req[h].app>> \in DOMAIN subs
                 THEN Awaits(h, [req[h] EXCEPT !.at = "told", !.op = "noop"])
         ELSE Awaits(h, [req[h] EXCEPT !.at = IF req[h].plan = None THEN "plans" ELSE "command"])
    /\ UNCHANGED clients

ResolvePlanForApp(h) ==
    /\ At(h, "plans")
    /\ \E end \in Endings :
         IF end # "ok" \/ Plans = << >> THEN Ends(h)
         ELSE Awaits(h, [req[h] EXCEPT !.at = "command", !.plan = Plans[1]])
    /\ UNCHANGED clients

\* cancel() of the subscriptions controller, which reads nothing first.
Cancel(h, id, app) ==
    /\ MayStart(h) /\ "cancel" \in mode.calls
    /\ Awaits(h, [at |-> "command", op |-> "cancel", id |-> id, app |-> app, plan |-> None])
    /\ UNCHANGED clients

Room == MapThenSumSet(LAMBDA key : done[key], DOMAIN done) < MaxDone

\* external: what billing does with a command.  A creation is idempotent, and
\* nothing is changed or cancelled that is not active.
Live(key) == key \in DOMAIN subs /\ subs[key].status = "active"
Able(op, key) == op = "activate" \/ Live(key)
Effect(op, key, plan) ==
    CASE op = "activate" -> IF Live(key) THEN subs
                               ELSE With(subs, key, [plan |-> plan, status |-> "active"])
      [] op = "change" -> [subs EXCEPT ![key].plan = plan]
      [] op = "cancel" -> [subs EXCEPT ![key].status = "cancelled"]

\* Mutant: the timeline is written before the answer is looked at.
CommandTold(h) ==
    /\ At(h, "command") /\ Room
    /\ \E end \in Endings :
         LET key == <<req[h].id, req[h].app>>
             op == req[h].op
             obeyed == Obeyed(end) /\ Able(op, key)
         IN  /\ subs' = IF obeyed THEN Effect(op, key, req[h].plan) ELSE subs
             /\ done' = IF obeyed /\ ~(op = "activate" /\ Live(key))
                           THEN More(done, Act(op, req[h].id, req[h].app)) ELSE done
             /\ Awaits(h, [req[h] EXCEPT !.at = "told"])
    /\ UNCHANGED <<tenants, due, crm, timeline>>

\* send() of the subscriptions service.
Command(h) ==
    /\ At(h, "command") /\ Room
    /\ \E end \in Endings :
         LET key == <<req[h].id, req[h].app>>
             op == req[h].op
             obeyed == Obeyed(end) /\ Able(op, key)
         IN  /\ subs' = IF obeyed THEN Effect(op, key, req[h].plan) ELSE subs
             /\ done' = IF obeyed /\ ~(op = "activate" /\ Live(key))
                           THEN More(done, Act(op, req[h].id, req[h].app)) ELSE done
             /\ IF end = "ok" /\ obeyed THEN Awaits(h, [req[h] EXCEPT !.at = "told"]) ELSE Ends(h)
    /\ UNCHANGED <<tenants, due, crm, timeline>>

Changes == {"activate", "change", "cancel", "provision"}

\* recordActivity(); a failed save is swallowed or fails a request that is over.
\* What changes nothing is not counted.  An activation is told twice, as a
\* subscription and then as the tenant's.
Tell(h) ==
    /\ At(h, "told")
    /\ IF req[h].op = "activate" THEN Awaits(h, [req[h] EXCEPT !.op = "activated"]) ELSE Ends(h)
    /\ LET row == Act(req[h].op, req[h].id, req[h].app)
           told == IF req[h].op \in Changes THEN More(timeline, row) ELSE With(timeline, row, 1)
       IN  timeline' \in {told} \cup (IF "save" \in mode.faults THEN {timeline} ELSE {})
    /\ UNCHANGED <<tenants, subs, due, crm, done>>

\* CreateTenantDto: what the wizard posts, and what of it the CRM table keeps.
Body(owner, app, plan, phone) == [owner |-> owner, app |-> app, plan |-> plan, phone |-> phone]
Note(body) == body.owner

\* create(): checks, the product, then the gateway.
CreateTenant(h, body) ==
    /\ MayStart(h) /\ "create" \in mode.calls
    /\ body.plan # Plans[1] => body.phone
    /\ body.app \in mode.provisionable
    /\ Awaits(h, [at |-> "gateway", body |-> body])
    /\ UNCHANGED clients

\* provision(): the gateway opens the account, the organisation and the
\* subscription, and refuses an owner it knows.
Provision(h, id) ==
    /\ At(h, "gateway") /\ id \notin DOMAIN tenants /\ Room
    /\ \E end \in Endings :
         LET body == req[h].body
             obeyed == Obeyed(end) /\ \A t \in DOMAIN tenants : tenants[t].owner # body.owner
         IN  /\ IF obeyed
                THEN /\ tenants' = With(tenants, id, [owner |-> body.owner, org |-> id, life |-> "active"])
                     /\ subs' = With(subs, <<id, body.app>>, [plan |-> body.plan, status |-> "active"])
                     /\ due' = With(due, id, 0) /\ done' = More(done, Act("provision", id, body.app))
                ELSE UNCHANGED <<tenants, subs, due, done>>
             /\ IF end = "ok" /\ obeyed THEN Awaits(h, [at |-> "note", id |-> id, body |-> body])
                   ELSE Ends(h)
    /\ UNCHANGED <<crm, timeline>>

\* The gateway answers 409 to an owner it knows.
ProvisionRefused(h) ==
    /\ At(h, "gateway") /\ \E t \in DOMAIN tenants : tenants[t].owner = req[h].body.owner
    /\ Ends(h) /\ UNCHANGED clients

SaveNote(h) ==
    /\ At(h, "note") /\ crm' = With(crm, req[h].id, Note(req[h].body))
    /\ Awaits(h, [at |-> "told", op |-> "provision", id |-> req[h].id, app |-> req[h].body.app])
    /\ UNCHANGED <<tenants, subs, due, timeline, done>>

\* external: an invoice becomes overdue or is paid, an account changes.
BillingActs ==
    /\ "billing" \in mode.calls
    /\ \E id \in DOMAIN tenants :
         \/ due' = [due EXCEPT ![id] = 1 - @] /\ UNCHANGED tenants
         \/ tenants' \in {[tenants EXCEPT ![id].life = life] : life \in {"active", "grace_period", "blocked"}} /\ UNCHANGED due
    /\ UNCHANGED <<mode, req, subs, crm, timeline, done>>

TenantsStep ==
    \/ \E h \in Handlers :
         \/ List(h) \/ FetchTenants(h) \/ ReadFigures(h) \/ Answer(h)
         \/ \E id \in TenantIds : SendReminder(h, id) \/ Provision(h, id)
         \/ \E ask \in mode.asks :
              \/ Cancel(h, ask[1], ask[2])
              \/ \E plan \in {None, Plans[2]} : ActivateApp(h, ask[1], ask[2], plan)
              \/ \E app \in {ask[2], None} : ChangeTenantPlan(h, ask[1], app, Plans[2])
         \/ ListSubscriptions(h) \/ ResolvePlanForApp(h) \/ Command(h) \/ Tell(h)
         \/ \E body \in mode.bodies : CreateTenant(h, body)
         \/ ProvisionRefused(h) \/ SaveNote(h)
    \/ BillingActs

Changed(bag) == {key \in DOMAIN bag : key.did \in Changes}

\* The timeline of a tenant tells what happened in billing: nothing that did not
\* happen, nothing twice where requests do not overlap, and everything where no
\* answer and no save was lost and no request cut short (recordActivity() after send(), activateApp()).
TimelineTellsBilling ==
    /\ Changed(timeline) \subseteq DOMAIN done
    /\ Orderly => \A key \in Changed(timeline) : timeline[key] <= done[key]
    /\ (Orderly /\ ~Interrupted /\ mode.faults \subseteq {"refused"} /\ \A h \in Handlers : req[h].at = "idle")
         => \A key \in DOMAIN done : key \in DOMAIN timeline /\ timeline[key] = done[key]

\* A tenant that owes is on the recovery list, or shown as unknown when billing
\* could not be asked: "null = unknown (the billing AR fetch failed) - distinct
\* from 0 (known to be paid up)", as long as the tenants fit the one page the
\* list is made of (list(), recoveryList()).
WhoOwesIsShown ==
    "refused" \notin mode.faults => \A h \in Handlers :
      At(h, "answered") /\ Cardinality(DOMAIN req[h].views) <= RecoveryLimit =>
        \A id \in req[h].owing : req[h].views[id].days = None \/ id \in req[h].recovered

\* What HQ shows of a tenant's billing is so: what happened to it is on its
\* timeline, and what it owes on the recovery list (tenants.service.ts).
BillingIsShown == TimelineTellsBilling /\ WhoOwesIsShown
=============================================================================
