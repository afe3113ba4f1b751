------------------------------ MODULE MCBackOffice ------------------------------
(* Instances of BackOffice. *)
EXTENDS BackOffice, TLC

CONSTANTS ann, ben, eve, hall, desk, kin, nola, books, school, shop, firefox

MCHandlers == {hall, desk}
MCEmails == {ann, ben, eve}
MCLevels == <<"viewer", "operator", "owner">>
MCBrands == {kin, nola}
MCCallers == {hall, desk}
MCProducts == {books}

MCPlans == <<"free", "growth">>

Distinct == ann :> 1 @@ ben :> 2 @@ eve :> 3
Shared   == ann :> 1 @@ ben :> 2 @@ eve :> 1

Row(email, access) == [email |-> email, access |-> access]
Two  == 1 :> Row(ann, "owner") @@ 2 :> Row(ben, "owner")
Held == ann :> {"owner"} @@ ben :> {"owner"}

Cookie(email, roles) == [email |-> email, roles |-> roles, expires |-> 1]

Patches == {[email |-> Keep, access |-> l] : l \in Level}

Mode(handlers, does, faults) ==
    [handlers |-> handlers, calls |-> does, faults |-> faults, configured |-> TRUE, localPart |-> Distinct,
     members |-> Two, accounts |-> Held, cookies |-> {Cookie(ann, {"owner"}), Cookie(ben, {"owner"})},
     patches |-> Patches, invites |-> {Row(eve, l) : l \in Level}, units |-> {}, callers |-> {}, logins |-> {},
     tenants |-> << >>, subs |-> << >>, asks |-> {}, bodies |-> {}, provisionable |-> {}, broadcast |-> None, notices |-> {}, rows |-> {}, edits |-> {}]

Nulls == [Mode({desk}, {"backfill"}, {}) EXCEPT
            !.members = 1 :> Row(ann, "owner") @@ 2 :> Row(ben, None) @@ 3 :> Row(eve, None),
            !.accounts = ann :> {"owner"} @@ ben :> {"viewer", "operator"}]

Lone == [Mode({desk}, {"missing"}, {}) EXCEPT
            !.members = 1 :> Row(ann, "owner"), !.accounts = ann :> {"owner"} @@ ben :> {"viewer", "operator"}]

TeamModes == {
    Mode({desk}, {"update"}, {"find", "assign"}),
    Mode({desk}, {"update", "invite", "backfill", "missing"}, {"find"}),
    [Mode({desk}, {"update", "remove"}, {"find", "assign", "remove"}) EXCEPT
       !.patches = {[email |-> e, access |-> a] : e \in {eve, Keep}, a \in {"viewer", "owner", Keep}}],
    [Mode({desk}, {"update", "invite", "remove"}, {"find", "assign", "create"}) EXCEPT
       !.invites = {Row(eve, "owner"), Row(ben, "viewer")}],
    [Mode({desk}, {"update", "invite", "remove", "backfill", "missing"}, {"lost"}) EXCEPT
       !.patches = {[email |-> Keep, access |-> l] : l \in {"viewer", "owner"}}, !.invites = {Row(eve, "owner")}],
    [Mode({desk}, {"update", "invite", "remove"}, {}) EXCEPT !.configured = FALSE],
    [Mode({desk}, {"update", "invite", "remove"}, {}) EXCEPT !.localPart = Shared],
    Nulls, [Nulls EXCEPT !.calls = {"update", "backfill"}, !.faults = {"find", "lost"}],
    Lone, [Lone EXCEPT !.calls = {"missing", "invite"}, !.faults = {"list", "lost"}, !.handlers = {desk, hall}]}

SessionModes == {
    [Mode({desk}, {"update", "tick", "assist", "redeploy"}, {}) EXCEPT !.logins = {ben},
       !.patches = {[email |-> Keep, access |-> l] : l \in {"operator", "owner"}}]}

BrandModes == {
    [Mode({}, {}, {}) EXCEPT !.cookies = {}, !.callers = {desk}],
    [Mode({}, {}, {}) EXCEPT !.cookies = {}, !.callers = MCCallers],
    [Mode({}, {}, {}) EXCEPT !.cookies = {}, !.callers = MCCallers, !.units = {kin}]}

Bare(handlers, does, faults) == [Mode(handlers, does, faults) EXCEPT !.cookies = {}]

Tenant(owner) == [owner |-> owner, org |-> None, life |-> "active"]
TenantMode(handlers, does, faults) ==
    [Bare(handlers, does, faults) EXCEPT
       !.tenants = 1 :> Tenant(ann), !.subs = <<1, school>> :> [plan |-> "free", status |-> "active"], !.provisionable = {school},
       !.bodies = {Body(ann, school, "free", FALSE), Body(ben, school, "growth", TRUE), Body(ben, shop, "growth", FALSE)}]

TenantModes == {
    [TenantMode({desk}, {"activate", "change", "cancel", "remind", "create"}, {}) EXCEPT !.asks = {<<1, school>>, <<1, shop>>, <<2, school>>}],
    [TenantMode({desk}, {"activate", "change", "cancel", "create"}, {"refused", "lost", "late", "save"}) EXCEPT !.asks = {<<1, school>>, <<1, shop>>}],
    [TenantMode({desk}, {"activate", "change", "cancel", "create"}, {"refused"}) EXCEPT !.asks = {<<1, school>>, <<1, shop>>}],
    [TenantMode({desk, hall}, {"activate", "cancel"}, {"late"}) EXCEPT !.asks = {<<1, school>>}],
    TenantMode({desk}, {"list", "billing", "create"}, {"lost"}),
    TenantMode({desk}, {"list", "billing"}, {"refused"})}

Delivery(handlers, does, faults) == Bare(handlers, does, faults)

DeliveryModes == {
    Delivery({desk}, {"command"}, {"fails"}),
    Delivery({desk, hall}, {"command"}, {"crash"}),
    [Delivery({desk}, {"broadcast"}, {"publish"}) EXCEPT !.broadcast = "email"],
    [Delivery({desk, hall}, {"broadcast"}, {"crash"}) EXCEPT !.broadcast = "email"],
    [Delivery({desk}, {"broadcast"}, {}) EXCEPT !.broadcast = "in-app"],
    Delivery({desk, hall}, {"due"}, {"publish", "crash"}),
    [Delivery({desk, hall}, {"notify"}, {"gone"}) EXCEPT !.notices = {1 :> ann @@ 2 :> ben}]}

Spend(handlers, does, faults) ==
    [Bare(handlers, does, faults) EXCEPT
       !.rows = {Expense(TRUE, "manual", ours, 1) : ours \in BOOLEAN},
       !.edits = {[recurring |-> FALSE, ours |-> Keep, month |-> Keep], [recurring |-> Keep, ours |-> FALSE, month |-> Keep]}]

SpendModes == {
    Spend({desk}, {"expense", "generate"}, {"crash"}),
    [Spend({desk}, {"expense", "sync", "generate"}, {}) EXCEPT !.rows = {Expense(TRUE, "manual", TRUE, 1)}, !.edits = {[recurring |-> FALSE, ours |-> Keep, month |-> Keep]}],
    [Spend({desk}, {"expense", "sync"}, {"crash"}) EXCEPT !.rows = {Expense(TRUE, source, TRUE, 1) : source \in {"manual", "railway"}}],
    Spend({desk, hall}, {"sync"}, {"crash"})}

MCModes == TeamModes \cup SessionModes \cup BrandModes \cup TenantModes \cup DeliveryModes \cup SpendModes
=============================================================================
