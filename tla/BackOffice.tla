----------------------------- MODULE BackOffice -----------------------------
(***************************************************************************)
(* The administration side: who may do what and on which brands, the       *)
(* tenants, what is delivered once and what is spent.  The parts share the *)
(* requests in flight; a behaviour explores what its mode says.            *)
(***************************************************************************)
EXTENDS TeamMembers, BusinessUnits, Tenants, Deliveries, Expenses

ASSUME BackOfficeAssumption ==
    /\ IsFiniteSet(Handlers)
    /\ \A m \in Modes : m.handlers \subseteq Handlers /\ m.callers \subseteq Callers
    \* who may log in is watched, and the first cookies are no older than any
    /\ \A m \in Modes : m.logins # {} => "tick" \in m.calls
    /\ \A m \in Modes : \A c \in m.cookies : c.email \in Emails /\ c.expires \in 0..Ttl
    \* the team of a mode: an address has one row, and holds levels
    /\ \A m \in Modes :
         /\ IsFiniteSet(DOMAIN m.members)
         /\ \A id \in DOMAIN m.members : m.members[id] \in Person
         /\ \A i, j \in DOMAIN m.members : m.members[i].email = m.members[j].email => i = j
         /\ \A e \in DOMAIN m.accounts : e \in Emails /\ m.accounts[e] \subseteq Level
         /\ \A body \in m.patches : body.email \in Emails \cup {Keep} /\ body.access \in Level \cup {Keep}
         /\ \A body \in m.invites : body.email \in Emails /\ body.access \in Level
    /\ \A m \in Modes : \A row \in m.rows :
         \E recurring \in BOOLEAN, source \in {"manual", "railway"}, ours \in BOOLEAN, month \in Months,
            invoice \in Invoices \cup {None} :
              row = [Expense(recurring, source, ours, month) EXCEPT !.invoice = invoice]

vars == <<mode, req, team, session, brands, clients, delivered, spend>>

Init ==
    /\ mode \in Modes
    /\ req = [h \in Handlers |-> Idle]
    /\ members = mode.members /\ accounts = mode.accounts
    /\ SessionInit /\ BrandsInit
    /\ units = mode.units
    /\ TenantsInit /\ DeliveriesInit /\ SpendInit

\* The handlers of the team are for owners.
ByOwner(h, actor) ==
    /\ MayAct(actor, Owner)
    /\ \/ \E id \in DOMAIN members, body \in mode.patches : UpdateMember(h, id, body.email, body.access, actor)
       \/ \E body \in mode.invites : Invite(h, body.email, body.access)
       \/ \E id \in DOMAIN members : RemoveMember(h, id, actor)
       \/ BackfillHqAccess(h) \/ BackfillMissing(h)

Continues(h) ==
    \/ CountOwners(h) \/ SaveMember(h) \/ FindUserByEmail(h) \/ AssignRealmRole(h)
    \/ RemoveRealmRole(h) \/ Rollback(h)
    \/ \E id \in (IF At(h, "look") THEN DOMAIN req[h].rows ELSE {}) : LookUpRoles(h, id)
    \/ SaveResolved(h) \/ BackfillDone(h)
    \/ ListHolders(h) \/ MissingDone(h)
    \/ \E email \in Emails : CreateMissing(h, email)
    \/ InsertInvited(h) \/ CreateUser(h) \/ GrantInvited(h)
    \/ CountRemoved(h) \/ DeleteMember(h)

TeamNext ==
    /\ \E h \in Handlers : (\E actor \in Emails : ByOwner(h, actor)) \/ Continues(h)
    /\ UNCHANGED <<clock, cookies, handoffs>>

SessionNext ==
    \/ Tick \/ Redeploy
    \/ \E e \in Emails : Login(e)
    \/ \E h \in Handlers, e \in Emails, write \in BOOLEAN : StartAssist(h, e, write)
    \/ \E h \in Handlers, code \in HandoffCodes : CreateHandoff(h, code)
    \/ \E code \in HandoffCodes : Redeem(code)

Next ==
    \/ /\ (TeamNext \/ SessionNext) /\ Watches
       /\ UNCHANGED <<brands, clients, delivered, spend>>
    \/ /\ \E c \in mode.callers : BrandsStep(c)
       /\ UNCHANGED <<mode, req, team, session, clients, delivered, spend>>
    \/ /\ mode.callers # {} /\ Restart
       /\ UNCHANGED <<mode, req, team, session, clients, delivered, spend>>
    \/ TenantsStep /\ UNCHANGED <<team, session, brands, delivered, spend>>
    \/ DeliveriesStep /\ UNCHANGED <<team, session, brands, clients, spend>>
    \/ SpendStep /\ UNCHANGED <<team, session, brands, clients, delivered>>

Spec == Init /\ [][Next]_vars
=============================================================================
