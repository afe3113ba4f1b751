--------------------------- MODULE BackOfficeProofs ---------------------------
(***************************************************************************)
(* Theorems about BackOffice, for any number of handlers, rows and bounds. *)
(***************************************************************************)
EXTENDS BackOffice, FiniteSetTheorems, TLAPS

-----------------------------------------------------------------------------
(***************************************************************************)
(* The parts share the requests in flight.  Where a request awaits tells   *)
(* whose it is and which fields it has; a step of one part moves one       *)
(* request of its own, or none.                                            *)
(***************************************************************************)
MemberAwaits ==
    {"count", "save", "find", "assign", "unassign", "rollback", "look", "resolve", "list", "create",
     "insert", "provision", "grant", "countRemoved", "delete"}
TeamAwaits == MemberAwaits \cup {"mint"}
TenantAwaits ==
    {"tenants", "figures", "answered", "subscriptions", "plans", "command", "told", "gateway", "note"}
DeliveryAwaits ==
    {"execute", "store", "publish", "mark", "dedup", "mail", "push", "dispatch", "stamp"}
SpendAwaits ==
    {"expense", "template", "newTemplate", "invoices", "newInvoice", "month", "monthly"}

Formed(r) ==
    /\ "at" \in DOMAIN r
    /\ r.at \in {"idle"} \cup TeamAwaits \cup TenantAwaits \cup DeliveryAwaits \cup SpendAwaits
    /\ r.at \in {"count", "save", "find", "assign", "unassign", "rollback"}
         => DOMAIN r = {"at", "id", "row", "from", "changes"}
    /\ r.at = "look" => DOMAIN r = {"at", "rows"}
    /\ r.at = "resolve" => DOMAIN r = {"at", "id", "level", "rows"}
    /\ r.at \in {"list", "create"} => DOMAIN r = {"at", "known", "next", "found"}
    /\ r.at \in {"insert", "provision", "grant"} => DOMAIN r = {"at", "id", "row"}
    /\ r.at \in {"countRemoved", "delete"} => DOMAIN r = {"at", "id"}
    /\ r.at = "mint" => DOMAIN r = {"at", "by", "write"}
    /\ r.at \in {"tenants", "figures"} => DOMAIN r = {"at", "op", "ids", "app", "plan"}
    /\ r.at \in {"tenants", "figures"} => r.op \in {"list", "remind", "activate", "change"}
    /\ r.at \in {"subscriptions", "plans"} => r.op = "activate"
    /\ r.at = "command" => r.op \in {"activate", "change", "cancel"}
    /\ r.at \in {"subscriptions", "plans", "command"} => DOMAIN r = {"at", "op", "id", "app", "plan"}
    /\ r.at = "told" => {"at", "op", "id", "app"} \subseteq DOMAIN r
    /\ r.at = "answered" => DOMAIN r = {"at", "views", "recovered", "owing"}
    /\ r.at = "gateway" => DOMAIN r = {"at", "body"}
    /\ r.at = "note" => DOMAIN r = {"at", "id", "body"}
    /\ r.at \in {"execute", "store"} => DOMAIN r = {"at", "key", "body"}
    /\ r.at \in {"publish", "mark"} => DOMAIN r = {"at", "left", "reached", "failed"}
    /\ r.at = "dedup" => DOMAIN r = {"at", "left", "today"}
    /\ r.at = "mail" => DOMAIN r = {"at", "task", "left", "today"}
    /\ r.at = "push" => DOMAIN r = {"at", "to"}
    /\ r.at = "dispatch" => DOMAIN r = {"at", "left"}
    /\ r.at = "stamp" => DOMAIN r = {"at", "row", "of"}
    /\ r.at = "expense" => DOMAIN r = {"at", "id", "row"}
    /\ r.at \in {"template", "newTemplate"} => DOMAIN r = {"at", "paid"}
    /\ r.at = "invoices" => DOMAIN r = {"at", "paid", "left", "id", "row"}
    /\ r.at = "newInvoice" => DOMAIN r = {"at", "paid", "left", "id", "row", "invoice"}
    /\ r.at = "month" => DOMAIN r = {"at", "month", "left"}
    /\ r.at = "monthly" => DOMAIN r = {"at", "month", "left", "those"}

FormedInv ==
    /\ mode \in Modes
    /\ req = [h \in Handlers |-> req[h]]
    /\ \A h \in Handlers : Formed(req[h]) /\ (req[h].at # "idle" => h \in mode.handlers)

Moves(h, A) ==
    /\ mode' = mode
    /\ req[h].at \in A \cup {"idle"}
    /\ req[h].at # "idle" \/ h \in mode.handlers
    /\ \E r : Formed(r) /\ r.at \in A \cup {"idle"} /\ Awaits(h, r)

\* No request moves, or all are gone.
Unmoved == mode' = mode /\ UNCHANGED req
Stopped == mode' = mode /\ Interrupted /\ req' = [h \in Handlers |-> Idle]

-----------------------------------------------------------------------------
LEMMA IdleFormed == Formed(Idle) /\ Idle.at = "idle"
  BY DEF Formed, Idle

\* How the leaves below put it.
LEMMA Going ==
  ASSUME NEW A, NEW h, NEW r, Formed(r), r.at \in A \cup {"idle"}, Awaits(h, r),
         req[h].at \in A \cup {"idle"}, req[h].at # "idle" \/ h \in mode.handlers
  PROVE  Moves(h, A)
  BY DEF Moves, Awaits

LEMMA Ending ==
  ASSUME FormedInv, NEW A, NEW h \in Handlers, Ends(h),
         req[h].at \in A, req[h].at # "idle"
  PROVE  Moves(h, A)
<1>1. req[h].at # "idle" \/ h \in mode.handlers
  OBVIOUS
<1> QED BY <1>1, IdleFormed, Going DEF Ends

LEMMA DeliveryMoves ==
  ASSUME FormedInv, DeliveriesStep
  PROVE  (\E h \in Handlers : Moves(h, DeliveryAwaits)) \/ Unmoved \/ Stopped
<1> DEFINE A == DeliveryAwaits
<1>r. \A h \in Handlers : Formed(req[h]) /\ (req[h].at # "idle" => h \in mode.handlers)
  BY DEF FormedInv
<1> USE DEF At, MayStart
<1>1. CASE DayPasses \/ Purge \/ RemoveBroadcast \/ \E member \in Recipients :
             MarkAllRead(member) \/ \E d \in Devices : Subscribe(member, d) \/ Unsubscribe(member, d)
  BY <1>1 DEF Unmoved, DayPasses, Purge, RemoveBroadcast, MarkAllRead, Subscribe, Unsubscribe
<1>2. CASE Stops
  BY <1>2 DEF Stops, Stopped, Interrupted
<1>3. ASSUME NEW h \in Handlers, NEW key, NEW body, RunCommand(h, key, body)
      PROVE  Moves(h, A) \/ Unmoved
  <2>1. Formed([at |-> "execute", key |-> key, body |-> body])
    BY DEF Formed, DeliveryAwaits
  <2> QED BY <1>3, <2>1, Going DEF RunCommand, Unmoved, DeliveryAwaits, Awaits
<1>4. ASSUME NEW h \in Handlers, ExecuteCommand(h)
      PROVE  Moves(h, A)
  <2> DEFINE r == [req[h] EXCEPT !.at = "store"]
  <2>1. Formed(r) /\ r.at = "store"
    BY <1>4, <1>r DEF ExecuteCommand, Formed, DeliveryAwaits
  <2> HIDE DEF r
  <2>2. Awaits(h, r) \/ Ends(h)
    BY <1>4 DEF ExecuteCommand, r
  <2> QED BY <1>4, <1>r, <2>1, <2>2, Going, Ending DEF ExecuteCommand, DeliveryAwaits
<1>5. ASSUME NEW h \in Handlers, StoreKey(h) \/ MarkSent(h) \/ Stamp(h)
      PROVE  Moves(h, A)
  BY <1>5, Ending DEF StoreKey, MarkSent, Stamp, DeliveryAwaits
<1>6. ASSUME NEW h \in Handlers, SendBroadcast(h)
      PROVE  Moves(h, A)
  <2>1. /\ Formed([at |-> "mark", left |-> {}, reached |-> Recipients, failed |-> {}])
        /\ Formed([at |-> "publish", left |-> Recipients, reached |-> {}, failed |-> {}])
    BY DEF Formed, DeliveryAwaits
  <2> QED BY <1>6, <2>1, Going DEF SendBroadcast, DeliveryAwaits
<1>7. ASSUME NEW h \in Handlers, NEW to, PublishTo(h, to)
      PROVE  Moves(h, A)
  <2>1. \A at \in {"mark", "publish"} : \A left, reached, failed :
           Formed([at |-> at, left |-> left, reached |-> reached, failed |-> failed])
    BY DEF Formed, DeliveryAwaits
  <2>2. \E at \in {"mark", "publish"} : \E left, reached, failed :
           Awaits(h, [at |-> at, left |-> left, reached |-> reached, failed |-> failed])
    BY <1>7 DEF PublishTo
  <2> QED BY <1>7, <1>r, <2>1, <2>2, Going DEF PublishTo, DeliveryAwaits
<1>8. ASSUME NEW h \in Handlers, RemindDueSoon(h)
      PROVE  Moves(h, A)
  <2>1. Formed([at |-> "dedup", left |-> Tasks, today |-> day])
    BY DEF Formed, DeliveryAwaits
  <2> QED BY <1>8, <2>1, Going DEF RemindDueSoon, DeliveryAwaits
<1>9. ASSUME NEW h \in Handlers, NEW task, SaveDedup(h, task)
      PROVE  Moves(h, A)
  <2>0. req[h].at = "dedup"
    BY <1>9 DEF SaveDedup
  <2> DEFINE rest == req[h].left \ {task}
             r == [req[h] EXCEPT !.left = rest]
             m == [at |-> "mail", task |-> task, left |-> rest, today |-> req[h].today]
  <2>1. Formed(r) /\ r.at = "dedup"
    BY <1>r, <2>0 DEF Formed, DeliveryAwaits
  <2>2. Formed(m) /\ m.at = "mail"
    BY DEF Formed, DeliveryAwaits
  <2>3. Awaits(h, r) \/ Awaits(h, m) \/ Ends(h)
    BY <1>9 DEF SaveDedup, Ends
  <2> HIDE DEF r, m
  <2> QED BY <1>r, <2>0, <2>1, <2>2, <2>3, Going, Ending DEF DeliveryAwaits
<1>10. ASSUME NEW h \in Handlers, MailDueSoon(h)
       PROVE  Moves(h, A)
  <2>1. Formed([at |-> "dedup", left |-> req[h].left, today |-> req[h].today])
    BY DEF Formed, DeliveryAwaits
  <2> QED BY <1>10, <1>r, <2>1, Going, IdleFormed DEF MailDueSoon, DeliveryAwaits
<1>11. ASSUME NEW h \in Handlers, NEW ids, Notify(h, ids)
       PROVE  Moves(h, A)
  <2>1. Formed([at |-> "push", to |-> {ids[id] : id \in DOMAIN ids}])
    BY DEF Formed, DeliveryAwaits
  <2> QED BY <1>11, <2>1, Going DEF Notify, DeliveryAwaits
<1>12. ASSUME NEW h \in Handlers, ReadDevices(h)
       PROVE  Moves(h, A)
  <2>1. \A left : Formed([at |-> "dispatch", left |-> left])
    BY DEF Formed, DeliveryAwaits
  <2>2. Ends(h) \/ \E left : Awaits(h, [at |-> "dispatch", left |-> left])
    BY <1>12 DEF ReadDevices, Ends
  <2> QED BY <1>12, <1>r, <2>1, <2>2, Going, Ending DEF ReadDevices, DeliveryAwaits
<1>13. ASSUME NEW h \in Handlers, NEW d, Dispatch(h, d)
       PROVE  Moves(h, A)
  <2> DEFINE r == [req[h] EXCEPT !.left = Without(@, {d})]
  <2>1. Formed(r) /\ r.at = "dispatch"
    BY <1>13, <1>r DEF Dispatch, Formed, DeliveryAwaits
  <2>2. Awaits(h, r) \/ Ends(h)
    BY <1>13 DEF Dispatch, Ends
  <2> HIDE DEF r
  <2> QED BY <1>13, <1>r, <2>1, <2>2, Going, Ending DEF Dispatch, DeliveryAwaits
<1>14. ASSUME NEW h \in Handlers, NEW id, NEW member, NEW field, MarkRead(h, id, member, field)
       PROVE  Moves(h, A)
  <2>1. Formed([at |-> "stamp", row |-> [inbox[id] EXCEPT ![field] = TRUE], of |-> id])
    BY DEF Formed, DeliveryAwaits
  <2> QED BY <1>14, <2>1, Going DEF MarkRead, DeliveryAwaits
<1> HIDE DEF A
<1> QED BY <1>1, <1>2, <1>3, <1>4, <1>5, <1>6, <1>7, <1>8, <1>9, <1>10, <1>11, <1>12, <1>13, <1>14 DEF DeliveriesStep, A

LEMMA SpendMoves ==
  ASSUME FormedInv, SpendStep
  PROVE  (\E h \in Handlers : Moves(h, SpendAwaits)) \/ Unmoved
<1> DEFINE A == SpendAwaits
<1>r. \A h \in Handlers : Formed(req[h]) /\ (req[h].at # "idle" => h \in mode.handlers)
  BY DEF FormedInv
<1> USE DEF At, MayStart
<1>1. ASSUME NEW x, Settle(x) \/ CreateExpense(x) \/ RemoveExpense(x)
      PROVE  Unmoved
  BY <1>1 DEF Unmoved, Settle, CreateExpense, RemoveExpense
<1>2. ASSUME NEW h \in Handlers, NEW id, NEW dto, UpdateExpense(h, id, dto)
      PROVE  Moves(h, A)
  <2>1. \A row : Formed([at |-> "expense", id |-> id, row |-> row])
    BY DEF Formed, SpendAwaits
  <2> QED BY <1>2, <2>1, Going DEF UpdateExpense, SpendAwaits
<1>3. ASSUME NEW h \in Handlers, SaveExpense(h) \/ SaveForecast(h) \/ MonthlyDone(h)
      PROVE  Moves(h, A)
  BY <1>3, Ending DEF SaveExpense, SaveForecast, MonthlyDone, SpendAwaits
<1>4. ASSUME NEW h \in Handlers, FetchSettled(h)
      PROVE  Moves(h, A)
  <2>1. Formed([at |-> "template", paid |-> settled])
    BY DEF Formed, SpendAwaits
  <2> QED BY <1>4, <2>1, Going DEF FetchSettled, SpendAwaits
<1>i. \A paid, left, id, row, invoice :
        /\ Formed([at |-> "invoices", paid |-> paid, left |-> left, id |-> id, row |-> row])
        /\ Formed([at |-> "newInvoice", paid |-> paid, left |-> left, id |-> id, row |-> row, invoice |-> invoice])
  BY DEF Formed, SpendAwaits
<1>5. ASSUME NEW h \in Handlers, FindTemplate(h)
      PROVE  Moves(h, A)
  <2> DEFINE r == [req[h] EXCEPT !.at = "newTemplate"]
  <2>0. req[h].at = "template"
    BY <1>5 DEF FindTemplate
  <2>1. Formed(r) /\ r.at = "newTemplate"
    BY <2>0, <1>r DEF Formed, SpendAwaits
  <2>2. Awaits(h, r) \/ \E paid, id, row : Syncs(h, paid, id, row)
    BY <1>5 DEF FindTemplate
  <2> HIDE DEF r
  <2> QED BY <2>0, <2>1, <2>2, <1>i, Going DEF Syncs, SpendAwaits
<1>6. ASSUME NEW h \in Handlers, InsertTemplate(h)
      PROVE  Moves(h, A)
  <2>1. req[h].at = "newTemplate" /\ \E paid, id, row : Syncs(h, paid, id, row)
    BY <1>6 DEF InsertTemplate
  <2> QED BY <2>1, <1>i, Going DEF Syncs, SpendAwaits
<1>10. ASSUME NEW h \in Handlers, NEW invoice, SyncInvoice(h, invoice)
       PROVE  Moves(h, A)
  <2> DEFINE r == [req[h] EXCEPT !.left = req[h].left \ {invoice}]
  <2>0. req[h].at = "invoices"
    BY <1>10 DEF SyncInvoice
  <2>1. Formed(r) /\ r.at = "invoices"
    BY <2>0, <1>r DEF Formed, SpendAwaits
  <2>2. \/ Awaits(h, r)
        \/ \E paid, left, id, row, inv :
             Awaits(h, [at |-> "newInvoice", paid |-> paid, left |-> left, id |-> id, row |-> row, invoice |-> inv])
    BY <1>10 DEF SyncInvoice
  <2> HIDE DEF r
  <2> QED BY <2>0, <2>1, <2>2, <1>i, Going DEF SpendAwaits
<1>11. ASSUME NEW h \in Handlers, InsertInvoice(h)
       PROVE  Moves(h, A)
  <2>1. /\ req[h].at = "newInvoice"
        /\ \E paid, left, id, row : Awaits(h, [at |-> "invoices", paid |-> paid, left |-> left, id |-> id, row |-> row])
    BY <1>11 DEF InsertInvoice
  <2> QED BY <2>1, <1>i, Going DEF SpendAwaits
<1>7. ASSUME NEW h \in Handlers, NEW month, GenerateMonthly(h, month)
      PROVE  Moves(h, A)
  <2>1. \A left : Formed([at |-> "month", month |-> month, left |-> left])
    BY DEF Formed, SpendAwaits
  <2> QED BY <1>7, <2>1, Going DEF GenerateMonthly, SpendAwaits
<1>8. ASSUME NEW h \in Handlers, ReadMonth(h)
      PROVE  Moves(h, A)
  <2>1. \A month, left, those : Formed([at |-> "monthly", month |-> month, left |-> left, those |-> those])
    BY DEF Formed, SpendAwaits
  <2>2. PICK month, left, those : Awaits(h, [at |-> "monthly", month |-> month, left |-> left, those |-> those])
    BY <1>8 DEF ReadMonth
  <2> QED BY <1>8, <1>r, <2>1, <2>2, Going DEF ReadMonth, SpendAwaits
<1>9. ASSUME NEW h \in Handlers, NEW id, GenerateOne(h, id)
      PROVE  Moves(h, A)
  <2> DEFINE r == [req[h] EXCEPT !.left = Without(req[h].left, {id})]
  <2>1. Formed(r) /\ r.at = "monthly"
    BY <1>9, <1>r DEF GenerateOne, Formed, SpendAwaits
  <2>2. Awaits(h, r) \/ Ends(h)
    BY <1>9 DEF GenerateOne, Ends
  <2> HIDE DEF r
  <2> QED BY <1>9, <1>r, <2>1, <2>2, Going, Ending DEF GenerateOne, SpendAwaits
<1> HIDE DEF A
<1> QED BY <1>1, <1>2, <1>3, <1>4, <1>5, <1>6, <1>7, <1>8, <1>9, <1>10, <1>11 DEF SpendStep, A

LEMMA SessionMoves ==
  ASSUME FormedInv, SessionNext
  PROVE  (\E h \in Handlers : Moves(h, {"mint"})) \/ Unmoved \/ Stopped
<1> USE DEF At, MayStart, Called
<1>1. CASE Tick \/ \E e \in Emails : Login(e)
  BY <1>1 DEF Tick, Login, Unmoved
<1>2. CASE Redeploy
  BY <1>2 DEF Redeploy, Stopped, Interrupted
<1>3. CASE \E code \in HandoffCodes : Redeem(code)
  BY <1>3 DEF Redeem, Unmoved
<1>4. ASSUME NEW h \in Handlers, NEW e, NEW write, StartAssist(h, e, write)
      PROVE  Moves(h, {"mint"})
  <2>1. Formed([at |-> "mint", by |-> e, write |-> write])
    BY DEF Formed, TeamAwaits, MemberAwaits
  <2> QED BY <1>4, <2>1, Going DEF StartAssist
<1>5. ASSUME NEW h \in Handlers, NEW code, CreateHandoff(h, code)
      PROVE  Moves(h, {"mint"})
  BY <1>5, Ending DEF CreateHandoff
<1> QED BY <1>1, <1>2, <1>3, <1>4, <1>5 DEF SessionNext

LEMMA MemberMoves ==
  ASSUME FormedInv, TeamNext
  PROVE  \E h \in Handlers : Moves(h, MemberAwaits)
<1> DEFINE A == MemberAwaits
           Saves == {"count", "save", "find", "assign", "unassign", "rollback"}
<1>r. \A h \in Handlers : Formed(req[h]) /\ (req[h].at # "idle" => h \in mode.handlers)
  BY DEF FormedInv
<1> USE DEF At, MayStart, Called
<1>s. \A at \in Saves : \A id, row, from, changes :
        LET r == [at |-> at, id |-> id, row |-> row, from |-> from, changes |-> changes]
        IN  Formed(r) /\ r.at \in A
  BY DEF Formed, TeamAwaits, MemberAwaits
<1>t. ASSUME NEW h \in Handlers, req[h].at \in Saves, NEW at \in Saves
      PROVE  Formed([req[h] EXCEPT !.at = at]) /\ [req[h] EXCEPT !.at = at].at \in A
  BY <1>t, <1>r DEF Formed, TeamAwaits, MemberAwaits
<1>2. ASSUME NEW h \in Handlers, NEW actor, ByOwner(h, actor)
      PROVE  Moves(h, A)
  <2>1. ASSUME NEW id, NEW email, NEW access, UpdateMember(h, id, email, access, actor)
        PROVE  Moves(h, A)
    <3>1. \E at \in Saves : \E i, row, from, changes :
            Awaits(h, [at |-> at, id |-> i, row |-> row, from |-> from, changes |-> changes])
      BY <2>1 DEF UpdateMember
    <3> QED BY <2>1, <3>1, <1>s, Going DEF UpdateMember
  <2>2. ASSUME NEW email, NEW access, Invite(h, email, access)
        PROVE  Moves(h, A)
    <3>1. \A id, row : Formed([at |-> "insert", id |-> id, row |-> row])
      BY DEF Formed, TeamAwaits, MemberAwaits
    <3> QED BY <2>2, <3>1, Going DEF Invite, TeamAwaits, MemberAwaits
  <2>3. ASSUME NEW id, RemoveMember(h, id, actor)
        PROVE  Moves(h, A)
    <3>1. /\ Formed([at |-> "countRemoved", id |-> id])
          /\ Formed([at |-> "delete", id |-> id])
      BY DEF Formed, TeamAwaits, MemberAwaits
    <3> QED BY <2>3, <3>1, Going DEF RemoveMember, TeamAwaits, MemberAwaits
  <2>4. CASE BackfillHqAccess(h)
    <3>1. \A rows : Formed([at |-> "look", rows |-> rows])
      BY DEF Formed, TeamAwaits, MemberAwaits
    <3> QED BY <2>4, <3>1, Going DEF BackfillHqAccess, TeamAwaits, MemberAwaits
  <2>5. CASE BackfillMissing(h)
    <3>1. \A known, next, found : Formed([at |-> "list", known |-> known, next |-> next, found |-> found])
      BY DEF Formed, TeamAwaits, MemberAwaits
    <3> QED BY <2>5, <3>1, Going DEF BackfillMissing, TeamAwaits, MemberAwaits
  <2> QED BY <1>2, <2>1, <2>2, <2>3, <2>4, <2>5 DEF ByOwner
<1>3. ASSUME NEW h \in Handlers, Continues(h)
      PROVE  Moves(h, A)
  <2>1. CASE CountOwners(h)
    <3>1. Ends(h) \/ Awaits(h, [req[h] EXCEPT !.at = "save"])
      BY <2>1 DEF CountOwners
    <3> QED BY <2>1, <3>1, <1>t, Going, Ending DEF CountOwners, TeamAwaits, MemberAwaits
  <2>2. CASE SaveMember(h)
    <3>1. Ends(h) \/ Awaits(h, [req[h] EXCEPT !.at = "find"])
      BY <2>2 DEF SaveMember
    <3> QED BY <2>2, <3>1, <1>t, Going, Ending DEF SaveMember, TeamAwaits, MemberAwaits
  <2>3. CASE FindUserByEmail(h)
    <3>1. Ends(h) \/ \E at \in Saves : Awaits(h, [req[h] EXCEPT !.at = at])
      BY <2>3 DEF FindUserByEmail
    <3> QED BY <2>3, <3>1, <1>t, Going, Ending DEF FindUserByEmail, TeamAwaits, MemberAwaits
  <2>4. CASE AssignRealmRole(h)
    <3>1. Ends(h) \/ \E at \in Saves : Awaits(h, [req[h] EXCEPT !.at = at])
      BY <2>4 DEF AssignRealmRole
    <3> QED BY <2>4, <3>1, <1>t, Going, Ending DEF AssignRealmRole, TeamAwaits, MemberAwaits
  <2>5. CASE RemoveRealmRole(h) \/ Rollback(h) \/ BackfillDone(h) \/ MissingDone(h)
             \/ GrantInvited(h) \/ DeleteMember(h)
    BY <2>5, Ending DEF RemoveRealmRole, Rollback, BackfillDone, MissingDone, GrantInvited,
                        DeleteMember, TeamAwaits, MemberAwaits
  <2>6. ASSUME NEW id, LookUpRoles(h, id)
        PROVE  Moves(h, A)
    <3>1. /\ \A rows : Formed([at |-> "look", rows |-> rows])
          /\ \A level, rows : Formed([at |-> "resolve", id |-> id, level |-> level, rows |-> rows])
      BY DEF Formed, TeamAwaits, MemberAwaits
    <3>2. \/ Ends(h)
          \/ \E rows : Awaits(h, [at |-> "look", rows |-> rows])
          \/ \E level, rows : Awaits(h, [at |-> "resolve", id |-> id, level |-> level, rows |-> rows])
      BY <2>6 DEF LookUpRoles
    <3> QED BY <2>6, <3>1, <3>2, Going, Ending DEF LookUpRoles, TeamAwaits, MemberAwaits
  <2>7. CASE SaveResolved(h)
    <3>1. \A rows : Formed([at |-> "look", rows |-> rows])
      BY DEF Formed, TeamAwaits, MemberAwaits
    <3>2. Ends(h) \/ \E rows : Awaits(h, [at |-> "look", rows |-> rows])
      BY <2>7 DEF SaveResolved
    <3> QED BY <2>7, <3>1, <3>2, Going, Ending DEF SaveResolved, TeamAwaits, MemberAwaits
  <2>8. CASE ListHolders(h)
    <3>0. DOMAIN req[h] = {"at", "known", "next", "found"}
      BY <2>8, <1>r DEF ListHolders, Formed
    <3>1. \A n, found : \A at \in {"create", "list"} :
            LET r == [[req[h] EXCEPT !.next = n, !.at = at] EXCEPT !.found = found]
                q == [req[h] EXCEPT !.next = n, !.at = at]
            IN  Formed(r) /\ r.at \in A /\ Formed(q) /\ q.at \in A
      BY <3>0 DEF Formed, TeamAwaits, MemberAwaits
    <3>2. \/ Ends(h)
          \/ \E n, found : \E at \in {"create", "list"} :
               \/ Awaits(h, [[req[h] EXCEPT !.next = n, !.at = at] EXCEPT !.found = found])
               \/ Awaits(h, [req[h] EXCEPT !.next = n, !.at = at])
      BY <2>8 DEF ListHolders
    <3> QED BY <2>8, <3>1, <3>2, Going, Ending DEF ListHolders, TeamAwaits, MemberAwaits
  <2>9. ASSUME NEW email, CreateMissing(h, email)
        PROVE  Moves(h, A)
    <3>1. \A known : LET r == [req[h] EXCEPT !.known = known] IN Formed(r) /\ r.at = "create"
      BY <2>9, <1>r DEF CreateMissing, Formed, TeamAwaits, MemberAwaits
    <3>2. Ends(h) \/ \E known : Awaits(h, [req[h] EXCEPT !.known = known])
      BY <2>9 DEF CreateMissing
    <3> QED BY <2>9, <3>1, <3>2, Going, Ending DEF CreateMissing, TeamAwaits, MemberAwaits
  <2>10. CASE InsertInvited(h)
    <3>1. LET r == [req[h] EXCEPT !.at = "provision"] IN Formed(r) /\ r.at = "provision"
      BY <2>10, <1>r DEF InsertInvited, Formed, TeamAwaits, MemberAwaits
    <3>2. Ends(h) \/ Awaits(h, [req[h] EXCEPT !.at = "provision"])
      BY <2>10 DEF InsertInvited
    <3> QED BY <2>10, <3>1, <3>2, Going, Ending DEF InsertInvited, TeamAwaits, MemberAwaits
  <2>11. CASE CreateUser(h)
    <3>1. LET r == [req[h] EXCEPT !.at = "grant"] IN Formed(r) /\ r.at = "grant"
      BY <2>11, <1>r DEF CreateUser, Formed, TeamAwaits, MemberAwaits
    <3>2. Ends(h) \/ Awaits(h, [req[h] EXCEPT !.at = "grant"])
      BY <2>11 DEF CreateUser
    <3> QED BY <2>11, <3>1, <3>2, Going, Ending DEF CreateUser, TeamAwaits, MemberAwaits
  <2>12. CASE CountRemoved(h)
    <3>1. LET r == [req[h] EXCEPT !.at = "delete"] IN Formed(r) /\ r.at = "delete"
      BY <2>12, <1>r DEF CountRemoved, Formed, TeamAwaits, MemberAwaits
    <3>2. Ends(h) \/ Awaits(h, [req[h] EXCEPT !.at = "delete"])
      BY <2>12 DEF CountRemoved
    <3> QED BY <2>12, <3>1, <3>2, Going, Ending DEF CountRemoved, TeamAwaits, MemberAwaits
  <2>13. CASE \E id : LookUpRoles(h, id)
    BY <2>6, <2>13
  <2>14. CASE \E email : CreateMissing(h, email)
    BY <2>9, <2>14
  <2> HIDE DEF A, At
  <2>15. \/ CountOwners(h) \/ SaveMember(h) \/ FindUserByEmail(h) \/ AssignRealmRole(h)
         \/ RemoveRealmRole(h) \/ Rollback(h) \/ (\E id : LookUpRoles(h, id)) \/ SaveResolved(h)
         \/ BackfillDone(h) \/ ListHolders(h) \/ MissingDone(h) \/ (\E email : CreateMissing(h, email))
         \/ InsertInvited(h) \/ CreateUser(h) \/ GrantInvited(h) \/ CountRemoved(h) \/ DeleteMember(h)
    BY <1>3, Zenon DEF Continues
  <2> QED BY <2>1, <2>2, <2>3, <2>4, <2>5, <2>7, <2>8, <2>10, <2>11, <2>12, <2>13, <2>14, <2>15
<1> HIDE DEF A
<1> QED BY <1>2, <1>3 DEF TeamNext, A

LEMMA TeamMoves ==
  ASSUME FormedInv, TeamNext \/ SessionNext
  PROVE  (\E h \in Handlers : Moves(h, TeamAwaits)) \/ Unmoved \/ Stopped
<1>1. \A h : Moves(h, MemberAwaits) \/ Moves(h, {"mint"}) => Moves(h, TeamAwaits)
  BY DEF Moves, TeamAwaits
<1> QED BY <1>1, MemberMoves, SessionMoves

LEMMA TenantMoves ==
  ASSUME FormedInv, TenantsStep
  PROVE  (\E h \in Handlers : Moves(h, TenantAwaits)) \/ Unmoved
<1> DEFINE A == TenantAwaits
<1>r. \A h \in Handlers : Formed(req[h]) /\ (req[h].at # "idle" => h \in mode.handlers)
  BY DEF FormedInv
<1> USE DEF At, MayStart
<1>c. \A op, id, app, plan :
        LET r(at) == [at |-> at, op |-> op, id |-> id, app |-> app, plan |-> plan]
        IN  /\ op \in {"activate", "change", "cancel"} => Formed(r("command"))
            /\ op = "activate" => Formed(r("subscriptions"))
            /\ Formed(r("told"))
  BY DEF Formed, TenantAwaits
<1>1. CASE BillingActs
  BY <1>1 DEF BillingActs, Unmoved
<1>2. ASSUME NEW h \in Handlers, NEW op \in {"list", "remind", "activate", "change"}, NEW ids, NEW app, NEW plan,
             Asks(h, op, ids, app, plan)
      PROVE  Moves(h, A)
  <2>1. Formed([at |-> "tenants", op |-> op, ids |-> ids, app |-> app, plan |-> plan])
    BY DEF Formed, TenantAwaits
  <2> QED BY <1>2, <2>1, Going DEF Asks, TenantAwaits
<1>3. ASSUME NEW h \in Handlers, NEW id, NEW app, Cancel(h, id, app)
      PROVE  Moves(h, A)
  BY <1>3, <1>c, Going DEF Cancel, TenantAwaits
<1>4. ASSUME NEW h \in Handlers, FetchTenants(h)
      PROVE  Moves(h, A)
  <2> DEFINE r(ids) == [req[h] EXCEPT !.at = "figures", !.ids = ids]
  <2>0. req[h].at = "tenants"
    BY <1>4 DEF FetchTenants
  <2>1. \A ids : Formed(r(ids)) /\ r(ids).at = "figures"
    BY <2>0, <1>r DEF Formed, TenantAwaits
  <2>2. Ends(h) \/ \E ids : Awaits(h, r(ids))
    BY <1>4 DEF FetchTenants
  <2> HIDE DEF r
  <2> QED BY <2>0, <2>1, <2>2, Going, Ending DEF TenantAwaits
<1>5. ASSUME NEW h \in Handlers, NEW views, At(h, "figures"), After(h, views)
      PROVE  Moves(h, A)
  <2>0. req[h].at = "figures" /\ req[h].op \in {"list", "remind", "activate", "change"}
    BY <1>5, <1>r DEF Formed
  <2>1. CASE req[h].op = "list"
    <3>1. \A recovered, owing : Formed([at |-> "answered", views |-> views, recovered |-> recovered, owing |-> owing])
      BY DEF Formed, TenantAwaits
    <3>2. \E recovered, owing : Awaits(h, [at |-> "answered", views |-> views, recovered |-> recovered, owing |-> owing])
      BY <1>5, <2>1 DEF After
    <3> QED BY <2>0, <3>1, <3>2, Going DEF TenantAwaits
  <2>2. CASE req[h].op = "remind"
    <3>1. \E op, id, app, plan : Awaits(h, [at |-> "told", op |-> op, id |-> id, app |-> app, plan |-> plan])
      BY <1>5, <2>2 DEF After
    <3> QED BY <2>0, <3>1, <1>c, Going DEF TenantAwaits
  <2>3. CASE req[h].op = "activate"
    <3>1. \E id, app, plan : Awaits(h, [at |-> "subscriptions", op |-> "activate", id |-> id, app |-> app, plan |-> plan])
      BY <1>5, <2>3 DEF After
    <3> QED BY <2>0, <3>1, <1>c, Going DEF TenantAwaits
  <2>4. CASE req[h].op = "change"
    <3>1. Ends(h) \/ \E id, app, plan : Awaits(h, [at |-> "command", op |-> "change", id |-> id, app |-> app, plan |-> plan])
      BY <1>5, <2>4 DEF After
    <3> QED BY <2>0, <3>1, <1>c, Going, Ending DEF TenantAwaits
  <2> QED BY <2>0, <2>1, <2>2, <2>3, <2>4
<1>6. ASSUME NEW h \in Handlers, ReadFigures(h)
      PROVE  Moves(h, A)
  <2>1. At(h, "figures") /\ \E views : After(h, views)
    BY <1>6 DEF ReadFigures
  <2> QED BY <1>5, <2>1
<1>7. ASSUME NEW h \in Handlers, Answer(h) \/ ProvisionRefused(h)
      PROVE  Moves(h, A)
  BY <1>7, Ending DEF Answer, ProvisionRefused, TenantAwaits
<1>8. ASSUME NEW h \in Handlers, ListSubscriptions(h)
      PROVE  Moves(h, A)
  <2>0. req[h].at = "subscriptions" /\ DOMAIN req[h] = {"at", "op", "id", "app", "plan"} /\ req[h].op = "activate"
    BY <1>8, <1>r DEF ListSubscriptions, Formed
  <2> DEFINE s == [req[h] EXCEPT !.at = "told", !.op = "noop"]
             r(at) == [req[h] EXCEPT !.at = at]
  <2>1. Formed(s) /\ s.at = "told"
    BY <2>0 DEF Formed, TenantAwaits
  <2>2. \A at \in {"plans", "command"} : Formed(r(at)) /\ r(at).at = at
    BY <2>0 DEF Formed, TenantAwaits
  <2>3. Ends(h) \/ Awaits(h, s) \/ \E at \in {"plans", "command"} : Awaits(h, r(at))
    BY <1>8 DEF ListSubscriptions
  <2> HIDE DEF s, r
  <2> QED BY <2>0, <2>1, <2>2, <2>3, Going, Ending DEF TenantAwaits
<1>9. ASSUME NEW h \in Handlers, ResolvePlanForApp(h)
      PROVE  Moves(h, A)
  <2>0. req[h].at = "plans" /\ DOMAIN req[h] = {"at", "op", "id", "app", "plan"} /\ req[h].op = "activate"
    BY <1>9, <1>r DEF ResolvePlanForApp, Formed
  <2> DEFINE r == [req[h] EXCEPT !.at = "command", !.plan = Plans[1]]
  <2>1. Formed(r) /\ r.at = "command"
    BY <2>0 DEF Formed, TenantAwaits
  <2>2. Ends(h) \/ Awaits(h, r)
    BY <1>9 DEF ResolvePlanForApp
  <2> HIDE DEF r
  <2> QED BY <2>0, <2>1, <2>2, Going, Ending DEF TenantAwaits
<1>10. ASSUME NEW h \in Handlers, Command(h)
       PROVE  Moves(h, A)
  <2>0. req[h].at = "command" /\ DOMAIN req[h] = {"at", "op", "id", "app", "plan"}
    BY <1>10, <1>r DEF Command, Formed
  <2> DEFINE r == [req[h] EXCEPT !.at = "told"]
  <2>1. Formed(r) /\ r.at = "told"
    BY <2>0 DEF Formed, TenantAwaits
  <2>2. Ends(h) \/ Awaits(h, r)
    BY <1>10 DEF Command
  <2> HIDE DEF r
  <2> QED BY <2>0, <2>1, <2>2, Going, Ending DEF TenantAwaits
<1>11. ASSUME NEW h \in Handlers, Tell(h)
       PROVE  Moves(h, A)
  <2>0. req[h].at = "told" /\ {"at", "op", "id", "app"} \subseteq DOMAIN req[h]
    BY <1>11, <1>r DEF Tell, Formed
  <2> DEFINE r == [req[h] EXCEPT !.op = "activated"]
  <2>1. Formed(r) /\ r.at = "told"
    BY <2>0 DEF Formed, TenantAwaits
  <2>2. Ends(h) \/ Awaits(h, r)
    BY <1>11 DEF Tell
  <2> HIDE DEF r
  <2> QED BY <2>0, <2>1, <2>2, Going, Ending DEF TenantAwaits
<1>12. ASSUME NEW h \in Handlers, NEW body, CreateTenant(h, body)
       PROVE  Moves(h, A)
  <2>1. Formed([at |-> "gateway", body |-> body])
    BY DEF Formed, TenantAwaits
  <2> QED BY <1>12, <2>1, Going DEF CreateTenant, TenantAwaits
<1>13. ASSUME NEW h \in Handlers, NEW id, Provision(h, id)
       PROVE  Moves(h, A)
  <2>1. Formed([at |-> "note", id |-> id, body |-> req[h].body])
    BY DEF Formed, TenantAwaits
  <2>2. req[h].at = "gateway" /\ (Ends(h) \/ Awaits(h, [at |-> "note", id |-> id, body |-> req[h].body]))
    BY <1>13 DEF Provision
  <2> QED BY <2>1, <2>2, Going, Ending DEF TenantAwaits
<1>14. ASSUME NEW h \in Handlers, SaveNote(h)
       PROVE  Moves(h, A)
  <2>1. \A id, app : Formed([at |-> "told", op |-> "provision", id |-> id, app |-> app])
    BY DEF Formed, TenantAwaits
  <2> QED BY <1>14, <2>1, Going DEF SaveNote, TenantAwaits
<1> HIDE DEF A
<1> QED
  BY <1>1, <1>2, <1>3, <1>4, <1>6, <1>7, <1>8, <1>9, <1>10, <1>11, <1>12, <1>13, <1>14
  DEF TenantsStep, List, SendReminder, ActivateApp, ChangeTenantPlan, A

-----------------------------------------------------------------------------
LEMMA StepMoves ==
  ASSUME FormedInv, [Next]_vars
  PROVE  \/ \E h \in Handlers : Moves(h, TeamAwaits) \/ Moves(h, TenantAwaits) \/ Moves(h, DeliveryAwaits)
                                  \/ Moves(h, SpendAwaits)
         \/ Unmoved \/ Stopped
<1>1. CASE UNCHANGED vars
  BY <1>1 DEF vars, Unmoved
<1>2. CASE (TeamNext \/ SessionNext) /\ Watches
  BY <1>2, TeamMoves
<1>3. CASE (\E c \in mode.callers : BrandsStep(c)) /\ UNCHANGED <<mode, req, team, session, clients, delivered, spend>>
  BY <1>3 DEF Unmoved
<1>4. CASE Restart /\ UNCHANGED <<mode, req, team, session, clients, delivered, spend>>
  BY <1>4 DEF Unmoved
<1>5. CASE TenantsStep
  BY <1>5, TenantMoves
<1>6. CASE DeliveriesStep
  BY <1>6, DeliveryMoves
<1>7. CASE SpendStep
  BY <1>7, SpendMoves
<1> QED BY <1>1, <1>2, <1>3, <1>4, <1>5, <1>6, <1>7, Zenon DEF Next

LEMMA MovesFormed ==
  ASSUME FormedInv, NEW h \in Handlers, NEW A, Moves(h, A)
  PROVE  /\ FormedInv'
         /\ \A g \in Handlers : g # h => req'[g] = req[g]
         /\ req'[h].at \in A \cup {"idle"} /\ req[h].at \in A \cup {"idle"}
<1>1. PICK r : Formed(r) /\ r.at \in A \cup {"idle"} /\ req' = [req EXCEPT ![h] = r]
  BY DEF Moves, Awaits
<1>2. \A g \in Handlers : req'[g] = IF g = h THEN r ELSE req[g]
  BY <1>1 DEF FormedInv
<1>3. req' = [g \in Handlers |-> req'[g]]
  BY <1>1 DEF FormedInv
<1>4. mode' = mode /\ (req[h].at # "idle" => h \in mode.handlers) /\ h \in mode.handlers
  BY DEF Moves, FormedInv
<1> QED BY <1>1, <1>2, <1>3, <1>4 DEF FormedInv, Moves

LEMMA InitFormed == Init => FormedInv
  BY IdleFormed DEF Init, FormedInv

LEMMA NextFormed == FormedInv /\ [Next]_vars => FormedInv'
<1> SUFFICES ASSUME FormedInv, [Next]_vars PROVE FormedInv'
  OBVIOUS
<1>1. CASE Unmoved
  BY <1>1 DEF Unmoved, FormedInv
<1>2. CASE Stopped
  BY <1>2, IdleFormed DEF Stopped, FormedInv
<1> QED BY <1>1, <1>2, StepMoves, MovesFormed

\* What the other parts do to the requests of one of them.
Kept(A) == \A h \in Handlers : req'[h].at \in A \/ req[h].at \in A => req'[h] = req[h]

LEMMA OthersKeep ==
  ASSUME FormedInv, NEW A, NEW B, "idle" \notin A, A \cap B = {}, NEW h \in Handlers, Moves(h, B)
  PROVE  Kept(A)
  BY MovesFormed DEF Kept

LEMMA UnmovedKeeps == Unmoved => \A A : Kept(A)
  BY DEF Unmoved, Kept

LEMMA StoppedKeeps ==
  ASSUME Stopped
  PROVE  Interrupted /\ \A h \in Handlers : req'[h].at = "idle"
  BY IdleFormed DEF Stopped

\* One request at a time: the others are idle.
LEMMA OneAtATime ==
  ASSUME FormedInv, Orderly, NEW h \in Handlers, h \in mode.handlers
  PROVE  \A g \in Handlers : g # h => req[g].at = "idle"
<1>1. IsFiniteSet(mode.handlers)
  BY BackOfficeAssumption, FS_Subset DEF FormedInv
<1>2. PICK x : mode.handlers = {x}
  BY <1>1, FS_Singleton DEF Orderly
<1> QED BY <1>2 DEF FormedInv

-----------------------------------------------------------------------------
(***************************************************************************)
(* What must happen once.                                                  *)
(***************************************************************************)
Shaped(key) ==
    key = <<"broadcast", key[2]>> \/ key = <<"due", key[2], key[3]>> \/ key = <<"command", key[2], key[3]>>

ShapedInv == \A key \in DOMAIN sent : Shaped(key)

\* A task that awaits its mail has its row, which no other run can take, and no mail.
DueInv ==
    /\ \A key \in DOMAIN sent : key[1] = "due" => sent[key] = 1 /\ <<key[2], key[3]>> \in dedups
    /\ \A h \in Handlers : At(h, "mail") =>
         /\ <<req[h].task, req[h].today>> \in dedups
         /\ <<"due", req[h].task, req[h].today>> \notin DOMAIN sent
         /\ \A g \in Handlers \ {h} : At(g, "mail") => <<req[g].task, req[g].today>> # <<req[h].task, req[h].today>>

DatedInv == day \in Nat /\ \A key \in DOMAIN keys : keys[key].day \in Nat

\* A command that was done has its row, is about to have it, or is two days old.
CommandInv ==
    /\ \A h \in Handlers : At(h, "execute") \/ At(h, "store") => req[h].key \notin DOMAIN keys
    /\ \A key \in DOMAIN sent : key[1] = "command" =>
         /\ sent[key] = 1 /\ key[3] \in 0..day
         /\ \/ \E h \in Handlers : At(h, "store") /\ req[h].key = key[2]
            \/ key[2] \in DOMAIN keys /\ keys[key[2]].day >= key[3]
            \/ day >= key[3] + 2
         /\ <<"command", key[2], key[3] + 1>> \notin DOMAIN sent

\* Who received a broadcast was reached by the request that is at it; while none
\* is, and it may be sent, nobody did.
BroadcastInv ==
    /\ \A key \in DOMAIN sent : key[1] = "broadcast" =>
         /\ sent[key] = 1
         /\ \A h \in Handlers : At(h, "publish") \/ At(h, "mark") => key[2] \in req[h].reached
         /\ broadcast # None /\ broadcast.status # "sent" => \E h \in Handlers : At(h, "publish") \/ At(h, "mark")
    /\ \A h \in Handlers : At(h, "publish") => req[h].left \cap req[h].reached = {}

OnceInv == ShapedInv /\ DueInv /\ DatedInv /\ (Orderly /\ ~Interrupted => CommandInv /\ BroadcastInv)

OnceAwaits == {"execute", "store", "publish", "mark", "mail"}

\* What is not sent by a step.
NoneSent(tag) ==
    \A key : key[1] = tag => /\ key \in DOMAIN sent' <=> key \in DOMAIN sent
                             /\ key \in DOMAIN sent => sent'[key] = sent[key]

LEMMA SendsOne ==
  ASSUME NEW key, Sends(key)
  PROVE  /\ DOMAIN sent' = DOMAIN sent \cup {key}
         /\ key \notin DOMAIN sent => sent'[key] = 1
         /\ \A other \in DOMAIN sent : other # key => sent'[other] = sent[other]
  BY DEF Sends, Sent, With

LEMMA SendsNoOther ==
  ASSUME NEW key, Sends(key), NEW tag, key[1] # tag
  PROVE  NoneSent(tag)
<1> SUFFICES ASSUME NEW other, other[1] = tag
             PROVE  /\ other \in DOMAIN sent' <=> other \in DOMAIN sent
                    /\ other \in DOMAIN sent => sent'[other] = sent[other]
  BY DEF NoneSent
<1>1. other # key
  OBVIOUS
<1>2. /\ DOMAIN sent' = DOMAIN sent \cup {key}
      /\ \A o \in DOMAIN sent : o # key => sent'[o] = sent[o]
  BY SendsOne
<1>3. other \in DOMAIN sent' <=> other \in DOMAIN sent
  BY <1>1, <1>2
<1> QED BY <1>1, <1>2, <1>3

LEMMA SameSent == UNCHANGED sent => \A tag : NoneSent(tag)
  BY DEF NoneSent

LEMMA Shifts ==
  ASSUME FormedInv, NEW h \in Handlers, NEW r, Awaits(h, r)
  PROVE  /\ \A g \in Handlers : req'[g] = IF g = h THEN r ELSE req[g]
         /\ mode' = mode
  BY DEF FormedInv, Awaits

LEMMA EndsShift ==
  ASSUME FormedInv, NEW h \in Handlers, Ends(h)
  PROVE  /\ \A g \in Handlers : req'[g] = IF g = h THEN Idle ELSE req[g]
         /\ mode' = mode /\ req'[h].at = "idle"
  BY Shifts, IdleFormed DEF Ends

LEMMA DueSame ==
  ASSUME DueInv, NoneSent("due"), dedups \subseteq dedups', Kept({"mail"})
  PROVE  DueInv'
<1>1. \A h \in Handlers : req'[h].at = "mail" => req'[h] = req[h]
  BY DEF Kept
<1>2. \A task, today : <<"due", task, today>> \in DOMAIN sent' => <<"due", task, today>> \in DOMAIN sent
  BY DEF NoneSent
<1> QED BY <1>1, <1>2 DEF DueInv, NoneSent, At

LEMMA CommandSame ==
  ASSUME CommandInv, NoneSent("command"), UNCHANGED <<day, keys>>, Kept({"execute", "store"})
  PROVE  CommandInv'
<1>1. \A h \in Handlers : req'[h].at \in {"execute", "store"} \/ req[h].at \in {"execute", "store"} => req'[h] = req[h]
  BY DEF Kept
<1>2. \A k, d : <<"command", k, d>> \in DOMAIN sent' => <<"command", k, d>> \in DOMAIN sent
  BY DEF NoneSent
<1>3. \A h \in Handlers : At(h, "execute")' \/ At(h, "store")' => req'[h].key \notin DOMAIN keys'
  BY <1>1 DEF CommandInv, At
<1>4. ASSUME NEW key \in DOMAIN sent', key[1] = "command"
      PROVE  key \in DOMAIN sent /\ sent'[key] = sent[key]
  BY <1>4 DEF NoneSent
<1> QED BY <1>1, <1>2, <1>3, <1>4 DEF CommandInv, At

LEMMA BroadcastSame ==
  ASSUME BroadcastInv, NoneSent("broadcast"), UNCHANGED broadcast, Kept({"publish", "mark"})
  PROVE  BroadcastInv'
<1>1. \A h \in Handlers : req'[h].at \in {"publish", "mark"} \/ req[h].at \in {"publish", "mark"} => req'[h] = req[h]
  BY DEF Kept
<1>4. ASSUME NEW key \in DOMAIN sent', key[1] = "broadcast"
      PROVE  key \in DOMAIN sent /\ sent'[key] = sent[key]
  BY <1>4 DEF NoneSent
<1> QED BY <1>1, <1>4 DEF BroadcastInv, At

LEMMA OnceSame ==
  ASSUME FormedInv, OnceInv, UNCHANGED <<mode, day, keys, broadcast, dedups, sent>>, Kept(OnceAwaits) \/ Stopped
  PROVE  OnceInv'
<1>1. ShapedInv' /\ DatedInv'
  BY DEF OnceInv, ShapedInv, DatedInv, Shaped
<1>2. CASE Kept(OnceAwaits)
  <2>1. Kept({"mail"}) /\ Kept({"execute", "store"}) /\ Kept({"publish", "mark"})
    BY <1>2 DEF Kept, OnceAwaits
  <2> QED BY <2>1, <1>1, SameSent, DueSame, CommandSame, BroadcastSame DEF OnceInv, Orderly, Interrupted
<1>3. CASE Stopped
  <2>1. Interrupted' /\ \A h \in Handlers : req'[h].at = "idle"
    BY <1>3, StoppedKeeps DEF Interrupted
  <2>2. DueInv'
    BY <2>1 DEF OnceInv, DueInv, At
  <2> QED BY <1>1, <2>1, <2>2 DEF OnceInv
<1> QED BY <1>2, <1>3

LEMMA ShapedNew ==
  ASSUME ShapedInv, NEW key, Sends(key), Shaped(key)
  PROVE  ShapedInv'
<1>1. DOMAIN sent' = DOMAIN sent \cup {key}
  BY SendsOne
<1> QED BY <1>1 DEF ShapedInv

\* What is new is not a reminder, is not a broadcast.
LEMMA Tags ==
  /\ \A k, d : <<"command", k, d>>[1] # "due" /\ <<"command", k, d>>[1] # "broadcast" /\ Shaped(<<"command", k, d>>)
  /\ \A k, d : <<"due", k, d>>[1] # "command" /\ <<"due", k, d>>[1] # "broadcast" /\ Shaped(<<"due", k, d>>)
  /\ \A to : <<"broadcast", to>>[1] # "command" /\ <<"broadcast", to>>[1] # "due" /\ Shaped(<<"broadcast", to>>)
  BY DEF Shaped

LEMMA NotDeliveries ==
  ASSUME FormedInv, [Next]_vars, ~DeliveriesStep
  PROVE  UNCHANGED <<mode, delivered>> /\ (Kept(OnceAwaits) \/ Stopped)
<1>0. /\ OnceAwaits \cap TeamAwaits = {} /\ OnceAwaits \cap TenantAwaits = {} /\ OnceAwaits \cap SpendAwaits = {}
      /\ "idle" \notin OnceAwaits
  BY DEF OnceAwaits, TeamAwaits, MemberAwaits, TenantAwaits, SpendAwaits
<1>1. CASE UNCHANGED vars
  BY <1>1, UnmovedKeeps DEF vars, Unmoved
<1>2. CASE (TeamNext \/ SessionNext) /\ UNCHANGED delivered
  <2>1. CASE Unmoved \/ Stopped
    BY <1>2, <2>1, UnmovedKeeps DEF Unmoved, Stopped
  <2>2. ASSUME NEW h \in Handlers, Moves(h, TeamAwaits)
        PROVE  Kept(OnceAwaits) /\ mode' = mode
    BY <1>0, <2>2, OthersKeep DEF Moves
  <2> QED BY <1>2, <2>1, <2>2, TeamMoves
<1>3. CASE UNCHANGED <<mode, req, delivered>>
  BY <1>3, UnmovedKeeps DEF Unmoved
<1>4. CASE TenantsStep /\ UNCHANGED delivered
  <2>1. CASE Unmoved
    BY <1>4, <2>1, UnmovedKeeps DEF Unmoved
  <2>2. ASSUME NEW h \in Handlers, Moves(h, TenantAwaits)
        PROVE  Kept(OnceAwaits) /\ mode' = mode
    BY <1>0, <2>2, OthersKeep DEF Moves
  <2> QED BY <1>4, <2>1, <2>2, TenantMoves
<1>5. CASE SpendStep /\ UNCHANGED delivered
  <2>1. CASE Unmoved
    BY <1>5, <2>1, UnmovedKeeps DEF Unmoved
  <2>2. ASSUME NEW h \in Handlers, Moves(h, SpendAwaits)
        PROVE  Kept(OnceAwaits) /\ mode' = mode
    BY <1>0, <2>2, OthersKeep DEF Moves
  <2> QED BY <1>5, <2>1, <2>2, SpendMoves
<1>6. CASE Next
  <2>1. \/ (TeamNext \/ SessionNext) /\ Watches /\ UNCHANGED <<brands, clients, delivered, spend>>
        \/ UNCHANGED <<mode, req, team, session, clients, delivered, spend>>
        \/ TenantsStep /\ UNCHANGED <<team, session, brands, delivered, spend>>
        \/ SpendStep /\ UNCHANGED <<team, session, brands, clients, delivered>>
    BY <1>6, Zenon DEF Next
  <2> QED BY <1>2, <1>3, <1>4, <1>5, <2>1
<1> QED BY <1>1, <1>6, Zenon

\* The steps of deliveries that send nothing that must happen once.
LEMMA Asides ==
  ASSUME FormedInv, NEW h \in Handlers,
         \/ RemindDueSoon(h) \/ (\E ids : Notify(h, ids)) \/ ReadDevices(h) \/ (\E d : Dispatch(h, d))
         \/ (\E id, member, field : MarkRead(h, id, member, field)) \/ Stamp(h)
  PROVE  UNCHANGED <<mode, day, keys, broadcast, dedups, sent>> /\ Kept(OnceAwaits)
<1> DEFINE U == UNCHANGED <<mode, day, keys, broadcast, dedups, sent>>
<1>k. ASSUME NEW r, Awaits(h, r), r.at \notin OnceAwaits, req[h].at \notin OnceAwaits
      PROVE  Kept(OnceAwaits)
  <2>1. \A g \in Handlers : req'[g] = IF g = h THEN r ELSE req[g]
    BY <1>k, Shifts
  <2> QED BY <1>k, <2>1 DEF Kept
<1>e. ASSUME Ends(h), req[h].at \notin OnceAwaits
      PROVE  Kept(OnceAwaits)
  BY <1>e, <1>k, IdleFormed DEF Ends, OnceAwaits
<1> USE DEF At, MayStart
<1>1. CASE RemindDueSoon(h)
  BY <1>1, <1>k DEF RemindDueSoon, OnceAwaits, delivered, Awaits
<1>2. CASE \E ids : Notify(h, ids)
  BY <1>2, <1>k DEF Notify, OnceAwaits, Awaits
<1>3. CASE ReadDevices(h)
  <2>1. U /\ req[h].at = "push"
    BY <1>3 DEF ReadDevices, delivered, Awaits
  <2>2. Ends(h) \/ \E left : Awaits(h, [at |-> "dispatch", left |-> left])
    BY <1>3 DEF ReadDevices, Ends
  <2> QED BY <2>1, <2>2, <1>k, <1>e DEF OnceAwaits
<1>4. CASE \E d : Dispatch(h, d)
  <2> DEFINE r(d) == [req[h] EXCEPT !.left = Without(@, {d})]
  <2>1. U /\ req[h].at = "dispatch"
    BY <1>4 DEF Dispatch, Awaits
  <2>2. Ends(h) \/ \E d : Awaits(h, r(d))
    BY <1>4 DEF Dispatch, Ends
  <2>3. \A d : r(d).at = "dispatch"
    BY <2>1 DEF FormedInv, Formed
  <2> HIDE DEF r
  <2> QED BY <2>1, <2>2, <2>3, <1>k, <1>e DEF OnceAwaits
<1>5. CASE \E id, member, field : MarkRead(h, id, member, field)
  BY <1>5, <1>k DEF MarkRead, OnceAwaits, delivered, Awaits
<1>6. CASE Stamp(h)
  BY <1>6, <1>e DEF Stamp, OnceAwaits, Ends, Awaits
<1> QED BY <1>1, <1>2, <1>3, <1>4, <1>5, <1>6

\* A request ends, or goes on elsewhere.
LEMMA Leaves ==
  ASSUME FormedInv, NEW h \in Handlers, NEW A,
         req[h].at \notin A, NEW r, r.at \notin A, Awaits(h, r)
  PROVE  Kept(A)
  BY Shifts DEF Kept

LEMMA Alone ==
  ASSUME FormedInv, Orderly, NEW h \in Handlers, At(h, "idle") => h \in mode.handlers
  PROVE  \A g \in Handlers : g # h => req[g].at = "idle"
  BY OneAtATime DEF FormedInv, At

LEMMA DayStep ==
  ASSUME FormedInv, OnceInv, DayPasses
  PROVE  OnceInv'
<1>1. UNCHANGED <<mode, req, keys, broadcast, dedups, sent>> /\ day \in Nat /\ day' = day + 1
  BY DEF DayPasses, OnceInv, DatedInv
<1>2. \A A : Kept(A)
  BY <1>1 DEF Kept
<1>3. ShapedInv' /\ DatedInv' /\ DueInv' /\ (BroadcastInv => BroadcastInv')
  BY <1>1, <1>2, SameSent, DueSame, BroadcastSame DEF OnceInv, ShapedInv, DatedInv
<1>4. ASSUME CommandInv PROVE CommandInv'
  <2>1. \A key \in DOMAIN keys : keys[key].day \in Nat
    BY DEF OnceInv, DatedInv
  <2> QED BY <1>1, <1>4, <2>1 DEF CommandInv, At
<1> QED BY <1>1, <1>3, <1>4 DEF OnceInv, Orderly, Interrupted

LEMMA PurgeStep ==
  ASSUME FormedInv, OnceInv, Purge
  PROVE  OnceInv'
<1>1. /\ UNCHANGED <<mode, req, day, broadcast, dedups, sent>>
      /\ keys' = Rows(keys, {key \in DOMAIN keys : keys[key].day >= day - 1})
  BY DEF Purge
<1>2. \A A : Kept(A)
  BY <1>1 DEF Kept
<1>3. /\ DOMAIN keys' = {key \in DOMAIN keys : keys[key].day >= day - 1}
      /\ \A key \in DOMAIN keys' : keys'[key] = keys[key]
  BY <1>1 DEF Rows
<1>4. ShapedInv' /\ DatedInv' /\ DueInv' /\ (BroadcastInv => BroadcastInv')
  BY <1>1, <1>2, <1>3, SameSent, DueSame, BroadcastSame DEF OnceInv, ShapedInv, DatedInv
<1>5. ASSUME CommandInv PROVE CommandInv'
  <2>1. day \in Nat /\ \A key \in DOMAIN keys : keys[key].day \in Nat
    BY DEF OnceInv, DatedInv
  <2>2. ASSUME NEW key, key \in DOMAIN keys, NEW d \in Nat, keys[key].day >= d
        PROVE  (key \in DOMAIN keys' /\ keys'[key].day >= d) \/ day >= d + 2
    BY <1>3, <2>1, <2>2
  <2>3. ASSUME NEW key \in DOMAIN sent, key[1] = "command"
        PROVE  key[3] \in Nat
    <3>1. key[3] \in 0..day
      BY <1>5, <2>3 DEF CommandInv
    <3> QED BY <2>1, <3>1
  <2> QED BY <1>1, <1>3, <1>5, <2>1, <2>2, <2>3 DEF CommandInv, At
<1> QED BY <1>1, <1>4, <1>5 DEF OnceInv, Orderly, Interrupted

LEMMA RemoveBroadcastStep ==
  ASSUME FormedInv, OnceInv, RemoveBroadcast
  PROVE  OnceInv'
<1>1. UNCHANGED <<mode, req, day, keys, dedups, sent>> /\ broadcast' = None
  BY DEF RemoveBroadcast
<1>2. \A A : Kept(A)
  BY <1>1 DEF Kept
<1>3. ShapedInv' /\ DatedInv' /\ DueInv' /\ (CommandInv => CommandInv')
  BY <1>1, <1>2, SameSent, DueSame, CommandSame DEF OnceInv, ShapedInv, DatedInv
<1>4. BroadcastInv => BroadcastInv'
  BY <1>1 DEF BroadcastInv, At
<1> QED BY <1>1, <1>3, <1>4 DEF OnceInv, Orderly, Interrupted

LEMMA RunStep ==
  ASSUME FormedInv, OnceInv, NEW h \in Handlers, NEW key, NEW body, RunCommand(h, key, body)
  PROVE  OnceInv'
<1> DEFINE r == [at |-> "execute", key |-> key, body |-> body]
<1>1. UNCHANGED <<mode, day, keys, broadcast, dedups, sent>> /\ MayStart(h)
  BY DEF RunCommand, delivered
<1>2. CASE UNCHANGED req
  BY <1>1, <1>2, OnceSame DEF Kept
<1>3. CASE Awaits(h, r) /\ key \notin DOMAIN keys
  <2>0. r.at = "execute" /\ r.key = key
    OBVIOUS
  <2> HIDE DEF r
  <2>1. Kept({"mail"}) /\ Kept({"publish", "mark"})
    BY <1>1, <1>3, <2>0, Leaves DEF MayStart
  <2>2. ShapedInv' /\ DatedInv' /\ DueInv' /\ (BroadcastInv => BroadcastInv')
    BY <1>1, <2>1, SameSent, DueSame, BroadcastSame DEF OnceInv, ShapedInv, DatedInv
  <2>3. CommandInv => CommandInv'
    <3>1. \A g \in Handlers : req'[g] = IF g = h THEN r ELSE req[g]
      BY <1>3, Shifts
    <3>2. \A g \in Handlers : At(g, "store") => At(g, "store")' /\ req'[g].key = req[g].key
      BY <1>1, <3>1 DEF At, MayStart
    <3>3. \A g \in Handlers : req'[g].at = "execute" \/ req'[g].at = "store" =>
                               g = h \/ (req'[g] = req[g])
      BY <3>1
    <3> QED BY <1>1, <1>3, <2>0, <3>1, <3>2, <3>3 DEF CommandInv, At
  <2> QED BY <1>1, <2>2, <2>3 DEF OnceInv, Orderly, Interrupted
<1> QED BY <1>1, <1>2, <1>3 DEF RunCommand, Awaits

LEMMA ExecuteStep ==
  ASSUME FormedInv, OnceInv, NEW h \in Handlers, ExecuteCommand(h)
  PROVE  OnceInv'
<1>0. /\ req[h].at = "execute" /\ UNCHANGED <<day, keys, broadcast, dedups>>
      /\ h \in mode.handlers /\ DOMAIN req[h] = {"at", "key", "body"} /\ day \in Nat
  BY DEF ExecuteCommand, At, FormedInv, Formed, OnceInv, DatedInv
<1>1. CASE Ends(h) /\ UNCHANGED sent
  <2>1. \A g \in Handlers : req'[g] = IF g = h THEN Idle ELSE req[g]
    BY <1>1, EndsShift
  <2>2. Kept({"mail"}) /\ Kept({"publish", "mark"}) /\ mode' = mode
    BY <1>0, <1>1, EndsShift, IdleFormed, Leaves DEF Ends
  <2>3. ShapedInv' /\ DatedInv' /\ DueInv' /\ (BroadcastInv => BroadcastInv')
    BY <1>0, <1>1, <2>2, SameSent, DueSame, BroadcastSame DEF OnceInv, ShapedInv, DatedInv
  <2>4. CommandInv => CommandInv'
    BY <1>0, <1>1, <2>1, IdleFormed DEF CommandInv, At
  <2> QED BY <2>2, <2>3, <2>4 DEF OnceInv, Orderly, Interrupted
<1>2. CASE Sends(<<"command", req[h].key, day>>) /\ Awaits(h, [req[h] EXCEPT !.at = "store"])
  <2> DEFINE r == [req[h] EXCEPT !.at = "store"]
  <2>0. r.at = "store" /\ r.key = req[h].key
    BY <1>0
  <2>1. Awaits(h, r)
    BY <1>2
  <2> HIDE DEF r
  <2>2. PICK key, today : key = req[h].key /\ today = day
    OBVIOUS
  <2> DEFINE new == <<"command", key, today>>
  <2>3. Sends(new) /\ new[1] = "command" /\ new[2] = key /\ new[3] = today /\ Shaped(new)
    BY <1>2, <2>2, Tags
  <2>4. /\ \A g \in Handlers : req'[g] = IF g = h THEN r ELSE req[g]
        /\ Kept({"mail"}) /\ Kept({"publish", "mark"}) /\ mode' = mode
    BY <1>0, <2>0, <2>1, Shifts, Leaves
  <2> HIDE DEF new
  <2>5. NoneSent("due") /\ NoneSent("broadcast")
    BY <2>3, SendsNoOther
  <2>6. ShapedInv' /\ DatedInv' /\ DueInv' /\ (BroadcastInv => BroadcastInv')
    BY <1>0, <2>3, <2>4, <2>5, ShapedNew, DueSame, BroadcastSame DEF OnceInv, DatedInv
  <2>7. ASSUME CommandInv, Orderly
        PROVE  CommandInv'
    <3>1. \A g \in Handlers : g # h => req[g].at = "idle"
      BY <1>0, <2>7, OneAtATime
    <3>2. key \notin DOMAIN keys
      BY <1>0, <2>2, <2>7 DEF CommandInv, At
    <3>3. ASSUME NEW k \in DOMAIN sent, k[1] = "command", k[2] = key
          PROVE  k[3] \in Nat /\ day >= k[3] + 2
      <4>1. /\ k[3] \in 0..day
            /\ \/ \E g \in Handlers : At(g, "store") /\ req[g].key = k[2]
               \/ k[2] \in DOMAIN keys /\ keys[k[2]].day >= k[3]
               \/ day >= k[3] + 2
        BY <2>7, <3>3 DEF CommandInv
      <4>2. ~\E g \in Handlers : At(g, "store")
        BY <1>0, <3>1 DEF At
      <4> QED BY <1>0, <3>2, <3>3, <4>1, <4>2
    <3>4. new \notin DOMAIN sent
      BY <1>0, <2>2, <2>3, <3>3
    <3>5. DOMAIN sent' = DOMAIN sent \cup {new} /\ sent'[new] = 1 /\ \A k \in DOMAIN sent : sent'[k] = sent[k]
      BY <2>3, <3>4, SendsOne
    <3>6. \A g \in Handlers : At(g, "execute")' \/ At(g, "store")' => req'[g].key \notin DOMAIN keys'
      BY <1>0, <2>0, <2>2, <2>4, <3>1, <3>2 DEF At
    <3>7. ASSUME NEW k \in DOMAIN sent', k[1] = "command"
          PROVE  /\ sent'[k] = 1 /\ k[3] \in 0..day'
                 /\ \/ \E g \in Handlers : At(g, "store")' /\ req'[g].key = k[2]
                    \/ k[2] \in DOMAIN keys' /\ keys'[k[2]].day >= k[3]
                    \/ day' >= k[3] + 2
                 /\ <<"command", k[2], k[3] + 1>> \notin DOMAIN sent'
      <4> DEFINE next == <<"command", k[2], k[3] + 1>>
      <4>0. next[1] = "command" /\ next[2] = k[2] /\ next[3] = k[3] + 1
        OBVIOUS
      <4> HIDE DEF next
      <4>1. CASE k = new
        <5>1. next \notin DOMAIN sent /\ next # new
          BY <1>0, <2>2, <2>3, <3>3, <4>0, <4>1
        <5> QED BY <1>0, <2>0, <2>2, <2>3, <2>4, <3>5, <4>1, <5>1 DEF next, At
      <4>2. CASE k \in DOMAIN sent
        <5>1. /\ sent[k] = 1 /\ k[3] \in 0..day /\ next \notin DOMAIN sent
              /\ \/ \E g \in Handlers : At(g, "store") /\ req[g].key = k[2]
                 \/ k[2] \in DOMAIN keys /\ keys[k[2]].day >= k[3]
                 \/ day >= k[3] + 2
          BY <2>7, <3>7, <4>2 DEF CommandInv, next
        <5>2. next # new
          BY <1>0, <2>2, <2>3, <3>3, <3>7, <4>0, <4>2, <5>1
        <5>3. ~\E g \in Handlers : At(g, "store") /\ req[g].key = k[2]
          BY <1>0, <3>1 DEF At
        <5> QED BY <1>0, <3>5, <4>2, <5>1, <5>2, <5>3 DEF next
      <4> QED BY <3>5, <4>1, <4>2
    <3> QED BY <3>6, <3>7 DEF CommandInv
  <2> QED BY <2>4, <2>6, <2>7 DEF OnceInv, Orderly, Interrupted
<1> QED BY <1>1, <1>2 DEF ExecuteCommand

LEMMA StoreStep ==
  ASSUME FormedInv, OnceInv, NEW h \in Handlers, StoreKey(h)
  PROVE  OnceInv'
<1>0. /\ req[h].at = "store" /\ UNCHANGED <<day, broadcast, dedups, sent>> /\ Ends(h)
      /\ h \in mode.handlers /\ day \in Nat
      /\ \A key \in DOMAIN keys : keys[key].day \in Nat
  BY DEF StoreKey, At, FormedInv, OnceInv, DatedInv
<1>1. /\ \A g \in Handlers : req'[g] = IF g = h THEN Idle ELSE req[g]
      /\ Kept({"mail"}) /\ Kept({"publish", "mark"}) /\ mode' = mode
  BY <1>0, EndsShift, IdleFormed, Leaves DEF Ends
<1>2. /\ DOMAIN keys' = DOMAIN keys \cup {req[h].key}
      /\ \A key \in DOMAIN keys : keys'[key] = keys[key]
      /\ req[h].key \in DOMAIN keys \/ keys'[req[h].key].day = day
  BY DEF StoreKey, With
<1>3. ShapedInv' /\ DueInv' /\ (BroadcastInv => BroadcastInv')
  BY <1>0, <1>1, SameSent, DueSame, BroadcastSame DEF OnceInv, ShapedInv
<1>4. DatedInv'
  BY <1>0, <1>2 DEF DatedInv
<1>5. ASSUME CommandInv, Orderly
      PROVE  CommandInv'
  <2>1. \A g \in Handlers : g # h => req[g].at = "idle"
    BY <1>0, <1>5, OneAtATime
  <2>2. \A g \in Handlers : req'[g].at = "idle"
    BY <1>1, <2>1, IdleFormed
  <2>3. req[h].key \notin DOMAIN keys
    BY <1>0, <1>5 DEF CommandInv, At
  <2>4. ASSUME NEW k \in DOMAIN sent, k[1] = "command"
        PROVE  (k[2] \in DOMAIN keys' /\ keys'[k[2]].day >= k[3]) \/ day' >= k[3] + 2
    <3>1. /\ k[3] \in 0..day
          /\ \/ \E g \in Handlers : At(g, "store") /\ req[g].key = k[2]
             \/ k[2] \in DOMAIN keys /\ keys[k[2]].day >= k[3]
             \/ day >= k[3] + 2
      BY <1>5, <2>4 DEF CommandInv
    <3>2. (\E g \in Handlers : At(g, "store") /\ req[g].key = k[2]) => req[h].key = k[2]
      BY <2>1 DEF At
    <3> QED BY <1>0, <1>2, <2>3, <3>1, <3>2
  <2> QED BY <1>0, <1>5, <2>2, <2>4 DEF CommandInv, At
<1> QED BY <1>1, <1>3, <1>4, <1>5 DEF OnceInv, Orderly, Interrupted

LEMMA SendBroadcastStep ==
  ASSUME FormedInv, OnceInv, NEW h \in Handlers, SendBroadcast(h)
  PROVE  OnceInv'
<1>0. /\ req[h].at = "idle" /\ UNCHANGED <<day, keys, broadcast, dedups, sent>> /\ h \in mode.handlers
      /\ broadcast # None /\ broadcast.status # "sent"
  BY DEF SendBroadcast, MayStart, delivered
<1>1. PICK r : /\ Awaits(h, r)
               /\ r.at \in {"publish", "mark"}
               /\ r.at = "publish" => r.left \cap r.reached = {}
  <2>1. Awaits(h, [at |-> "mark", left |-> {}, reached |-> Recipients, failed |-> {}])
        \/ Awaits(h, [at |-> "publish", left |-> Recipients, reached |-> {}, failed |-> {}])
    BY DEF SendBroadcast
  <2> QED BY <2>1
<1>2. /\ \A g \in Handlers : req'[g] = IF g = h THEN r ELSE req[g]
      /\ Kept({"mail"}) /\ Kept({"execute", "store"}) /\ mode' = mode
  BY <1>0, <1>1, Shifts, Leaves
<1>3. ShapedInv' /\ DatedInv' /\ DueInv' /\ (CommandInv => CommandInv')
  BY <1>0, <1>2, SameSent, DueSame, CommandSame DEF OnceInv, ShapedInv, DatedInv
<1>4. ASSUME BroadcastInv, Orderly
      PROVE  BroadcastInv'
  <2>1. \A g \in Handlers : req[g].at \notin {"publish", "mark"}
    BY <1>0, <1>4, OneAtATime
  <2>2. \A key \in DOMAIN sent : key[1] # "broadcast"
    BY <1>0, <1>4, <2>1 DEF BroadcastInv, At
  <2> QED BY <1>0, <1>1, <1>2, <1>4, <2>1, <2>2 DEF BroadcastInv, At
<1> QED BY <1>2, <1>3, <1>4 DEF OnceInv, Orderly, Interrupted

LEMMA PublishStep ==
  ASSUME FormedInv, OnceInv, NEW h \in Handlers, NEW to, PublishTo(h, to)
  PROVE  OnceInv'
<1> DEFINE new == <<"broadcast", to>>
           reach(sends) == IF sends THEN req[h].reached \cup {to} ELSE req[h].reached
<1>0. /\ req[h].at = "publish" /\ UNCHANGED <<day, keys, broadcast, dedups>> /\ h \in mode.handlers
      /\ to \in req[h].left
      /\ new[1] = "broadcast" /\ new[2] = to /\ Shaped(new)
  BY Tags DEF PublishTo, At, FormedInv
<1>1. \E sends \in BOOLEAN : \E r :
        /\ Awaits(h, r) /\ r.at \in {"publish", "mark"}
        /\ r.left = req[h].left \ {to} /\ r.reached = reach(sends)
        /\ IF sends THEN Sends(new) ELSE UNCHANGED sent
  <2>1. CASE \E failed : \E at \in {"publish", "mark"} :
               /\ Awaits(h, [at |-> at, left |-> req[h].left \ {to}, reached |-> req[h].reached \cup {to}, failed |-> failed])
               /\ Sends(new)
    BY <2>1
  <2>2. CASE \E failed : \E at \in {"publish", "mark"} :
               /\ Awaits(h, [at |-> at, left |-> req[h].left \ {to}, reached |-> req[h].reached, failed |-> failed])
               /\ UNCHANGED sent
    BY <2>2
  <2> QED BY <2>1, <2>2 DEF PublishTo
<1>s. PICK sends \in BOOLEAN : \E r :
        /\ Awaits(h, r) /\ r.at \in {"publish", "mark"}
        /\ r.left = req[h].left \ {to} /\ r.reached = reach(sends)
        /\ IF sends THEN Sends(new) ELSE UNCHANGED sent
  BY <1>1
<1>2. PICK r :
        /\ Awaits(h, r) /\ r.at \in {"publish", "mark"}
        /\ r.left = req[h].left \ {to} /\ r.reached = reach(sends)
        /\ IF sends THEN Sends(new) ELSE UNCHANGED sent
  BY <1>s
<1> HIDE DEF new
<1>3. /\ \A g \in Handlers : req'[g] = IF g = h THEN r ELSE req[g]
      /\ Kept({"mail"}) /\ Kept({"execute", "store"}) /\ mode' = mode
  BY <1>0, <1>2, Shifts, Leaves
<1>4. NoneSent("due") /\ NoneSent("command") /\ ShapedInv'
  BY <1>0, <1>2, SendsNoOther, SameSent, ShapedNew DEF OnceInv, ShapedInv
<1>5. DatedInv' /\ DueInv' /\ (CommandInv => CommandInv')
  BY <1>0, <1>3, <1>4, DueSame, CommandSame DEF OnceInv, DatedInv
<1>6. ASSUME BroadcastInv, Orderly
      PROVE  BroadcastInv'
  <2>1. \A g \in Handlers : g # h => req[g].at = "idle" /\ req'[g].at = "idle"
    BY <1>0, <1>3, <1>6, OneAtATime
  <2>2. req[h].left \cap req[h].reached = {} /\ \A key \in DOMAIN sent : key[1] = "broadcast" => key[2] \in req[h].reached
    BY <1>0, <1>6 DEF BroadcastInv, At
  <2>3. new \notin DOMAIN sent
    BY <1>0, <2>2
  <2>4. \A key \in DOMAIN sent' : \/ key \in DOMAIN sent /\ sent'[key] = sent[key]
                                  \/ sends /\ key = new /\ sent'[key] = 1
    <3>1. CASE sends
      <4>1. Sends(new)
        BY <1>2, <3>1
      <4>2. DOMAIN sent' = DOMAIN sent \cup {new} /\ sent'[new] = 1 /\ \A k \in DOMAIN sent : sent'[k] = sent[k]
        BY <2>3, <4>1, SendsOne
      <4> QED BY <3>1, <4>2
    <3>2. CASE ~sends
      BY <1>2, <3>2
    <3> QED BY <3>1, <3>2
  <2>5. req'[h] = r /\ r.left \cap r.reached = {}
    BY <1>2, <1>3, <2>2
  <2>6. ASSUME NEW key \in DOMAIN sent', key[1] = "broadcast"
        PROVE  sent'[key] = 1 /\ key[2] \in r.reached
    <3>1. CASE key \in DOMAIN sent /\ sent'[key] = sent[key]
      BY <1>2, <1>6, <2>2, <2>6, <3>1 DEF BroadcastInv
    <3>2. CASE sends /\ key = new /\ sent'[key] = 1
      BY <1>0, <1>2, <3>2
    <3> QED BY <2>4, <3>1, <3>2
  <2> QED BY <1>0, <1>2, <2>1, <2>5, <2>6 DEF BroadcastInv, At
<1> QED BY <1>3, <1>4, <1>5, <1>6 DEF OnceInv, Orderly, Interrupted

LEMMA MarkStep ==
  ASSUME FormedInv, OnceInv, NEW h \in Handlers, MarkSent(h)
  PROVE  OnceInv'
<1>0. /\ req[h].at = "mark" /\ UNCHANGED <<day, keys, dedups, sent>> /\ h \in mode.handlers /\ Ends(h)
      /\ broadcast'.status = IF req[h].reached = {} THEN "failed" ELSE "sent"
  BY DEF MarkSent, At, FormedInv
<1>1. /\ \A g \in Handlers : req'[g] = IF g = h THEN Idle ELSE req[g]
      /\ Kept({"mail"}) /\ Kept({"execute", "store"}) /\ mode' = mode
  BY <1>0, EndsShift, IdleFormed, Leaves DEF Ends
<1>2. ShapedInv' /\ DatedInv' /\ DueInv' /\ (CommandInv => CommandInv')
  BY <1>0, <1>1, SameSent, DueSame, CommandSame DEF OnceInv, ShapedInv, DatedInv
<1>3. ASSUME BroadcastInv, Orderly
      PROVE  BroadcastInv'
  <2>1. \A g \in Handlers : req'[g].at = "idle"
    BY <1>0, <1>1, <1>3, OneAtATime, IdleFormed
  <2>2. \A key \in DOMAIN sent : key[1] = "broadcast" => sent[key] = 1 /\ req[h].reached # {}
    BY <1>0, <1>3 DEF BroadcastInv, At
  <2> QED BY <1>0, <2>1, <2>2 DEF BroadcastInv, At
<1> QED BY <1>1, <1>2, <1>3 DEF OnceInv, Orderly, Interrupted

LEMMA DedupStep ==
  ASSUME FormedInv, OnceInv, NEW h \in Handlers, NEW task, SaveDedup(h, task)
  PROVE  OnceInv'
<1> DEFINE rest == req[h].left \ {task}
           r == [req[h] EXCEPT !.left = rest]
           m == [at |-> "mail", task |-> task, left |-> rest, today |-> req[h].today]
<1>0. /\ req[h].at = "dedup" /\ UNCHANGED <<day, keys, broadcast, sent>>
      /\ r.at = "dedup" /\ m.at = "mail" /\ m.task = task /\ m.today = req[h].today
  BY DEF SaveDedup, At, FormedInv, Formed
<1>1. \/ UNCHANGED dedups /\ (Ends(h) \/ Awaits(h, r))
      \/ /\ <<task, req[h].today>> \notin dedups
         /\ dedups' = dedups \cup {<<task, req[h].today>>} /\ Awaits(h, m)
  BY DEF SaveDedup, Ends
<1> HIDE DEF r, m
<1>2. CASE UNCHANGED dedups /\ (Ends(h) \/ Awaits(h, r))
  <2>1. Kept(OnceAwaits) /\ mode' = mode
    BY <1>0, <1>2, Leaves, Shifts, IdleFormed DEF Ends, OnceAwaits
  <2> QED BY <1>0, <1>2, <2>1, OnceSame
<1>3. CASE /\ <<task, req[h].today>> \notin dedups
           /\ dedups' = dedups \cup {<<task, req[h].today>>} /\ Awaits(h, m)
  <2>1. /\ \A g \in Handlers : req'[g] = IF g = h THEN m ELSE req[g]
        /\ Kept({"execute", "store"}) /\ Kept({"publish", "mark"}) /\ mode' = mode
    BY <1>0, <1>3, Shifts, Leaves
  <2>2. ShapedInv' /\ DatedInv' /\ (CommandInv => CommandInv') /\ (BroadcastInv => BroadcastInv')
    BY <1>0, <2>1, SameSent, CommandSame, BroadcastSame DEF OnceInv, ShapedInv, DatedInv
  <2>3. DueInv
    BY DEF OnceInv
  <2>4. <<"due", task, req[h].today>> \notin DOMAIN sent
    BY <1>3, <2>3 DEF DueInv
  <2>5. \A key \in DOMAIN sent : key[1] = "due" => sent[key] = 1 /\ <<key[2], key[3]>> \in dedups'
    BY <1>3, <2>3 DEF DueInv
  <2>6. ASSUME NEW g \in Handlers, req'[g].at = "mail"
        PROVE  /\ <<req'[g].task, req'[g].today>> \in dedups'
               /\ <<"due", req'[g].task, req'[g].today>> \notin DOMAIN sent'
               /\ g # h => <<req'[g].task, req'[g].today>> \in dedups
    BY <1>0, <1>3, <2>1, <2>3, <2>4, <2>6 DEF DueInv, At
  <2>7. ASSUME NEW f \in Handlers, NEW g \in Handlers, f # g, req'[f].at = "mail", req'[g].at = "mail"
        PROVE  <<req'[g].task, req'[g].today>> # <<req'[f].task, req'[f].today>>
    <3>1. CASE f = h
      BY <1>0, <1>3, <2>1, <2>6, <2>7, <3>1
    <3>2. CASE g = h
      BY <1>0, <1>3, <2>1, <2>6, <2>7, <3>2
    <3>3. CASE f # h /\ g # h
      BY <2>1, <2>3, <2>7, <3>3 DEF DueInv, At
    <3> QED BY <3>1, <3>2, <3>3
  <2>8. DueInv'
    BY <1>0, <2>5, <2>6, <2>7 DEF DueInv, At
  <2> QED BY <2>1, <2>2, <2>8 DEF OnceInv, Orderly, Interrupted
<1> QED BY <1>1, <1>2, <1>3

LEMMA MailStep ==
  ASSUME FormedInv, OnceInv, NEW h \in Handlers, MailDueSoon(h)
  PROVE  OnceInv'
<1>0. PICK task, today : task = req[h].task /\ today = req[h].today
  OBVIOUS
<1> DEFINE new == <<"due", task, today>>
<1>1. /\ req[h].at = "mail" /\ UNCHANGED <<day, keys, broadcast, dedups>>
      /\ new[1] = "due" /\ new[2] = task /\ new[3] = today /\ Shaped(new) /\ DueInv
  BY Tags DEF MailDueSoon, At, OnceInv
<1>2. Sends(new) \/ UNCHANGED sent
  BY <1>0 DEF MailDueSoon
<1>3. PICK r : Awaits(h, r) /\ r.at \in {"idle", "dedup"}
  BY IdleFormed DEF MailDueSoon
<1>4. /\ \A g \in Handlers : req'[g] = IF g = h THEN r ELSE req[g]
      /\ Kept({"execute", "store"}) /\ Kept({"publish", "mark"}) /\ mode' = mode
  BY <1>1, <1>3, Shifts, Leaves
<1>5. /\ new \notin DOMAIN sent /\ <<task, today>> \in dedups
      /\ \A g \in Handlers : g # h /\ req[g].at = "mail" => <<req[g].task, req[g].today>> # <<task, today>>
  BY <1>0, <1>1 DEF DueInv, At
<1> HIDE DEF new
<1>6. NoneSent("command") /\ NoneSent("broadcast") /\ ShapedInv'
  BY <1>1, <1>2, SendsNoOther, SameSent, ShapedNew DEF OnceInv, ShapedInv
<1>7. DatedInv' /\ (CommandInv => CommandInv') /\ (BroadcastInv => BroadcastInv')
  BY <1>1, <1>4, <1>6, CommandSame, BroadcastSame DEF OnceInv, DatedInv
<1>8. \A key \in DOMAIN sent' : \/ key \in DOMAIN sent /\ sent'[key] = sent[key]
                                \/ key = new /\ sent'[key] = 1
  <2>1. CASE Sends(new)
    <3>1. DOMAIN sent' = DOMAIN sent \cup {new} /\ sent'[new] = 1 /\ \A k \in DOMAIN sent : sent'[k] = sent[k]
      BY <1>5, <2>1, SendsOne
    <3> QED BY <3>1
  <2> QED BY <1>2, <2>1
<1>9. ASSUME NEW key \in DOMAIN sent', key[1] = "due"
      PROVE  sent'[key] = 1 /\ <<key[2], key[3]>> \in dedups'
  BY <1>1, <1>5, <1>8, <1>9 DEF DueInv
<1>10. ASSUME NEW g \in Handlers, req'[g].at = "mail"
       PROVE  /\ g # h /\ req'[g] = req[g] /\ <<req[g].task, req[g].today>> \in dedups
              /\ <<"due", req[g].task, req[g].today>> \notin DOMAIN sent'
  <2>1. g # h /\ req'[g] = req[g]
    BY <1>3, <1>4, <1>10
  <2>2. <<req[g].task, req[g].today>> \in dedups /\ <<"due", req[g].task, req[g].today>> \notin DOMAIN sent
    BY <1>1, <1>10, <2>1 DEF DueInv, At
  <2>3. <<"due", req[g].task, req[g].today>> # new
    BY <1>5, <1>10, <2>1 DEF new
  <2> QED BY <1>8, <2>1, <2>2, <2>3
<1>11. DueInv'
  <2>1. ASSUME NEW f \in Handlers, NEW g \in Handlers, f # g, req'[f].at = "mail", req'[g].at = "mail"
        PROVE  <<req'[g].task, req'[g].today>> # <<req'[f].task, req'[f].today>>
    <3>1. req'[f] = req[f] /\ req'[g] = req[g] /\ req[f].at = "mail" /\ req[g].at = "mail"
      BY <1>10, <2>1
    <3> QED BY <1>1, <2>1, <3>1 DEF DueInv, At
  <2>2. \A g \in Handlers : req'[g].at = "mail" =>
          /\ <<req'[g].task, req'[g].today>> \in dedups'
          /\ <<"due", req'[g].task, req'[g].today>> \notin DOMAIN sent'
    BY <1>1, <1>10
  <2> QED BY <1>9, <2>1, <2>2 DEF DueInv, At
<1> QED BY <1>4, <1>6, <1>7, <1>11 DEF OnceInv, Orderly, Interrupted

LEMMA OnceStep ==
  ASSUME FormedInv, OnceInv, [Next]_vars
  PROVE  OnceInv'
<1>1. CASE ~DeliveriesStep
  <2>1. UNCHANGED <<mode, day, keys, broadcast, dedups, sent>> /\ (Kept(OnceAwaits) \/ Stopped)
    BY <1>1, NotDeliveries DEF delivered
  <2> QED BY <2>1, OnceSame
<1>2. CASE Stops
  BY <1>2, OnceSame DEF Stops, Stopped, Interrupted, delivered
<1>3. CASE \E member \in Recipients : MarkAllRead(member) \/ \E d \in Devices : Subscribe(member, d) \/ Unsubscribe(member, d)
  <2>1. UNCHANGED <<mode, req, day, keys, broadcast, dedups, sent>>
    BY <1>3 DEF MarkAllRead, Subscribe, Unsubscribe
  <2> QED BY <2>1, OnceSame DEF Kept
<1>4. ASSUME NEW h \in Handlers,
             \/ RemindDueSoon(h) \/ (\E ids : Notify(h, ids)) \/ ReadDevices(h) \/ (\E d : Dispatch(h, d))
             \/ (\E id, member, field : MarkRead(h, id, member, field)) \/ Stamp(h)
      PROVE  OnceInv'
  BY <1>4, Asides, OnceSame
<1>5. ASSUME NEW h \in Handlers,
             \/ (\E key, body : RunCommand(h, key, body)) \/ ExecuteCommand(h) \/ StoreKey(h) \/ SendBroadcast(h)
             \/ (\E to : PublishTo(h, to)) \/ MarkSent(h) \/ (\E task : SaveDedup(h, task)) \/ MailDueSoon(h)
      PROVE  OnceInv'
  BY <1>5, RunStep, ExecuteStep, StoreStep, SendBroadcastStep, PublishStep, MarkStep, DedupStep, MailStep
<1>6. CASE DayPasses \/ Purge \/ RemoveBroadcast
  BY <1>6, DayStep, PurgeStep, RemoveBroadcastStep
<1>7. CASE DeliveriesStep
  BY <1>2, <1>3, <1>4, <1>5, <1>6, <1>7, Zenon DEF DeliveriesStep
<1> QED BY <1>1, <1>7

\* What is asked again happens once: a reminder is mailed once a day however runs of
\* the scheduler overlap, cross midnight or stop, because its row is saved before
\* the mail and is unique; where requests do not overlap and none is cut short, a
\* broadcast reaches a recipient once, and a command runs once for a key until the
\* key is purged (run() and purgeExpired() of the idempotency service, send() of
\* broadcasts, run() of the due-soon scheduler).
THEOREM DeliveredOnce == Spec => []HappensOnce
<1>1. Init => FormedInv /\ OnceInv
  BY InitFormed, IdleFormed
  DEF Init, DeliveriesInit, OnceInv, ShapedInv, DueInv, DatedInv, CommandInv, BroadcastInv, At, FormedInv
<1>2. FormedInv /\ OnceInv /\ [Next]_vars => FormedInv' /\ OnceInv'
  BY NextFormed, OnceStep
<1>3. FormedInv /\ OnceInv => HappensOnce
  <2> SUFFICES ASSUME OnceInv, NEW key \in DOMAIN sent
               PROVE  /\ key[1] = "due" => sent[key] = 1
                      /\ (Orderly /\ ~Interrupted) =>
                           /\ sent[key] = 1
                           /\ key[1] = "command" => <<"command", key[2], key[3] + 1>> \notin DOMAIN sent
    BY DEF HappensOnce
  <2>1. key[1] \in {"broadcast", "due", "command"}
    BY DEF OnceInv, ShapedInv, Shaped
  <2>2. key[1] = "due" => sent[key] = 1
    BY DEF OnceInv, DueInv
  <2>3. ASSUME CommandInv, BroadcastInv
        PROVE  /\ sent[key] = 1
               /\ key[1] = "command" => <<"command", key[2], key[3] + 1>> \notin DOMAIN sent
    BY <2>1, <2>2, <2>3 DEF CommandInv, BroadcastInv
  <2> QED BY <2>2, <2>3 DEF OnceInv
<1> QED BY <1>1, <1>2, <1>3, PTL DEF Spec

-----------------------------------------------------------------------------
(***************************************************************************)
(* What is charged once.                                                   *)
(***************************************************************************)
ExpenseRow(row) ==
    DOMAIN row = {"recurring", "source", "ours", "month", "template", "invoice", "basis"}

\* The awaits over a row that is saved afterwards as it was read.
InHand == {"expense", "invoices", "newInvoice"}

HandRows(r, ids) ==
    /\ r.at \in InHand => r.id \in ids /\ ExpenseRow(r.row)
    /\ r.at = "newInvoice" => r.invoice # None

RowsInv ==
    /\ DOMAIN expenses \subseteq issued /\ issued \subseteq ExpenseIds
    /\ \A i \in DOMAIN expenses : ExpenseRow(expenses[i])
    /\ \A h \in Handlers : HandRows(req[h], issued)

\* Nobody edits, removes or writes over the row of an invoice.
Guarded(table) == \A i \in DOMAIN table : table[i].invoice # None =>
    table[i].source = "railway" /\ table[i].recurring = FALSE

Listed(table, invoice) == \E i \in DOMAIN table : table[i].invoice = invoice

Pending(r) == IF r.at = "newInvoice" THEN {r.invoice} ELSE {}

HandInvoice(r, table) ==
    /\ r.at \in InHand => /\ r.row.invoice = None
                          /\ r.id \in DOMAIN table => table[r.id].invoice = None
    /\ r.at \in {"invoices", "newInvoice"} =>
         \A invoice \in (DOMAIN r.paid \ r.left) \ Pending(r) : invoice # None /\ Listed(table, invoice)

InvoiceInv == Guarded(expenses) /\ \A h \in Handlers : HandInvoice(req[h], expenses)

OneRow(table) ==
    \A i, j \in DOMAIN table : i # j /\ table[i].invoice # None => table[i].invoice # table[j].invoice

HandOne(r, table) == r.at = "newInvoice" => r.invoice # None /\ ~Listed(table, r.invoice)

OneRowInv == OneRow(expenses) /\ \A h \in Handlers : HandOne(req[h], expenses)

\* Neither a row in hand nor one about to be generated is there a second time.
Clash(row, other) ==
    /\ row.template # None /\ row.invoice = None /\ other.invoice = None
    /\ row.template = other.template /\ row.month = other.month

OneMonth(table) == \A i, j \in DOMAIN table : i # j => ~Clash(table[i], table[j])

HandMonth(r, table) ==
    /\ r.at \in InHand => \A j \in DOMAIN table \ {r.id} : ~Clash(r.row, table[j])
    /\ r.at = "monthly" => \A id \in DOMAIN r.left \ r.those : \A j \in DOMAIN table :
         table[j].template = id /\ table[j].month = r.month => table[j].template = None

MonthInv == OneMonth(expenses) /\ \A h \in Handlers : HandMonth(req[h], expenses)

SpendInv ==
    /\ RowsInv
    /\ ~Types => InvoiceInv
    /\ Orderly /\ ~Types => OneRowInv
    /\ Orderly /\ ~Redates => MonthInv

-----------------------------------------------------------------------------
\* A row is inserted under an identifier that was never given.
LEMMA InsertsRow ==
  ASSUME RowsInv, NEW row, Inserts(row)
  PROVE  \E id \in ExpenseIds \ issued :
            /\ id = Fresh
            /\ issued' = issued \cup {id} /\ DOMAIN expenses' = DOMAIN expenses \cup {id}
            /\ expenses'[id] = row /\ \A i \in DOMAIN expenses : expenses'[i] = expenses[i]
<1> DEFINE Unissued == ExpenseIds \ issued
           Less == OpToRel(<, Nat)
<1>1. Unissued \subseteq Nat /\ Unissued # {}
  BY ExpensesAssumption DEF RowsInv, Inserts
<1>2. IsWellFoundedOn(Less, Nat) /\ \A x, y \in Nat : y < x => <<y, x>> \in Less
  BY NatLessThanWellFounded DEF OpToRel
<1> HIDE DEF Less
<1>3. \E x \in Unissued : \A y \in Unissued : x <= y
  <2> HIDE DEF Unissued
  <2>1. PICK x \in Unissued : \A y \in Unissued : ~(<<y, x>> \in Less)
    BY <1>1, <1>2, WFMin
  <2>2. \A y \in Unissued : ~(y < x)
    BY <1>1, <1>2, <2>1
  <2> QED BY <1>1, <2>2
<1>4. Fresh \in Unissued
  BY <1>3 DEF Fresh, Min
<1> QED BY <1>4 DEF Inserts, With, RowsInv

\* What an insertion keeps.
LEMMA InsertKeeps ==
  ASSUME NEW table, NEW new, NEW id, id \notin DOMAIN table, DOMAIN new = DOMAIN table \cup {id},
         \A i \in DOMAIN table : new[i] = table[i]
  PROVE  /\ \A r, ids : HandRows(r, ids) => HandRows(r, ids \cup {id})
         /\ \A r, ids : id \notin ids /\ HandRows(r, ids) /\ HandInvoice(r, table) => HandInvoice(r, new)
         /\ new[id].invoice = None \/ (new[id].source = "railway" /\ new[id].recurring = FALSE) =>
              (Guarded(table) => Guarded(new))
         /\ new[id].invoice = None \/ ~Listed(table, new[id].invoice) => (OneRow(table) => OneRow(new))
         /\ (\A j \in DOMAIN table : ~Clash(new[id], table[j])) => (OneMonth(table) => OneMonth(new))
         /\ new[id].template = None => \A r : HandMonth(r, table) => HandMonth(r, new)
<1>1. \A r, ids : HandRows(r, ids) => HandRows(r, ids \cup {id})
  BY DEF HandRows
<1>2. \A invoice : Listed(table, invoice) => Listed(new, invoice)
  BY DEF Listed
<1>3. ASSUME NEW r, NEW ids, id \notin ids, HandRows(r, ids), HandInvoice(r, table)
      PROVE  HandInvoice(r, new)
  <2>1. r.at \in InHand => r.row.invoice = None /\ (r.id \in DOMAIN new => new[r.id].invoice = None)
    BY <1>3 DEF HandInvoice, HandRows
  <2> QED BY <1>2, <1>3, <2>1 DEF HandInvoice
<1>4. new[id].invoice = None \/ (new[id].source = "railway" /\ new[id].recurring = FALSE) =>
              (Guarded(table) => Guarded(new))
  BY DEF Guarded
<1>5. new[id].invoice = None \/ ~Listed(table, new[id].invoice) => (OneRow(table) => OneRow(new))
  BY DEF OneRow, Listed
<1>6. (\A j \in DOMAIN table : ~Clash(new[id], table[j])) => (OneMonth(table) => OneMonth(new))
  BY DEF OneMonth, Clash
<1>7. ASSUME new[id].template = None, NEW r, HandMonth(r, table)
      PROVE  HandMonth(r, new)
  BY <1>7 DEF HandMonth, Clash
<1> QED BY <1>1, <1>3, <1>4, <1>5, <1>6, <1>7

\* What a removal keeps.
LEMMA RemovalKeeps ==
  ASSUME NEW table, NEW new, NEW id, table[id].invoice = None \/ id \notin DOMAIN table,
         DOMAIN new = DOMAIN table \ {id}, \A i \in DOMAIN new : new[i] = table[i]
  PROVE  /\ \A r : HandInvoice(r, table) => HandInvoice(r, new)
         /\ Guarded(table) => Guarded(new)
         /\ OneRow(table) => OneRow(new)
         /\ OneMonth(table) => OneMonth(new)
         /\ \A r : HandMonth(r, table) => HandMonth(r, new)
         /\ \A r : HandOne(r, table) => HandOne(r, new)
<1>1. \A invoice : invoice # None /\ Listed(table, invoice) => Listed(new, invoice)
  BY DEF Listed
<1>2. \A r : HandInvoice(r, table) => HandInvoice(r, new)
  BY <1>1 DEF HandInvoice
<1>3. (Guarded(table) => Guarded(new)) /\ (OneRow(table) => OneRow(new)) /\ (OneMonth(table) => OneMonth(new))
  BY DEF Guarded, OneRow, OneMonth
<1>4. \A r : HandMonth(r, table) => HandMonth(r, new)
  BY DEF HandMonth
<1>5. \A r : HandOne(r, table) => HandOne(r, new)
  BY DEF HandOne, Listed
<1> QED BY <1>2, <1>3, <1>4, <1>5

\* What saving a row in hand keeps.
LEMMA SaveKeeps ==
  ASSUME NEW table, NEW new, NEW id, NEW row, DOMAIN new = DOMAIN table \cup {id},
         \A i \in DOMAIN new : new[i] = IF i = id THEN row ELSE table[i]
  PROVE  /\ row.invoice = None /\ (id \in DOMAIN table => table[id].invoice = None) =>
              /\ \A r : HandInvoice(r, table) => HandInvoice(r, new)
              /\ Guarded(table) => Guarded(new)
              /\ OneRow(table) => OneRow(new)
         /\ (\A j \in DOMAIN table \ {id} : ~Clash(row, table[j])) => (OneMonth(table) => OneMonth(new))
<1>1. ASSUME row.invoice = None, id \in DOMAIN table => table[id].invoice = None
      PROVE  /\ \A r : HandInvoice(r, table) => HandInvoice(r, new)
             /\ Guarded(table) => Guarded(new)
             /\ OneRow(table) => OneRow(new)
  <2>1. \A invoice : invoice # None /\ Listed(table, invoice) => Listed(new, invoice)
    BY <1>1 DEF Listed
  <2>2. \A r : HandInvoice(r, table) => HandInvoice(r, new)
    BY <1>1, <2>1 DEF HandInvoice
  <2>3. (Guarded(table) => Guarded(new)) /\ (OneRow(table) => OneRow(new))
    BY <1>1 DEF Guarded, OneRow
  <2> QED BY <2>2, <2>3
<1>2. (\A j \in DOMAIN table \ {id} : ~Clash(row, table[j])) => (OneMonth(table) => OneMonth(new))
  BY DEF OneMonth, Clash
<1> QED BY <1>1, <1>2

LEMMA ModeOnly == mode' = mode => (Types' <=> Types) /\ (Redates' <=> Redates) /\ (Orderly' <=> Orderly)
  BY DEF Types, Redates, Orderly

ChargeAwaits == {"expense", "invoices", "newInvoice", "monthly"}

LEMMA Elsewhere ==
  ASSUME NEW r, r.at \notin ChargeAwaits
  PROVE  /\ \A ids : HandRows(r, ids)
         /\ \A table : HandInvoice(r, table) /\ HandOne(r, table) /\ HandMonth(r, table)
  BY DEF ChargeAwaits, InHand, HandRows, HandInvoice, HandOne, HandMonth

\* The rows stay, and no request comes near them.
LEMMA SpendSame ==
  ASSUME SpendInv, UNCHANGED <<mode, expenses, issued>>,
         \A h \in Handlers : req'[h].at \in ChargeAwaits => req'[h] = req[h]
  PROVE  SpendInv'
<1>1. \A h \in Handlers : req'[h] = req[h] \/ req'[h].at \notin ChargeAwaits
  OBVIOUS
<1>2. RowsInv'
  BY <1>1, Elsewhere DEF SpendInv, RowsInv
<1>3. InvoiceInv => InvoiceInv'
  BY <1>1, Elsewhere DEF InvoiceInv
<1>4. OneRowInv => OneRowInv'
  BY <1>1, Elsewhere DEF OneRowInv
<1>5. MonthInv => MonthInv'
  BY <1>1, Elsewhere DEF MonthInv
<1> QED BY <1>2, <1>3, <1>4, <1>5, ModeOnly DEF SpendInv

\* One request moves, and the rows as told.
LEMMA SpendAfter ==
  ASSUME FormedInv, SpendInv, NEW h \in Handlers, NEW r, Awaits(h, r), h \in mode.handlers,
         DOMAIN expenses' \subseteq issued', issued' \subseteq ExpenseIds,
         \A i \in DOMAIN expenses' : ExpenseRow(expenses'[i]),
         \A q : HandRows(q, issued) => HandRows(q, issued'), HandRows(r, issued'),
         ~Types => /\ Guarded(expenses') /\ HandInvoice(r, expenses')
                   /\ \A q : HandRows(q, issued) /\ HandInvoice(q, expenses) => HandInvoice(q, expenses'),
         Orderly /\ ~Types => OneRow(expenses') /\ HandOne(r, expenses'),
         Orderly /\ ~Redates => OneMonth(expenses') /\ HandMonth(r, expenses')
  PROVE  SpendInv'
<1>1. (\A g \in Handlers : req'[g] = IF g = h THEN r ELSE req[g]) /\ mode' = mode
  BY Shifts
<1>2. RowsInv'
  BY <1>1 DEF SpendInv, RowsInv
<1>3. ~Types => InvoiceInv'
  BY <1>1 DEF SpendInv, InvoiceInv, RowsInv
<1>4. Orderly => \A g \in Handlers : g # h => req'[g].at \notin ChargeAwaits
  <2>1. Orderly => \A g \in Handlers : g # h => req[g].at = "idle"
    BY OneAtATime
  <2> QED BY <1>1, <2>1 DEF ChargeAwaits
<1>5. Orderly /\ ~Types => OneRowInv'
  BY <1>1, <1>4, Elsewhere DEF OneRowInv
<1>6. Orderly /\ ~Redates => MonthInv'
  BY <1>1, <1>4, Elsewhere DEF MonthInv
<1> QED BY <1>1, <1>2, <1>3, <1>5, <1>6, ModeOnly DEF SpendInv

\* The same without a request.
LEMMA SpendBeside ==
  ASSUME SpendInv, UNCHANGED <<mode, req>>,
         DOMAIN expenses' \subseteq issued', issued' \subseteq ExpenseIds,
         \A i \in DOMAIN expenses' : ExpenseRow(expenses'[i]),
         \A q : HandRows(q, issued) => HandRows(q, issued'),
         ~Types => /\ Guarded(expenses) => Guarded(expenses')
                   /\ \A q : HandRows(q, issued) /\ HandInvoice(q, expenses) => HandInvoice(q, expenses')
                   /\ OneRow(expenses) => OneRow(expenses')
                   /\ \A q : HandOne(q, expenses) => HandOne(q, expenses'),
         OneMonth(expenses) => OneMonth(expenses'), ~Redates => \A q : HandMonth(q, expenses) => HandMonth(q, expenses')
  PROVE  SpendInv'
<1>1. RowsInv'
  BY DEF SpendInv, RowsInv
<1>2. ~Types => InvoiceInv'
  BY DEF SpendInv, InvoiceInv, RowsInv
<1>3. Orderly /\ ~Types => OneRowInv'
  BY DEF SpendInv, OneRowInv
<1>4. Orderly /\ ~Redates => MonthInv'
  BY DEF SpendInv, MonthInv
<1> QED BY <1>1, <1>2, <1>3, <1>4, ModeOnly DEF SpendInv

\* Both together: what is known of the rows after an insertion.
Inserted(id, row) ==
    /\ id = Fresh /\ id \notin issued /\ issued' = issued \cup {id}
    /\ DOMAIN expenses' = DOMAIN expenses \cup {id} /\ id \notin DOMAIN expenses
    /\ expenses'[id] = row /\ \A i \in DOMAIN expenses : expenses'[i] = expenses[i]
    /\ DOMAIN expenses' \subseteq issued' /\ issued' \subseteq ExpenseIds
    /\ \A i \in DOMAIN expenses' : ExpenseRow(expenses'[i])
    /\ \A q : HandRows(q, issued) => HandRows(q, issued')
    /\ \A q : HandRows(q, issued) /\ HandInvoice(q, expenses) => HandInvoice(q, expenses')
    /\ row.invoice = None \/ (row.source = "railway" /\ row.recurring = FALSE) =>
         (Guarded(expenses) => Guarded(expenses'))
    /\ row.invoice = None \/ ~Listed(expenses, row.invoice) => (OneRow(expenses) => OneRow(expenses'))
    /\ (\A j \in DOMAIN expenses : ~Clash(row, expenses[j])) => (OneMonth(expenses) => OneMonth(expenses'))
    /\ row.template = None => \A q : HandMonth(q, expenses) => HandMonth(q, expenses')

LEMMA InsertsKeeps ==
  ASSUME RowsInv, NEW row, Inserts(row), ExpenseRow(row)
  PROVE  \E id \in ExpenseIds : Inserted(id, row)
<1>1. PICK id \in ExpenseIds \ issued :
        /\ id = Fresh
        /\ issued' = issued \cup {id} /\ DOMAIN expenses' = DOMAIN expenses \cup {id}
        /\ expenses'[id] = row /\ \A i \in DOMAIN expenses : expenses'[i] = expenses[i]
  BY InsertsRow
<1>2. /\ id \notin DOMAIN expenses /\ DOMAIN expenses' \subseteq issued' /\ issued' \subseteq ExpenseIds
      /\ \A i \in DOMAIN expenses' : ExpenseRow(expenses'[i])
  BY <1>1 DEF RowsInv
<1>3. PICK table, new : table = expenses /\ new = expenses'
  OBVIOUS
<1>4. /\ \A r, ids : HandRows(r, ids) => HandRows(r, ids \cup {id})
      /\ \A r, ids : id \notin ids /\ HandRows(r, ids) /\ HandInvoice(r, table) => HandInvoice(r, new)
      /\ new[id].invoice = None \/ (new[id].source = "railway" /\ new[id].recurring = FALSE) =>
           (Guarded(table) => Guarded(new))
      /\ new[id].invoice = None \/ ~Listed(table, new[id].invoice) => (OneRow(table) => OneRow(new))
      /\ (\A j \in DOMAIN table : ~Clash(new[id], table[j])) => (OneMonth(table) => OneMonth(new))
      /\ new[id].template = None => \A r : HandMonth(r, table) => HandMonth(r, new)
  <2>1. id \notin DOMAIN table /\ DOMAIN new = DOMAIN table \cup {id} /\ \A i \in DOMAIN table : new[i] = table[i]
    BY <1>1, <1>2, <1>3
  <2> QED BY <2>1, InsertKeeps
<1> QED BY <1>1, <1>2, <1>3, <1>4 DEF Inserted

LEMMA CreateExpenseStep ==
  ASSUME FormedInv, SpendInv, NEW row \in mode.rows, CreateExpense(row)
  PROVE  SpendInv'
<1>1. /\ UNCHANGED <<mode, req>> /\ Inserts(row) /\ RowsInv
      /\ ExpenseRow(row) /\ row.template = None /\ (~Types => row.invoice = None)
  <2>1. \E recurring \in BOOLEAN, source \in {"manual", "railway"}, ours \in BOOLEAN, month \in Months,
            invoice \in Invoices \cup {None} :
              row = [Expense(recurring, source, ours, month) EXCEPT !.invoice = invoice]
    BY BackOfficeAssumption, Zenon DEF FormedInv
  <2> QED BY <2>1 DEF CreateExpense, Expense, ExpenseRow, Types, SpendInv
<1>2. PICK id \in ExpenseIds : Inserted(id, row)
  BY <1>1, InsertsKeeps
<1>5. \A j \in DOMAIN expenses : ~Clash(row, expenses[j])
  BY <1>1 DEF Clash
<1>6. ~Types => \A q : HandOne(q, expenses) => HandOne(q, expenses')
  <2> SUFFICES ASSUME ~Types, NEW q, HandOne(q, expenses), q.at = "newInvoice", Listed(expenses', q.invoice)
               PROVE  FALSE
    BY DEF HandOne
  <2> QED BY <1>1, <1>2 DEF Inserted, HandOne, Listed
<1>7. /\ DOMAIN expenses' \subseteq issued' /\ issued' \subseteq ExpenseIds
      /\ \A i \in DOMAIN expenses' : ExpenseRow(expenses'[i])
      /\ \A q : HandRows(q, issued) => HandRows(q, issued')
  BY <1>2 DEF Inserted
<1>8. ~Types => /\ Guarded(expenses) => Guarded(expenses')
                /\ \A q : HandRows(q, issued) /\ HandInvoice(q, expenses) => HandInvoice(q, expenses')
                /\ OneRow(expenses) => OneRow(expenses')
  <2> SUFFICES ASSUME ~Types
               PROVE  /\ Guarded(expenses) => Guarded(expenses')
                      /\ \A q : HandRows(q, issued) /\ HandInvoice(q, expenses) => HandInvoice(q, expenses')
                      /\ OneRow(expenses) => OneRow(expenses')
    OBVIOUS
  <2>1. row.invoice = None
    BY <1>1
  <2>2. Guarded(expenses) => Guarded(expenses')
    BY <1>2, <2>1 DEF Inserted
  <2>3. \A q : HandRows(q, issued) /\ HandInvoice(q, expenses) => HandInvoice(q, expenses')
    BY <1>2 DEF Inserted
  <2>4. OneRow(expenses) => OneRow(expenses')
    BY <1>2, <2>1 DEF Inserted
  <2> QED BY <2>2, <2>3, <2>4
<1>9. /\ OneMonth(expenses) => OneMonth(expenses')
      /\ \A q : HandMonth(q, expenses) => HandMonth(q, expenses')
  BY <1>1, <1>2, <1>5 DEF Inserted
<1> QED BY <1>1, <1>6, <1>7, <1>8, <1>9, SpendBeside

LEMMA RemoveExpenseStep ==
  ASSUME FormedInv, SpendInv, NEW id, RemoveExpense(id)
  PROVE  SpendInv'
<1>1. /\ UNCHANGED <<mode, req, issued>> /\ id \in DOMAIN expenses /\ expenses[id].source = "manual" /\ RowsInv
      /\ DOMAIN expenses' = DOMAIN expenses \ {id} /\ \A i \in DOMAIN expenses' : expenses'[i] = expenses[i]
  BY DEF RemoveExpense, Manual, Without, SpendInv
<1>2. /\ DOMAIN expenses' \subseteq issued' /\ issued' \subseteq ExpenseIds
      /\ \A i \in DOMAIN expenses' : ExpenseRow(expenses'[i])
      /\ \A q : HandRows(q, issued) => HandRows(q, issued')
  BY <1>1 DEF RowsInv
<1>3. OneMonth(expenses) => OneMonth(expenses')
  BY <1>1 DEF OneMonth
<1>4. \A q : HandMonth(q, expenses) => HandMonth(q, expenses')
  BY <1>1 DEF HandMonth
<1>5. ASSUME ~Types
      PROVE  /\ Guarded(expenses) => Guarded(expenses')
             /\ \A q : HandRows(q, issued) /\ HandInvoice(q, expenses) => HandInvoice(q, expenses')
             /\ OneRow(expenses) => OneRow(expenses')
             /\ \A q : HandOne(q, expenses) => HandOne(q, expenses')
  <2>1. expenses[id].invoice = None
    BY <1>1, <1>5 DEF SpendInv, InvoiceInv, Guarded
  <2>2. PICK table, new : table = expenses /\ new = expenses'
    OBVIOUS
  <2>3. /\ \A r : HandInvoice(r, table) => HandInvoice(r, new)
        /\ Guarded(table) => Guarded(new)
        /\ OneRow(table) => OneRow(new)
        /\ \A r : HandOne(r, table) => HandOne(r, new)
    BY <1>1, <2>1, <2>2, RemovalKeeps
  <2> QED BY <2>2, <2>3
<1> QED BY <1>1, <1>2, <1>3, <1>4, <1>5, SpendBeside

LEMMA UpdateExpenseStep ==
  ASSUME FormedInv, SpendInv, NEW h \in Handlers, NEW id, NEW dto \in mode.edits, UpdateExpense(h, id, dto)
  PROVE  SpendInv'
<1>1. PICK row :
        /\ Awaits(h, [at |-> "expense", id |-> id, row |-> row])
        /\ row = [expenses[id] EXCEPT !.recurring = Given(dto.recurring, @), !.ours = Given(dto.ours, @),
                                      !.month = Given(dto.month, @)]
  BY DEF UpdateExpense
<1>2. /\ h \in mode.handlers /\ UNCHANGED <<mode, expenses, issued>> /\ RowsInv
      /\ id \in DOMAIN expenses /\ expenses[id].source = "manual" /\ ExpenseRow(expenses[id])
  BY DEF UpdateExpense, MayStart, Manual, spend, Awaits, SpendInv, RowsInv
<1>3. /\ ExpenseRow(row) /\ row.template = expenses[id].template /\ row.invoice = expenses[id].invoice
      /\ ~Redates => row.month = expenses[id].month
  BY <1>1, <1>2 DEF ExpenseRow, Redates, Given
<1> DEFINE r == [at |-> "expense", id |-> id, row |-> row]
<1>4. r.at = "expense" /\ r.id = id /\ r.row = row
  OBVIOUS
<1> HIDE DEF r
<1>5. HandRows(r, issued) /\ HandOne(r, expenses)
  BY <1>2, <1>3, <1>4 DEF HandRows, HandOne, RowsInv
<1>6. ~Types => Guarded(expenses) /\ HandInvoice(r, expenses)
  <2>1. ~Types => Guarded(expenses) /\ expenses[id].invoice = None
    BY <1>2 DEF SpendInv, InvoiceInv, Guarded
  <2> QED BY <1>3, <1>4, <2>1 DEF HandInvoice
<1>7. Orderly /\ ~Redates => OneMonth(expenses) /\ HandMonth(r, expenses)
  BY <1>2, <1>3, <1>4 DEF SpendInv, MonthInv, OneMonth, HandMonth, Clash
<1>8. Orderly /\ ~Types => OneRow(expenses)
  BY DEF SpendInv, OneRowInv
<1>9. Awaits(h, r)
  BY <1>1 DEF r
<1> QED BY <1>2, <1>5, <1>6, <1>7, <1>8, <1>9, SpendAfter DEF RowsInv

\* save() of the row that was read.
LEMMA SavesStep ==
  ASSUME FormedInv, SpendInv, NEW h \in Handlers, Ends(h), req[h].at \in InHand, UNCHANGED issued,
         NEW row, expenses' = With(expenses, req[h].id, row), ExpenseRow(row),
         row.template = req[h].row.template, row.invoice = req[h].row.invoice, row.month = req[h].row.month
  PROVE  SpendInv'
<1>1. PICK id : id = req[h].id
  OBVIOUS
<1>2. /\ id \in issued /\ RowsInv /\ h \in mode.handlers
      /\ DOMAIN expenses' = DOMAIN expenses \cup {id}
      /\ \A i \in DOMAIN expenses' : expenses'[i] = IF i = id THEN row ELSE expenses[i]
  <2>1. req[h].at # "idle"
    BY DEF InHand
  <2> QED BY <1>1, <2>1 DEF SpendInv, RowsInv, HandRows, With, FormedInv
<1>3. /\ DOMAIN expenses' \subseteq issued' /\ issued' \subseteq ExpenseIds
      /\ \A i \in DOMAIN expenses' : ExpenseRow(expenses'[i])
  BY <1>2 DEF RowsInv
<1>4. PICK table, new : table = expenses /\ new = expenses'
  OBVIOUS
<1>5. ~Types => row.invoice = None /\ (id \in DOMAIN table => table[id].invoice = None)
  BY <1>1, <1>4 DEF SpendInv, InvoiceInv, HandInvoice
<1>6. Orderly /\ ~Redates => \A j \in DOMAIN table \ {id} : ~Clash(row, table[j])
  BY <1>1, <1>4 DEF SpendInv, MonthInv, HandMonth, Clash
<1>7. /\ ~Types => /\ \A r : HandInvoice(r, table) => HandInvoice(r, new)
                   /\ Guarded(table) => Guarded(new)
                   /\ OneRow(table) => OneRow(new)
      /\ Orderly /\ ~Redates => (OneMonth(table) => OneMonth(new))
  <2>1. DOMAIN new = DOMAIN table \cup {id} /\ \A i \in DOMAIN new : new[i] = IF i = id THEN row ELSE table[i]
    BY <1>2, <1>4
  <2> QED BY <1>5, <1>6, <2>1, SaveKeeps
<1>8. /\ ~Types => /\ Guarded(expenses') /\ \A q : HandRows(q, issued) /\ HandInvoice(q, expenses) => HandInvoice(q, expenses')
      /\ Orderly /\ ~Types => OneRow(expenses')
      /\ Orderly /\ ~Redates => OneMonth(expenses')
  BY <1>4, <1>7 DEF SpendInv, InvoiceInv, OneRowInv, MonthInv
<1>9. /\ \A ids : HandRows(Idle, ids)
      /\ \A t : HandInvoice(Idle, t) /\ HandOne(Idle, t) /\ HandMonth(Idle, t)
  BY Elsewhere, IdleFormed DEF ChargeAwaits
<1> QED BY <1>2, <1>3, <1>8, <1>9, SpendAfter DEF Ends

LEMMA SaveSteps ==
  ASSUME FormedInv, SpendInv, NEW h \in Handlers, SaveExpense(h) \/ SaveForecast(h)
  PROVE  SpendInv'
<1>1. req[h].at \in InHand /\ UNCHANGED issued /\ Ends(h)
  BY DEF SaveExpense, SaveForecast, At, InHand
<1>2. PICK old : old = req[h].row
  OBVIOUS
<1>3. ExpenseRow(old)
  BY <1>1, <1>2 DEF SpendInv, RowsInv, HandRows
<1>4. PICK row : /\ expenses' = With(expenses, req[h].id, row)
                 /\ row = old \/ \E basis : row = [old EXCEPT !.source = "railway", !.basis = basis]
  BY <1>2 DEF SaveExpense, SaveForecast
<1>5. ExpenseRow(row) /\ row.template = old.template /\ row.invoice = old.invoice /\ row.month = old.month
  BY <1>3, <1>4 DEF ExpenseRow
<1> QED BY <1>1, <1>2, <1>4, <1>5, SavesStep

\* A request takes a row in hand, or looks, and no row changes.
LEMMA LooksStep ==
  ASSUME FormedInv, SpendInv, NEW h \in Handlers, NEW r, Awaits(h, r), UNCHANGED <<expenses, issued>>,
         h \in mode.handlers, HandRows(r, issued), ~Types => HandInvoice(r, expenses),
         Orderly /\ ~Types => HandOne(r, expenses), Orderly /\ ~Redates => HandMonth(r, expenses)
  PROVE  SpendInv'
  BY SpendAfter DEF SpendInv, RowsInv, InvoiceInv, OneRowInv, MonthInv

LEMMA FindTemplateStep ==
  ASSUME FormedInv, SpendInv, NEW h \in Handlers, FindTemplate(h)
  PROVE  SpendInv'
<1>1. req[h].at = "template" /\ UNCHANGED <<expenses, issued>> /\ h \in mode.handlers /\ DOMAIN req[h] = {"at", "paid"}
  BY DEF FindTemplate, At, spend, FormedInv, Formed
<1>2. CASE Awaits(h, [req[h] EXCEPT !.at = "newTemplate"])
  <2>1. PICK r : r.at = "newTemplate" /\ Awaits(h, r)
    BY <1>1, <1>2
  <2> QED BY <1>1, <2>1, LooksStep, Elsewhere DEF ChargeAwaits
<1>3. ASSUME NEW id, NEW paid, id \in DOMAIN expenses, expenses[id].recurring, Syncs(h, paid, id, expenses[id])
      PROVE  SpendInv'
  <2>1. PICK row : row = expenses[id]
    OBVIOUS
  <2> DEFINE r == [at |-> "invoices", paid |-> paid, left |-> DOMAIN paid, id |-> id, row |-> row]
  <2>2. r.at = "invoices" /\ r.paid = paid /\ r.left = DOMAIN paid /\ r.id = id /\ r.row = row /\ Awaits(h, r)
    BY <1>3, <2>1 DEF Syncs
  <2> HIDE DEF r
  <2>3. HandRows(r, issued) /\ HandOne(r, expenses)
    BY <1>3, <2>1, <2>2 DEF HandRows, HandOne, SpendInv, RowsInv
  <2>4. ~Types => HandInvoice(r, expenses)
    <3>1. ~Types => row.invoice = None
      BY <1>3, <2>1 DEF SpendInv, InvoiceInv, Guarded
    <3> QED BY <2>1, <2>2, <3>1 DEF HandInvoice, Pending
  <2>5. Orderly /\ ~Redates => HandMonth(r, expenses)
    BY <1>3, <2>1, <2>2 DEF HandMonth, SpendInv, MonthInv, OneMonth
  <2> QED BY <1>1, <2>2, <2>3, <2>4, <2>5, LooksStep
<1>4. \/ Awaits(h, [req[h] EXCEPT !.at = "newTemplate"])
      \/ \E id, paid : id \in DOMAIN expenses /\ expenses[id].recurring /\ Syncs(h, paid, id, expenses[id])
  BY DEF FindTemplate, Templates
<1> QED BY <1>2, <1>3, <1>4

LEMMA SyncStep ==
  ASSUME FormedInv, SpendInv, NEW h \in Handlers, NEW invoice \in Invoices, SyncInvoice(h, invoice)
  PROVE  SpendInv'
<1>1. /\ req[h].at = "invoices" /\ UNCHANGED <<expenses, issued>> /\ h \in mode.handlers
      /\ DOMAIN req[h] = {"at", "paid", "left", "id", "row"} /\ invoice # None /\ invoice \in req[h].left
  BY ExpensesAssumption DEF SyncInvoice, At, spend, FormedInv, Formed
<1>2. PICK q : q = req[h]
  OBVIOUS
<1>3. HandRows(q, issued) /\ (~Types => HandInvoice(q, expenses)) /\ (Orderly /\ ~Redates => HandMonth(q, expenses))
  BY <1>2 DEF SpendInv, RowsInv, InvoiceInv, MonthInv
<1>4. PICK r : /\ Awaits(h, r) /\ r.paid = q.paid /\ r.left = q.left \ {invoice} /\ r.id = q.id /\ r.row = q.row
               /\ \/ r.at = "invoices" /\ Listed(expenses, invoice)
                  \/ r.at = "newInvoice" /\ r.invoice = invoice /\ ~Listed(expenses, invoice)
  <2>1. CASE Known(invoice)
    <3> DEFINE r == [q EXCEPT !.left = q.left \ {invoice}]
    <3>1. /\ Awaits(h, r) /\ r.paid = q.paid /\ r.left = q.left \ {invoice} /\ r.id = q.id /\ r.row = q.row
          /\ r.at = "invoices"
      BY <1>1, <1>2, <2>1 DEF SyncInvoice
    <3>2. Listed(expenses, invoice)
      BY <2>1 DEF Known, Listed
    <3> HIDE DEF r
    <3> QED BY <3>1, <3>2
  <2>2. CASE ~Known(invoice)
    <3> DEFINE r == [at |-> "newInvoice", paid |-> q.paid, left |-> q.left \ {invoice}, id |-> q.id, row |-> q.row, invoice |-> invoice]
    <3>1. /\ Awaits(h, r) /\ r.paid = q.paid /\ r.left = q.left \ {invoice} /\ r.id = q.id /\ r.row = q.row
          /\ r.at = "newInvoice" /\ r.invoice = invoice
      BY <1>1, <1>2, <2>2 DEF SyncInvoice
    <3>2. ~Listed(expenses, invoice)
      BY <2>2 DEF Known, Listed
    <3> HIDE DEF r
    <3> QED BY <3>1, <3>2
  <2> QED BY <2>1, <2>2
<1>5. q.at = "invoices"
  BY <1>1, <1>2
<1>6. HandRows(r, issued) /\ HandOne(r, expenses)
  BY <1>1, <1>3, <1>4, <1>5 DEF HandRows, HandOne, InHand
<1>7. ~Types => HandInvoice(r, expenses)
  BY <1>1, <1>3, <1>4, <1>5 DEF HandInvoice, InHand, Pending
<1>8. Orderly /\ ~Redates => HandMonth(r, expenses)
  BY <1>3, <1>4, <1>5 DEF HandMonth, InHand
<1> QED BY <1>1, <1>4, <1>6, <1>7, <1>8, LooksStep

LEMMA InsertTemplateStep ==
  ASSUME FormedInv, SpendInv, NEW h \in Handlers, InsertTemplate(h)
  PROVE  SpendInv'
<1>1. PICK row, paid : /\ Inserts(row) /\ Syncs(h, paid, Fresh, row)
                       /\ ExpenseRow(row) /\ row.template = None /\ row.invoice = None
  BY DEF InsertTemplate, Expense, ExpenseRow
<1>2. h \in mode.handlers /\ RowsInv
  BY DEF InsertTemplate, At, FormedInv, SpendInv
<1>3. PICK id \in ExpenseIds : Inserted(id, row)
  BY <1>1, <1>2, InsertsKeeps
<1> DEFINE r == [at |-> "invoices", paid |-> paid, left |-> DOMAIN paid, id |-> id, row |-> row]
<1>4. r.at = "invoices" /\ r.paid = paid /\ r.left = DOMAIN paid /\ r.id = id /\ r.row = row /\ Awaits(h, r)
  BY <1>1, <1>3 DEF Syncs, Inserted
<1> HIDE DEF r
<1>5. /\ DOMAIN expenses' = DOMAIN expenses \cup {id} /\ issued' = issued \cup {id} /\ expenses'[id] = row
      /\ \A i \in DOMAIN expenses : expenses'[i] = expenses[i]
      /\ DOMAIN expenses' \subseteq issued' /\ issued' \subseteq ExpenseIds
      /\ \A i \in DOMAIN expenses' : ExpenseRow(expenses'[i])
      /\ \A q : HandRows(q, issued) => HandRows(q, issued')
  BY <1>3 DEF Inserted
<1>6. HandRows(r, issued') /\ HandOne(r, expenses')
  BY <1>1, <1>4, <1>5 DEF HandRows, HandOne
<1>7. HandInvoice(r, expenses') /\ HandMonth(r, expenses')
  BY <1>1, <1>4, <1>5 DEF HandInvoice, Pending, HandMonth, Clash
<1>8. \A j \in DOMAIN expenses : ~Clash(row, expenses[j])
  BY <1>1 DEF Clash
<1>9. /\ Guarded(expenses) => Guarded(expenses')
      /\ \A q : HandRows(q, issued) /\ HandInvoice(q, expenses) => HandInvoice(q, expenses')
      /\ OneRow(expenses) => OneRow(expenses')
      /\ OneMonth(expenses) => OneMonth(expenses')
  BY <1>1, <1>3, <1>8 DEF Inserted
<1>10. /\ ~Types => Guarded(expenses') /\ (Orderly => OneRow(expenses'))
       /\ Orderly /\ ~Redates => OneMonth(expenses')
  BY <1>9 DEF SpendInv, InvoiceInv, OneRowInv, MonthInv
<1> QED BY <1>2, <1>4, <1>5, <1>6, <1>7, <1>9, <1>10, SpendAfter

LEMMA InsertInvoiceStep ==
  ASSUME FormedInv, SpendInv, NEW h \in Handlers, InsertInvoice(h)
  PROVE  SpendInv'
<1>1. PICK q : q = req[h]
  OBVIOUS
<1>2. /\ q.at = "newInvoice" /\ h \in mode.handlers /\ RowsInv
      /\ HandRows(q, issued) /\ (~Types => HandInvoice(q, expenses))
      /\ (Orderly /\ ~Types => HandOne(q, expenses)) /\ (Orderly /\ ~Redates => HandMonth(q, expenses))
  BY <1>1 DEF InsertInvoice, At, FormedInv, SpendInv, RowsInv, InvoiceInv, OneRowInv, MonthInv
<1> DEFINE made == [Expense(FALSE, "railway", TRUE, q.paid[q.invoice]) EXCEPT !.template = q.id, !.invoice = q.invoice]
<1>a. /\ ExpenseRow(made) /\ made.template = q.id /\ made.invoice = q.invoice
      /\ made.source = "railway" /\ made.recurring = FALSE
  BY DEF Expense, ExpenseRow
<1>b. Inserts(made)
  BY <1>1 DEF InsertInvoice
<1> HIDE DEF made
<1>3. PICK row : /\ Inserts(row) /\ ExpenseRow(row) /\ row.template = q.id /\ row.invoice = q.invoice
                 /\ row.source = "railway" /\ row.recurring = FALSE
  BY <1>a, <1>b
<1>4. PICK id \in ExpenseIds : Inserted(id, row)
  BY <1>2, <1>3, InsertsKeeps
<1> DEFINE r == [at |-> "invoices", paid |-> q.paid, left |-> q.left, id |-> q.id, row |-> q.row]
<1>5. r.at = "invoices" /\ r.paid = q.paid /\ r.left = q.left /\ r.id = q.id /\ r.row = q.row /\ Awaits(h, r)
  BY <1>1 DEF InsertInvoice
<1> HIDE DEF r
<1>6. /\ DOMAIN expenses' = DOMAIN expenses \cup {id} /\ issued' = issued \cup {id} /\ expenses'[id] = row
      /\ id \notin issued /\ \A i \in DOMAIN expenses : expenses'[i] = expenses[i]
      /\ DOMAIN expenses' \subseteq issued' /\ issued' \subseteq ExpenseIds
      /\ \A i \in DOMAIN expenses' : ExpenseRow(expenses'[i])
      /\ \A p : HandRows(p, issued) => HandRows(p, issued')
  BY <1>4 DEF Inserted
<1>7. HandRows(r, issued') /\ HandOne(r, expenses') /\ row.invoice # None
  BY <1>2, <1>3, <1>5, <1>6 DEF HandRows, HandOne, InHand
<1>8. ~Types => HandInvoice(r, expenses')
  <2>1. ~Types => HandInvoice(q, expenses')
    BY <1>2, <1>4 DEF Inserted
  <2>2. Listed(expenses', q.invoice) /\ q.invoice # None
    BY <1>3, <1>6, <1>7 DEF Listed
  <2> QED BY <1>2, <1>5, <2>1, <2>2 DEF HandInvoice, Pending, InHand
<1>9. Orderly /\ ~Redates => HandMonth(r, expenses')
  BY <1>2, <1>3, <1>5, <1>6, <1>7 DEF HandMonth, Clash, InHand
<1>10. \A j \in DOMAIN expenses : ~Clash(row, expenses[j])
  BY <1>7 DEF Clash
<1>11. Orderly /\ ~Types => ~Listed(expenses, row.invoice)
  BY <1>2, <1>3 DEF HandOne
<1>12. /\ Guarded(expenses) => Guarded(expenses')
       /\ \A p : HandRows(p, issued) /\ HandInvoice(p, expenses) => HandInvoice(p, expenses')
       /\ Orderly /\ ~Types => (OneRow(expenses) => OneRow(expenses'))
       /\ OneMonth(expenses) => OneMonth(expenses')
  BY <1>3, <1>4, <1>10, <1>11 DEF Inserted
<1>13. /\ ~Types => Guarded(expenses') /\ (Orderly => OneRow(expenses'))
       /\ Orderly /\ ~Redates => OneMonth(expenses')
  BY <1>12 DEF SpendInv, InvoiceInv, OneRowInv, MonthInv
<1> QED BY <1>2, <1>5, <1>6, <1>7, <1>8, <1>9, <1>12, <1>13, SpendAfter

LEMMA ReadMonthStep ==
  ASSUME FormedInv, SpendInv, NEW h \in Handlers, ReadMonth(h)
  PROVE  SpendInv'
<1>1. PICK month, left, those :
        /\ Awaits(h, [at |-> "monthly", month |-> month, left |-> left, those |-> those])
        /\ those = OfMonth(month) \cup {expenses[i].template : i \in OfMonth(month)}
  BY DEF ReadMonth
<1>2. h \in mode.handlers /\ UNCHANGED <<expenses, issued>>
  BY DEF ReadMonth, At, FormedInv, spend
<1> DEFINE r == [at |-> "monthly", month |-> month, left |-> left, those |-> those]
<1>3. r.at = "monthly" /\ r.month = month /\ r.left = left /\ r.those = those /\ Awaits(h, r)
  BY <1>1
<1> HIDE DEF r
<1>4. \A j \in DOMAIN expenses : expenses[j].month = month => expenses[j].template \in those
  BY <1>1 DEF OfMonth
<1>5. HandMonth(r, expenses) /\ HandRows(r, issued) /\ HandOne(r, expenses) /\ HandInvoice(r, expenses)
  BY <1>3, <1>4 DEF HandMonth, HandRows, HandOne, HandInvoice, InHand
<1> QED BY <1>2, <1>3, <1>5, LooksStep

LEMMA GenerateStep ==
  ASSUME FormedInv, SpendInv, NEW h \in Handlers, NEW one, GenerateOne(h, one)
  PROVE  SpendInv'
<1>1. PICK q : q = req[h]
  OBVIOUS
<1>2. /\ q.at = "monthly" /\ h \in mode.handlers /\ DOMAIN q = {"at", "month", "left", "those"} /\ one \in DOMAIN q.left
      /\ RowsInv /\ (Orderly /\ ~Redates => HandMonth(q, expenses))
  BY <1>1 DEF GenerateOne, At, FormedInv, Formed, SpendInv, RowsInv, MonthInv
<1>3. PICK r : /\ Awaits(h, r)
               /\ r.at = "idle" \/ (r.at = "monthly" /\ r.month = q.month /\ r.those = q.those /\ DOMAIN r.left = DOMAIN q.left \ {one})
  <2> DEFINE rest == Without(q.left, {one})
             r == [q EXCEPT !.left = rest]
  <2>1. Awaits(h, Idle) \/ Awaits(h, r)
    BY <1>1 DEF GenerateOne
  <2>2. r.at = "monthly" /\ r.month = q.month /\ r.those = q.those /\ DOMAIN r.left = DOMAIN q.left \ {one}
    BY <1>2 DEF Without
  <2> HIDE DEF r
  <2> QED BY <2>1, <2>2, IdleFormed
<1>4. /\ \A ids : HandRows(r, ids)
      /\ \A table : HandInvoice(r, table) /\ HandOne(r, table)
  BY <1>3 DEF HandRows, HandInvoice, HandOne, InHand
<1>5. CASE UNCHANGED <<expenses, issued>>
  <2>1. Orderly /\ ~Redates => HandMonth(r, expenses)
    BY <1>2, <1>3 DEF HandMonth, InHand
  <2> QED BY <1>2, <1>3, <1>4, <1>5, <2>1, LooksStep
<1>6. ASSUME NEW row, Inserts(row), ExpenseRow(row), row.template = one, row.invoice = None, row.month = q.month,
             one \notin q.those
      PROVE  SpendInv'
  <2>1. PICK id \in ExpenseIds : Inserted(id, row)
    BY <1>2, <1>6, InsertsKeeps
  <2>2. /\ DOMAIN expenses' = DOMAIN expenses \cup {id} /\ expenses'[id] = row
        /\ \A i \in DOMAIN expenses : expenses'[i] = expenses[i]
        /\ DOMAIN expenses' \subseteq issued' /\ issued' \subseteq ExpenseIds
        /\ \A i \in DOMAIN expenses' : ExpenseRow(expenses'[i])
        /\ \A p : HandRows(p, issued) => HandRows(p, issued')
    BY <2>1 DEF Inserted
  <2>3. Orderly /\ ~Redates => \A j \in DOMAIN expenses : ~Clash(row, expenses[j])
    BY <1>2, <1>6 DEF HandMonth, Clash
  <2>4. Orderly /\ ~Redates => HandMonth(r, expenses')
    BY <1>2, <1>3, <1>6, <2>2 DEF HandMonth, InHand
  <2>5. /\ Guarded(expenses) => Guarded(expenses')
        /\ \A p : HandRows(p, issued) /\ HandInvoice(p, expenses) => HandInvoice(p, expenses')
        /\ OneRow(expenses) => OneRow(expenses')
        /\ Orderly /\ ~Redates => (OneMonth(expenses) => OneMonth(expenses'))
    BY <1>6, <2>1, <2>3 DEF Inserted
  <2>6. /\ ~Types => Guarded(expenses') /\ (Orderly => OneRow(expenses'))
        /\ Orderly /\ ~Redates => OneMonth(expenses')
    BY <2>5 DEF SpendInv, InvoiceInv, OneRowInv, MonthInv
  <2> QED BY <1>2, <1>3, <1>4, <2>2, <2>4, <2>5, <2>6, SpendAfter
<1>7. CASE Stays
  BY <1>5, <1>7 DEF Stays
<1>8. CASE /\ Inserts([Expense(FALSE, q.left[one].source, q.left[one].ours, q.month) EXCEPT !.template = one])
           /\ one \notin q.those
  <2> DEFINE row == [Expense(FALSE, q.left[one].source, q.left[one].ours, q.month) EXCEPT !.template = one]
  <2>1. ExpenseRow(row) /\ row.template = one /\ row.invoice = None /\ row.month = q.month
    BY DEF Expense, ExpenseRow
  <2> HIDE DEF row
  <2> QED BY <1>6, <1>8, <2>1 DEF row
<1> QED BY <1>1, <1>7, <1>8 DEF GenerateOne

\* The other steps of a request, which leave the rows and hold none of them.
LEMMA SpendAsides ==
  ASSUME FormedInv, SpendInv, NEW h \in Handlers,
         FetchSettled(h) \/ (\E month : GenerateMonthly(h, month)) \/ MonthlyDone(h)
  PROVE  SpendInv'
<1>1. UNCHANGED <<mode, expenses, issued>>
  BY DEF FetchSettled, GenerateMonthly, MonthlyDone, spend, Awaits, Ends
<1>2. PICK r : Awaits(h, r) /\ r.at \notin ChargeAwaits
  <2>1. Ends(h) \/ (\E paid : Awaits(h, [at |-> "template", paid |-> paid]))
          \/ \E month, left : Awaits(h, [at |-> "month", month |-> month, left |-> left])
    BY DEF FetchSettled, GenerateMonthly, MonthlyDone
  <2>2. \A x, y : /\ [at |-> "template", paid |-> x].at \notin ChargeAwaits
                 /\ [at |-> "month", month |-> x, left |-> y].at \notin ChargeAwaits
    BY DEF ChargeAwaits
  <2>3. Idle.at \notin ChargeAwaits
    BY IdleFormed DEF ChargeAwaits
  <2> QED BY <2>1, <2>2, <2>3 DEF Ends
<1>3. \A g \in Handlers : req'[g].at \in ChargeAwaits => req'[g] = req[g]
  BY <1>2, Shifts
<1> QED BY <1>1, <1>3, SpendSame

LEMMA SpendStepKeeps ==
  ASSUME FormedInv, SpendInv, SpendStep
  PROVE  SpendInv'
<1>1. CASE \E invoice \in Invoices : Settle(invoice)
  <2>1. UNCHANGED <<mode, req, expenses, issued>>
    BY <1>1 DEF Settle
  <2> QED BY <2>1, SpendSame
<1>2. CASE \E row \in mode.rows : CreateExpense(row)
  BY <1>2, CreateExpenseStep
<1>3. CASE \E id \in ExpenseIds : RemoveExpense(id)
  BY <1>3, RemoveExpenseStep
<1>4. ASSUME NEW h \in Handlers,
             \/ \E id \in ExpenseIds, dto \in mode.edits : UpdateExpense(h, id, dto)
             \/ SaveExpense(h) \/ SaveForecast(h) \/ FindTemplate(h) \/ InsertTemplate(h) \/ InsertInvoice(h)
             \/ \E invoice \in Invoices : SyncInvoice(h, invoice)
      PROVE  SpendInv'
  BY <1>4, UpdateExpenseStep, SaveSteps, FindTemplateStep, InsertTemplateStep, InsertInvoiceStep, SyncStep
<1>5. ASSUME NEW h \in Handlers,
             \/ ReadMonth(h) \/ (\E id \in ExpenseIds : GenerateOne(h, id))
             \/ FetchSettled(h) \/ (\E month \in Months : GenerateMonthly(h, month)) \/ MonthlyDone(h)
      PROVE  SpendInv'
  BY <1>5, ReadMonthStep, GenerateStep, SpendAsides
<1> QED BY <1>1, <1>2, <1>3, <1>4, <1>5, Zenon DEF SpendStep

\* The other parts leave the rows, and the requests that hold one.
LEMMA NotSpend ==
  ASSUME FormedInv, [Next]_vars, ~SpendStep
  PROVE  UNCHANGED <<mode, spend>> /\ (Kept(ChargeAwaits) \/ Stopped)
<1>0. /\ ChargeAwaits \cap TeamAwaits = {} /\ ChargeAwaits \cap TenantAwaits = {} /\ ChargeAwaits \cap DeliveryAwaits = {}
      /\ "idle" \notin ChargeAwaits
  BY DEF ChargeAwaits, TeamAwaits, MemberAwaits, TenantAwaits, DeliveryAwaits
<1>m. ASSUME NEW h \in Handlers, Moves(h, TeamAwaits) \/ Moves(h, TenantAwaits) \/ Moves(h, DeliveryAwaits)
      PROVE  Kept(ChargeAwaits) /\ mode' = mode
  BY <1>0, <1>m, OthersKeep DEF Moves
<1>u. Unmoved \/ Stopped => mode' = mode /\ (Kept(ChargeAwaits) \/ Stopped)
  BY UnmovedKeeps DEF Unmoved, Stopped
<1>1. CASE UNCHANGED vars
  BY <1>1, <1>u DEF vars, Unmoved
<1>2. CASE UNCHANGED <<mode, req, spend>>
  BY <1>2, <1>u DEF Unmoved
<1>3. CASE (TeamNext \/ SessionNext) /\ UNCHANGED spend
  BY <1>3, <1>m, <1>u, TeamMoves
<1>4. CASE TenantsStep /\ UNCHANGED spend
  BY <1>4, <1>m, <1>u, TenantMoves
<1>5. CASE DeliveriesStep /\ UNCHANGED spend
  BY <1>5, <1>m, <1>u, DeliveryMoves
<1>6. CASE Next
  <2>1. \/ (TeamNext \/ SessionNext) /\ Watches /\ UNCHANGED <<brands, clients, delivered, spend>>
        \/ UNCHANGED <<mode, req, team, session, clients, delivered, spend>>
        \/ TenantsStep /\ UNCHANGED <<team, session, brands, delivered, spend>>
        \/ DeliveriesStep /\ UNCHANGED <<team, session, brands, clients, spend>>
    BY <1>6, Zenon DEF Next
  <2> QED BY <1>2, <1>3, <1>4, <1>5, <2>1
<1> QED BY <1>1, <1>6, Zenon

\* However often they are asked for, wherever they stopped before and whatever is
\* edited meanwhile, the synchronisation of the provider's invoices makes one row of
\* an invoice and has one of each invoice it has passed, unless an operator writes
\* an invoice's id himself, and the monthly run makes one row a month of a template,
\* unless rows are given other dates; where requests do not overlap, because each
\* looks for the row before it inserts it (syncRailwayInvoices() and
\* generateMonthlyRecurring() of studio-expenses).
THEOREM ChargedOnceOnly == Spec => []ChargedOnce
<1>1. Init => FormedInv /\ SpendInv
  <2> SUFFICES ASSUME Init PROVE FormedInv /\ SpendInv
    OBVIOUS
  <2>1. FormedInv /\ expenses = << >> /\ issued = {} /\ \A h \in Handlers : req[h].at \notin ChargeAwaits
    BY InitFormed, IdleFormed DEF Init, SpendInit, ChargeAwaits
  <2>2. DOMAIN expenses = {}
    BY <2>1
  <2> QED BY <2>1, <2>2, Elsewhere
          DEF SpendInv, RowsInv, InvoiceInv, OneRowInv, MonthInv, Guarded, OneRow, OneMonth
<1>2. FormedInv /\ SpendInv /\ [Next]_vars => FormedInv' /\ SpendInv'
  <2> SUFFICES ASSUME FormedInv, SpendInv, [Next]_vars PROVE SpendInv'
    BY NextFormed
  <2>1. CASE SpendStep
    BY <2>1, SpendStepKeeps
  <2>2. CASE ~SpendStep
    <3>1. UNCHANGED <<mode, expenses, issued>> /\ (Kept(ChargeAwaits) \/ Stopped)
      BY <2>2, NotSpend DEF spend
    <3>2. \A h \in Handlers : req'[h].at \in ChargeAwaits => req'[h] = req[h]
      BY <3>1, StoppedKeeps DEF Kept, ChargeAwaits
    <3> QED BY <3>1, <3>2, SpendSame
  <2> QED BY <2>1, <2>2
<1>3. FormedInv /\ SpendInv => ChargedOnce
  <2> SUFFICES ASSUME SpendInv PROVE ChargedOnce
    OBVIOUS
  <2>1. ASSUME Orderly, ~Types, NEW i \in DOMAIN expenses, NEW j \in DOMAIN expenses, i # j, expenses[i].invoice # None
        PROVE  expenses[i].invoice # expenses[j].invoice
    BY <2>1 DEF SpendInv, OneRowInv, OneRow
  <2>2. ASSUME Orderly, ~Redates, NEW i \in DOMAIN expenses, NEW j \in DOMAIN expenses, i # j,
               expenses[i].template # None, expenses[i].invoice = None, expenses[j].invoice = None,
               expenses[i].template = expenses[j].template
        PROVE  expenses[i].month # expenses[j].month
    BY <2>2 DEF SpendInv, MonthInv, OneMonth, Clash
  <2>3. ASSUME ~Types, NEW h \in Handlers, At(h, "invoices"), NEW invoice \in DOMAIN req[h].paid \ req[h].left
        PROVE  Known(invoice)
    <3>1. HandInvoice(req[h], expenses) /\ Pending(req[h]) = {} /\ req[h].at = "invoices"
      BY <2>3 DEF SpendInv, InvoiceInv, Pending, At
    <3> QED BY <3>1 DEF HandInvoice, Listed, Known
  <2> QED BY <2>1, <2>2, <2>3 DEF ChargedOnce
<1> QED BY <1>1, <1>2, <1>3, PTL DEF Spec

-----------------------------------------------------------------------------
(***************************************************************************)
(* Who may start assisted access.                                          *)
(***************************************************************************)
\* What a cookie says was so when it was sealed, and a cookie lives for Ttl.
Backed(c) == \A l \in Level : HasHqRole(c.roles, l) => lastHeld[c.email][l] >= c.expires - Ttl

SessionInv ==
    /\ clock \in Nat /\ (mode.logins = {} \/ "tick" \in mode.calls)
    /\ \A e \in Emails, l \in Level : lastHeld[e][l] \in Int /\ lastHeld[e][l] <= clock
    /\ "tick" \in mode.calls => \A e \in Emails, l \in Level : Holds(e, l) => lastHeld[e][l] = clock
    /\ \A c \in cookies : c.email \in Emails /\ c.expires \in Int /\ Backed(c)

LEMMA InitSession == Init => SessionInv
<1> SUFFICES ASSUME Init PROVE SessionInv
  OBVIOUS
<1>1. clock = 0 /\ cookies = mode.cookies /\ mode \in Modes
  BY DEF Init, SessionInit
<1>2. \A e \in Emails, l \in Level :
        lastHeld[e][l] = IF Holds(e, l) \/ \E c \in mode.cookies : c.email = e /\ HasHqRole(c.roles, l) THEN 0 ELSE -1 - Ttl
  BY DEF Init, SessionInit
<1>3. Ttl \in Nat /\ \A c \in cookies : c.email \in Emails /\ c.expires \in 0..Ttl
  BY <1>1, SessionAssumption, BackOfficeAssumption
<1>4. mode.logins = {} \/ "tick" \in mode.calls
  BY <1>1, BackOfficeAssumption
<1>5. ASSUME NEW c \in cookies
      PROVE  Backed(c)
  <2>1. \A l \in Level : HasHqRole(c.roles, l) => lastHeld[c.email][l] = 0
    BY <1>1, <1>2, <1>3
  <2>2. 0 >= c.expires - Ttl
    BY <1>3
  <2> QED BY <2>1, <2>2 DEF Backed
<1>6. \A e \in Emails, l \in Level : lastHeld[e][l] \in Int /\ lastHeld[e][l] <= 0 /\ (Holds(e, l) => lastHeld[e][l] = 0)
  BY <1>2, <1>3
<1> QED BY <1>1, <1>3, <1>4, <1>5, <1>6 DEF SessionInv

\* What the steps of the team do to the clock and the cookies.
LEMMA SessionMakes ==
  ASSUME FormedInv, SessionInv, (TeamNext \/ SessionNext) /\ Watches
  PROVE  /\ mode' = mode /\ clock' \in Nat /\ clock' >= clock
         /\ \/ cookies' \subseteq cookies
            \/ \E e \in Emails : /\ cookies' = cookies \cup {[email |-> e, roles |-> accounts[e], expires |-> clock + Ttl]}
                                 /\ e \in mode.logins \cap DOMAIN accounts /\ accounts' = accounts /\ clock' = clock
<1>1. mode' = mode
  BY TeamMoves DEF Moves, Unmoved, Stopped
<1>2. CASE TeamNext
  BY <1>1, <1>2 DEF TeamNext, SessionInv
<1>3. CASE Tick
  BY <1>1, <1>3 DEF Tick, SessionInv
<1>4. CASE \E e \in Emails : Login(e)
  BY <1>1, <1>4 DEF Login, SessionInv, team
<1>5. CASE Redeploy \/ (\E code \in HandoffCodes : Redeem(code))
  <2>1. clock' = clock /\ cookies' = cookies
    BY <1>5 DEF Redeploy, Redeem
  <2> QED BY <1>1, <2>1 DEF SessionInv
<1>6. CASE \E h \in Handlers, e \in Emails, write \in BOOLEAN : StartAssist(h, e, write)
  BY <1>1, <1>6 DEF StartAssist, SessionInv
<1>7. CASE \E h \in Handlers, code \in HandoffCodes : CreateHandoff(h, code)
  BY <1>1, <1>7 DEF CreateHandoff, SessionInv
<1> QED BY <1>2, <1>3, <1>4, <1>5, <1>6, <1>7, Zenon DEF SessionNext

LEMMA SessionStep ==
  ASSUME FormedInv, SessionInv, [Next]_vars
  PROVE  SessionInv'
<1>1. CASE (TeamNext \/ SessionNext) /\ Watches
  <2>1. /\ mode' = mode /\ clock \in Nat /\ clock' \in Nat /\ clock' >= clock
        /\ \/ cookies' \subseteq cookies
           \/ \E e \in Emails : /\ cookies' = cookies \cup {[email |-> e, roles |-> accounts[e], expires |-> clock + Ttl]}
                                /\ e \in mode.logins \cap DOMAIN accounts /\ accounts' = accounts /\ clock' = clock
    BY <1>1, SessionMakes DEF SessionInv
  <2>2. \A e \in Emails, l \in Level :
          lastHeld'[e][l] = IF "tick" \in mode.calls /\ Holds(e, l)' THEN clock' ELSE lastHeld[e][l]
    BY <1>1 DEF Watches
  <2>3. \A e \in Emails, l \in Level :
          /\ lastHeld'[e][l] \in Int /\ lastHeld'[e][l] <= clock' /\ lastHeld[e][l] \in Int /\ lastHeld'[e][l] >= lastHeld[e][l]
          /\ "tick" \in mode.calls /\ Holds(e, l)' => lastHeld'[e][l] = clock'
    <3> SUFFICES ASSUME NEW e \in Emails, NEW l \in Level
                 PROVE  /\ lastHeld'[e][l] \in Int /\ lastHeld'[e][l] <= clock' /\ lastHeld[e][l] \in Int /\ lastHeld'[e][l] >= lastHeld[e][l]
                        /\ "tick" \in mode.calls /\ Holds(e, l)' => lastHeld'[e][l] = clock'
      OBVIOUS
    <3>1. lastHeld[e][l] \in Int /\ lastHeld[e][l] <= clock
      BY DEF SessionInv
    <3>2. CASE "tick" \in mode.calls /\ Holds(e, l)'
      BY <2>1, <2>2, <3>1, <3>2
    <3>3. CASE ~("tick" \in mode.calls /\ Holds(e, l)')
      BY <2>1, <2>2, <3>1, <3>3
    <3> QED BY <3>2, <3>3
  <2>4. ASSUME NEW c \in cookies
        PROVE  c.email \in Emails /\ c.expires \in Int /\ Backed(c)'
    <3>1. c.email \in Emails /\ c.expires \in Int /\ Backed(c)
      BY DEF SessionInv
    <3>2. ASSUME NEW l \in Level, HasHqRole(c.roles, l)
          PROVE  lastHeld'[c.email][l] >= c.expires - Ttl
      <4>1. PICK old, new : old = lastHeld[c.email][l] /\ new = lastHeld'[c.email][l]
        OBVIOUS
      <4>2. old \in Int /\ new \in Int /\ new >= old /\ old >= c.expires - Ttl
        BY <2>3, <3>1, <3>2, <4>1 DEF Backed
      <4> QED BY <3>1, <4>1, <4>2, SessionAssumption
    <3> QED BY <3>1, <3>2 DEF Backed
  <2>5. ASSUME NEW e \in Emails, e \in mode.logins \cap DOMAIN accounts, accounts' = accounts, clock' = clock
        PROVE  Backed([email |-> e, roles |-> accounts[e], expires |-> clock + Ttl])'
    <3>1. \A l \in Level : HasHqRole(accounts[e], l) => Holds(e, l)'
      BY <2>5 DEF Holds
    <3>2. "tick" \in mode.calls
      BY <2>5 DEF SessionInv
    <3>3. \A l \in Level : HasHqRole(accounts[e], l) => lastHeld'[e][l] = clock
      BY <2>3, <2>5, <3>1, <3>2
    <3>4. clock >= (clock + Ttl) - Ttl
      BY <2>1, SessionAssumption
    <3> QED BY <2>5, <3>3, <3>4 DEF Backed
  <2>6. \A c \in cookies' : c.email \in Emails /\ c.expires \in Int /\ Backed(c)'
    <3>1. CASE cookies' \subseteq cookies
      BY <2>4, <3>1
    <3>2. ASSUME NEW e \in Emails, e \in mode.logins \cap DOMAIN accounts, accounts' = accounts, clock' = clock,
                 cookies' = cookies \cup {[email |-> e, roles |-> accounts[e], expires |-> clock + Ttl]}
          PROVE  \A c \in cookies' : c.email \in Emails /\ c.expires \in Int /\ Backed(c)'
      <4>1. PICK new : new = [email |-> e, roles |-> accounts[e], expires |-> clock + Ttl]
        OBVIOUS
      <4>2. new.email \in Emails /\ new.expires \in Int
        BY <2>1, <4>1, SessionAssumption
      <4>3. Backed(new)'
        BY <2>5, <3>2, <4>1
      <4> QED BY <2>4, <3>2, <4>1, <4>2, <4>3
    <3> QED BY <2>1, <3>1, <3>2
  <2> QED BY <2>1, <2>3, <2>6 DEF SessionInv
<1>2. CASE UNCHANGED <<mode, team, session>>
  <2>1. UNCHANGED <<mode, accounts, clock, cookies, lastHeld>>
    BY <1>2 DEF team, session
  <2> QED BY <2>1 DEF SessionInv, Backed, Holds
<1>3. ((TeamNext \/ SessionNext) /\ Watches) \/ UNCHANGED <<mode, team, session>>
  <2>1. mode' = mode
    BY StepMoves DEF Moves, Unmoved, Stopped
  <2> QED BY <2>1, Zenon DEF Next, vars
<1> QED BY <1>1, <1>2, <1>3

\* Only start() makes a request that mints a code.
LEMMA OnlyStarts ==
  ASSUME FormedInv, [Next]_vars, NEW h \in Handlers, req'[h].at = "mint", req[h].at # "mint"
  PROVE  \E e \in Emails, write \in BOOLEAN : MayAct(e, LevelFor(write)) /\ req'[h].by = e /\ req'[h].write = write
<1>1. ASSUME NEW g \in Handlers, Moves(g, MemberAwaits) \/ Moves(g, TenantAwaits) \/ Moves(g, DeliveryAwaits) \/ Moves(g, SpendAwaits)
      PROVE  FALSE
  <2>1. /\ "mint" \notin MemberAwaits \cup {"idle"} /\ "mint" \notin TenantAwaits \cup {"idle"}
        /\ "mint" \notin DeliveryAwaits \cup {"idle"} /\ "mint" \notin SpendAwaits \cup {"idle"}
    BY DEF MemberAwaits, TenantAwaits, DeliveryAwaits, SpendAwaits
  <2> QED BY <1>1, <2>1, MovesFormed
<1>2. ~Unmoved /\ ~Stopped
  BY IdleFormed DEF Unmoved, Stopped
<1>3. SessionNext
  BY <1>1, <1>2, MemberMoves, TenantMoves, DeliveryMoves, SpendMoves, Zenon DEF Next, vars, Unmoved
<1>4. PICK g \in Handlers : (\E e \in Emails, write \in BOOLEAN : StartAssist(g, e, write)) \/ \E code \in HandoffCodes : CreateHandoff(g, code)
  BY <1>2, <1>3 DEF SessionNext, Tick, Redeploy, Login, Redeem, Unmoved, Stopped, Interrupted
<1>5. ~\E code : CreateHandoff(g, code)
  BY EndsShift DEF CreateHandoff
<1>6. PICK e \in Emails, write \in BOOLEAN : StartAssist(g, e, write)
  BY <1>4, <1>5
<1>7. h = g /\ req'[h] = [at |-> "mint", by |-> e, write |-> write]
  BY <1>6, Shifts DEF StartAssist
<1> QED BY <1>6, <1>7 DEF StartAssist

\* Whoever starts assisted access held the role it takes at most the life of a
\* session ago: whatever became of the role since, what a session says was so when it
\* was sealed and a session is refused once it expired (resolveSession(), start()).
THEOREM ActsOnSealedRoles == Spec => ActsOnRecentRoles
<1>1. Init => FormedInv /\ SessionInv
  BY InitFormed, InitSession
<1>2. FormedInv /\ SessionInv /\ [Next]_vars => FormedInv' /\ SessionInv'
  BY NextFormed, SessionStep
<1>3. FormedInv /\ SessionInv /\ [Next]_vars =>
        \A h \in Handlers : (req'[h].at = "mint" /\ req[h].at # "mint") =>
          lastHeld[req'[h].by][LevelFor(req'[h].write)] >= clock - Ttl
  <2> SUFFICES ASSUME FormedInv, SessionInv, [Next]_vars, NEW h \in Handlers, req'[h].at = "mint", req[h].at # "mint"
               PROVE  lastHeld[req'[h].by][LevelFor(req'[h].write)] >= clock - Ttl
    OBVIOUS
  <2>1. PICK e \in Emails, write \in BOOLEAN : MayAct(e, LevelFor(write)) /\ req'[h].by = e /\ req'[h].write = write
    BY OnlyStarts
  <2>2. LevelFor(write) \in Level
    BY SessionAssumption DEF LevelFor, Owner, Level
  <2>3. PICK c \in cookies : c.email = e /\ ~(c.expires < clock) /\ HasHqRole(c.roles, LevelFor(write))
    BY <2>1 DEF MayAct
  <2>4. PICK held : held = lastHeld[e][LevelFor(write)]
    OBVIOUS
  <2>5. held \in Int /\ held >= c.expires - Ttl /\ c.expires \in Int /\ clock \in Nat
    BY <2>2, <2>3, <2>4 DEF SessionInv, Backed
  <2> QED BY <2>1, <2>3, <2>4, <2>5, SessionAssumption
<1> QED BY <1>1, <1>2, <1>3, PTL DEF Spec, ActsOnRecentRoles

-----------------------------------------------------------------------------
(***************************************************************************)
(* What is told of the tenants.                                            *)
(***************************************************************************)
\* The row a request is about to write, of what billing has done.
Owes(r, key) ==
    \/ r.at = "told" /\ key = Act(r.op, r.id, r.app)
    \/ r.at = "note" /\ key = Act("provision", r.id, r.body.app)

\* A request that may open a subscription.
Opens(r) == r.at \in {"subscriptions", "plans"} \/ (r.at = "command" /\ r.op = "activate")

\* Its tenant is there, and the subscription is not, unless another request has
\* just opened it; and what it will tell has happened.
Sound(r, known, taken, did) ==
    /\ r.at = "tenants" /\ r.op = "list" => r.ids \subseteq TenantIds
    /\ r.at = "figures" => IF r.op = "list" THEN DOMAIN r.ids \subseteq TenantIds
                           ELSE DOMAIN r.ids # {} /\ DOMAIN r.ids \subseteq known
    /\ Opens(r) => r.id \in known
    /\ Opens(r) /\ r.at # "subscriptions" =>
         <<r.id, r.app>> \notin taken \/ Act("activate", r.id, r.app) \in did
    /\ \A key : Owes(r, key) /\ key.did \in Changes => key \in did

BooksInv ==
    /\ \A key \in DOMAIN timeline : timeline[key] \in Nat
    /\ \A key \in DOMAIN done : done[key] \in Nat \ {0} /\ key.did \in Changes
    /\ Changed(timeline) \subseteq DOMAIN done
    /\ \A h \in Handlers : Sound(req[h], DOMAIN tenants, DOMAIN subs, DOMAIN done)

Strict(r, taken) == Opens(r) /\ r.at # "subscriptions" => <<r.id, r.app>> \notin taken

Told(r, key) == Times(timeline, key) + (IF Owes(r, key) THEN 1 ELSE 0)

OrderInv == \A h \in mode.handlers :
    /\ Strict(req[h], DOMAIN subs)
    /\ \A key : key.did \in Changes => Told(req[h], key) <= Times(done, key)

Faithful == ~Interrupted /\ mode.faults \subseteq {"refused"}

WholeInv == \A h \in mode.handlers : \A key \in DOMAIN done : Told(req[h], key) >= done[key]

Shown(r) ==
    "refused" \notin mode.faults /\ r.at = "answered" /\ Cardinality(DOMAIN r.views) <= RecoveryLimit =>
      \A id \in r.owing : r.views[id].days = None \/ id \in r.recovered

TenantsInv ==
    /\ BooksInv /\ \A h \in Handlers : Shown(req[h])
    /\ Orderly => OrderInv
    /\ Orderly /\ Faithful => WholeInv

\* More rows never make it unsound.
LEMMA SoundKeeps ==
  ASSUME NEW r, NEW known, NEW taken, NEW did, NEW known2, NEW taken2, NEW did2, Sound(r, known, taken, did),
         known \subseteq known2, did \subseteq did2,
         \A k \in taken2 \ taken : k[1] \notin known \/ Act("activate", k[1], k[2]) \in did2
  PROVE  Sound(r, known2, taken2, did2)
<1>1. Opens(r) /\ r.at # "subscriptions" => <<r.id, r.app>> \notin taken2 \/ Act("activate", r.id, r.app) \in did2
  <2> SUFFICES ASSUME Opens(r), r.at # "subscriptions", <<r.id, r.app>> \in taken2, <<r.id, r.app>> \notin taken
               PROVE  Act("activate", r.id, r.app) \in did2
    BY DEF Sound
  <2>1. PICK k \in taken2 \ taken : k = <<r.id, r.app>>
    OBVIOUS
  <2>2. k[1] = r.id /\ k[2] = r.app /\ r.id \in known
    BY <2>1 DEF Sound
  <2> QED BY <2>1, <2>2
<1> QED BY <1>1 DEF Sound

\* A request that owes no row and opens no subscription.
LEMMA Calm ==
  ASSUME NEW r, r.at \notin {"tenants", "figures", "subscriptions", "plans", "command", "told", "note", "answered"}
  PROVE  /\ \A known, taken, did : Sound(r, known, taken, did)
         /\ \A taken : Strict(r, taken)
         /\ \A key : ~Owes(r, key)
         /\ Shown(r)
  BY DEF Sound, Strict, Owes, Opens, Shown

TenantHands == {"tenants", "figures", "subscriptions", "plans", "command", "told", "note", "answered"}

\* One request moves, and the books as told.
LEMMA TenantAfter ==
  ASSUME FormedInv, TenantsInv, NEW h \in Handlers, NEW r, Awaits(h, r), h \in mode.handlers,
         \A key \in DOMAIN timeline' : timeline'[key] \in Nat,
         \A key \in DOMAIN done' : done'[key] \in Nat \ {0} /\ key.did \in Changes,
         Changed(timeline') \subseteq DOMAIN done',
         DOMAIN tenants \subseteq DOMAIN tenants', DOMAIN done \subseteq DOMAIN done',
         \A k \in DOMAIN subs' \ DOMAIN subs : k[1] \notin DOMAIN tenants \/ Act("activate", k[1], k[2]) \in DOMAIN done',
         Sound(r, DOMAIN tenants', DOMAIN subs', DOMAIN done'), Shown(r),
         Orderly => /\ Strict(r, DOMAIN subs')
                    /\ \A key : key.did \in Changes =>
                         Times(timeline', key) + (IF Owes(r, key) THEN 1 ELSE 0) <= Times(done', key),
         Orderly /\ Faithful => \A key \in DOMAIN done' :
                         Times(timeline', key) + (IF Owes(r, key) THEN 1 ELSE 0) >= done'[key]
  PROVE  TenantsInv'
<1>1. (\A g \in Handlers : req'[g] = IF g = h THEN r ELSE req[g]) /\ mode' = mode
  BY Shifts
<1>2. \A g \in Handlers : Sound(req'[g], DOMAIN tenants', DOMAIN subs', DOMAIN done')
  <2> SUFFICES ASSUME NEW g \in Handlers, g # h PROVE Sound(req[g], DOMAIN tenants', DOMAIN subs', DOMAIN done')
    BY <1>1
  <2>1. Sound(req[g], DOMAIN tenants, DOMAIN subs, DOMAIN done)
    BY DEF TenantsInv, BooksInv
  <2> QED BY <2>1, SoundKeeps
<1>3. BooksInv'
  BY <1>2 DEF BooksInv
<1>4. \A g \in Handlers : Shown(req[g])' 
  BY <1>1 DEF TenantsInv, Shown
<1>5. Orderly => mode.handlers = {h}
  <2>1. IsFiniteSet(mode.handlers)
    BY BackOfficeAssumption, FS_Subset DEF FormedInv
  <2> QED BY <2>1, FS_Singleton DEF Orderly
<1>6. Orderly => OrderInv'
  BY <1>1, <1>5 DEF OrderInv, Told
<1>7. Orderly /\ Faithful => WholeInv'
  BY <1>1, <1>5 DEF WholeInv, Told
<1>8. (Orderly' <=> Orderly) /\ (Faithful' <=> Faithful)
  BY <1>1 DEF Orderly, Faithful, Interrupted
<1> QED BY <1>3, <1>4, <1>6, <1>7, <1>8 DEF TenantsInv

\* A request goes on, and owes what it owed.
LEMMA TenantLook ==
  ASSUME FormedInv, TenantsInv, NEW h \in Handlers, NEW r, Awaits(h, r), h \in mode.handlers,
         UNCHANGED <<tenants, subs, timeline, done>>,
         Sound(r, DOMAIN tenants, DOMAIN subs, DOMAIN done), Shown(r), Orderly => Strict(r, DOMAIN subs),
         \A key : key.did \in Changes => (Owes(r, key) <=> Owes(req[h], key))
  PROVE  TenantsInv'
<1>1. Orderly => \A key : key.did \in Changes =>
        Times(timeline', key) + (IF Owes(r, key) THEN 1 ELSE 0) <= Times(done', key)
  BY DEF TenantsInv, OrderInv, Told, Times
<1>2. Orderly /\ Faithful => \A key \in DOMAIN done' :
        Times(timeline', key) + (IF Owes(r, key) THEN 1 ELSE 0) >= done'[key]
  BY DEF TenantsInv, WholeInv, BooksInv, Told, Times
<1>3. /\ \A key \in DOMAIN timeline : timeline[key] \in Nat
      /\ \A key \in DOMAIN done : done[key] \in Nat \ {0} /\ key.did \in Changes
      /\ Changed(timeline) \subseteq DOMAIN done
  BY DEF TenantsInv, BooksInv
<1>4. UNCHANGED <<tenants, subs, timeline, done>>
  OBVIOUS
<1> QED BY <1>1, <1>2, <1>3, <1>4, TenantAfter

\* The steps that change nothing of billing and tell nothing.
LEMMA AsksStep ==
  ASSUME FormedInv, TenantsInv, NEW h \in Handlers, NEW op \in {"list", "remind", "activate", "change"}, NEW ids,
         NEW app, NEW plan, Asks(h, op, ids, app, plan), op = "list" => ids = TenantIds
  PROVE  TenantsInv'
<1> DEFINE r == [at |-> "tenants", op |-> op, ids |-> ids, app |-> app, plan |-> plan]
<1>1. r.at = "tenants" /\ r.op = op /\ r.ids = ids /\ Awaits(h, r)
  BY DEF Asks
<1> HIDE DEF r
<1>2. /\ Sound(r, DOMAIN tenants, DOMAIN subs, DOMAIN done) /\ Shown(r) /\ Strict(r, DOMAIN subs)
      /\ \A key : ~Owes(r, key) /\ ~Owes(req[h], key)
  BY <1>1 DEF Sound, Shown, Strict, Owes, Opens, Asks, MayStart
<1> QED BY <1>1, <1>2, TenantLook DEF Asks, MayStart, clients

\* Where a request stands that is neither told nor a note.
LEMMA OwesNothing ==
  ASSUME NEW r, r.at \notin {"told", "note"}
  PROVE  \A key : ~Owes(r, key)
  BY DEF Owes

LEMMA TenantEnds ==
  ASSUME FormedInv, TenantsInv, NEW h \in Handlers, Ends(h), req[h].at \notin {"idle", "told", "note"},
         UNCHANGED <<tenants, subs, timeline, done>>
  PROVE  TenantsInv'
<1>1. Awaits(h, Idle) /\ h \in mode.handlers
  BY DEF Ends, FormedInv
<1>2. /\ Sound(Idle, DOMAIN tenants, DOMAIN subs, DOMAIN done) /\ Shown(Idle) /\ Strict(Idle, DOMAIN subs)
      /\ \A key : ~Owes(Idle, key)
  BY Calm, IdleFormed
<1> QED BY <1>1, <1>2, OwesNothing, TenantLook

LEMMA FetchTenantsStep ==
  ASSUME FormedInv, TenantsInv, NEW h \in Handlers, FetchTenants(h)
  PROVE  TenantsInv'
<1>1. /\ req[h].at = "tenants" /\ h \in mode.handlers /\ DOMAIN req[h] = {"at", "op", "ids", "app", "plan"}
      /\ UNCHANGED <<tenants, subs, timeline, done>>
  BY DEF FetchTenants, At, FormedInv, Formed, clients
<1>2. CASE Ends(h)
  BY <1>1, <1>2, TenantEnds
<1>3. CASE ~Ends(h)
  <2> DEFINE ids == req[h].ids \cap DOMAIN tenants
             r == [req[h] EXCEPT !.at = "figures", !.ids = [id \in ids |-> TenantRow(id)]]
  <2>1. Awaits(h, r) /\ (req[h].op = "list" \/ ids # {})
    BY <1>3 DEF FetchTenants
  <2>2. r.at = "figures" /\ r.op = req[h].op /\ DOMAIN r.ids = ids
    BY <1>1
  <2> HIDE DEF r
  <2>3. req[h].op = "list" => req[h].ids \subseteq TenantIds
    BY <1>1 DEF TenantsInv, BooksInv, Sound
  <2>4. Sound(r, DOMAIN tenants, DOMAIN subs, DOMAIN done)
    BY <2>1, <2>2, <2>3 DEF Sound, Owes, Opens
  <2>5. Shown(r) /\ Strict(r, DOMAIN subs) /\ \A key : ~Owes(r, key) /\ ~Owes(req[h], key)
    BY <1>1, <2>2 DEF Shown, Strict, Owes, Opens
  <2> QED BY <1>1, <2>1, <2>4, <2>5, TenantLook
<1> QED BY <1>2, <1>3

\* A page that holds all of them holds each.
LEMMA OnThePage ==
  ASSUME NEW views, IsFiniteSet(DOMAIN views), Cardinality(DOMAIN views) <= RecoveryLimit,
         NEW id \in DOMAIN views, views[id].days # None, views[id].days > 0
  PROVE  id \in Recovered(views)
<1> DEFINE Before == {other \in DOMAIN views \ {id} : Worth(views, other) > Worth(views, id)}
<1>1. IsFiniteSet(DOMAIN views \ {id}) /\ Cardinality(DOMAIN views \ {id}) = Cardinality(DOMAIN views) - 1
  BY FS_RemoveElement
<1>2. Before \subseteq DOMAIN views \ {id}
  OBVIOUS
<1>3. Cardinality(Before) <= Cardinality(DOMAIN views \ {id}) /\ IsFiniteSet(Before)
  <2> HIDE DEF Before
  <2> QED BY <1>1, <1>2, FS_Subset
<1>4. Cardinality(Before) \in Nat /\ Cardinality(DOMAIN views) \in Nat
  BY <1>3, FS_CardinalityType
<1>5. Cardinality(Before) < RecoveryLimit
  <2> HIDE DEF Before
  <2> QED BY <1>1, <1>3, <1>4, TenantsAssumption
<1> QED BY <1>5 DEF Recovered

LEMMA ReadFiguresStep ==
  ASSUME FormedInv, TenantsInv, NEW h \in Handlers, ReadFigures(h)
  PROVE  TenantsInv'
<1>1. /\ req[h].at = "figures" /\ h \in mode.handlers /\ req[h].op \in {"list", "remind", "activate", "change"}
      /\ UNCHANGED <<tenants, subs, timeline, done>>
  BY DEF ReadFigures, At, FormedInv, Formed, clients
<1>2. PICK days \in Endings, users \in Endings :
        After(h, [id \in DOMAIN req[h].ids |->
                    View(req[h].ids[id], IF id \in DOMAIN crm THEN crm[id] ELSE None,
                         ArDays(days, id), Users(users, req[h].ids[id].org))])
  BY DEF ReadFigures
<1> DEFINE views == [id \in DOMAIN req[h].ids |->
                    View(req[h].ids[id], IF id \in DOMAIN crm THEN crm[id] ELSE None,
                         ArDays(days, id), Users(users, req[h].ids[id].org))]
           found == CHOOSE i \in DOMAIN views : TRUE
<1>3. After(h, views)
  BY <1>2
<1>4. /\ DOMAIN views = DOMAIN req[h].ids
      /\ \A id \in DOMAIN views : views[id].days = ArDays(days, id)
  BY DEF View
<1> HIDE DEF views
<1>5. /\ req[h].op = "list" => DOMAIN views \subseteq TenantIds
      /\ req[h].op # "list" => found \in DOMAIN tenants
  BY <1>1, <1>4 DEF TenantsInv, BooksInv, Sound
<1> HIDE DEF found
<1>6. CASE req[h].op = "list"
  <2> DEFINE r == [at |-> "answered", views |-> views, recovered |-> Recovered(views),
                   owing |-> {i \in DOMAIN views : due[i] > 0}]
  <2>1. Awaits(h, r)
    BY <1>3, <1>6 DEF After
  <2>2. r.at = "answered" /\ r.views = views /\ r.recovered = Recovered(views) /\ r.owing = {i \in DOMAIN views : due[i] > 0}
    OBVIOUS
  <2> HIDE DEF r
  <2>3. Shown(r)
    <3> SUFFICES ASSUME "refused" \notin mode.faults, Cardinality(DOMAIN views) <= RecoveryLimit,
                        NEW id \in DOMAIN views, due[id] > 0, views[id].days # None
                 PROVE  id \in Recovered(views)
      BY <2>2 DEF Shown
    <3>1. days # "refused"
      BY DEF Endings
    <3>2. views[id].days = due[id]
      BY <1>4, <3>1 DEF ArDays
    <3>3. IsFiniteSet(DOMAIN views)
      BY <1>5, <1>6, TenantsAssumption, FS_Subset
    <3> QED BY <3>2, <3>3, OnThePage
  <2>4. /\ Sound(r, DOMAIN tenants, DOMAIN subs, DOMAIN done) /\ Strict(r, DOMAIN subs)
        /\ \A key : ~Owes(r, key) /\ ~Owes(req[h], key)
    BY <1>1, <2>2 DEF Sound, Strict, Owes, Opens
  <2> QED BY <1>1, <2>1, <2>3, <2>4, TenantLook
<1>7. CASE req[h].op = "remind"
  <2> DEFINE r == [at |-> "told", op |-> req[h].op, id |-> found, app |-> None, plan |-> req[h].plan]
  <2>1. Awaits(h, r)
    BY <1>3, <1>7 DEF After, found
  <2>2. r.at = "told" /\ r.op = "remind" /\ r.id = found /\ r.app = None
    BY <1>7
  <2> HIDE DEF r
  <2>3. \A key : key.did \in Changes => ~Owes(r, key) /\ ~Owes(req[h], key)
    BY <1>1, <2>2 DEF Owes, Act, Changes
  <2>4. Sound(r, DOMAIN tenants, DOMAIN subs, DOMAIN done) /\ Strict(r, DOMAIN subs) /\ Shown(r)
    BY <2>2, <2>3 DEF Sound, Strict, Opens, Shown
  <2> QED BY <1>1, <2>1, <2>3, <2>4, TenantLook
<1>8. CASE req[h].op = "activate"
  <2> DEFINE r == [at |-> "subscriptions", op |-> req[h].op, id |-> found, app |-> req[h].app, plan |-> req[h].plan]
  <2>1. Awaits(h, r)
    BY <1>3, <1>8 DEF After, found
  <2>2. r.at = "subscriptions" /\ r.op = "activate" /\ r.id = found
    BY <1>8
  <2> HIDE DEF r
  <2>3. \A key : ~Owes(r, key) /\ ~Owes(req[h], key)
    BY <1>1, <2>2 DEF Owes
  <2>4. Sound(r, DOMAIN tenants, DOMAIN subs, DOMAIN done) /\ Strict(r, DOMAIN subs) /\ Shown(r)
    BY <1>5, <1>8, <2>2, <2>3 DEF Sound, Strict, Opens, Shown
  <2> QED BY <1>1, <2>1, <2>3, <2>4, TenantLook
<1>9. CASE req[h].op = "change"
  <2>1. Ends(h) \/ \E app : Awaits(h, [at |-> "command", op |-> req[h].op, id |-> found, app |-> app, plan |-> req[h].plan])
    BY <1>3, <1>9 DEF After, found
  <2>2. CASE Ends(h)
    BY <1>1, <2>2, TenantEnds
  <2>3. ASSUME NEW app, Awaits(h, [at |-> "command", op |-> req[h].op, id |-> found, app |-> app, plan |-> req[h].plan])
        PROVE  TenantsInv'
    <3> DEFINE r == [at |-> "command", op |-> req[h].op, id |-> found, app |-> app, plan |-> req[h].plan]
    <3>1. Awaits(h, r) /\ r.at = "command" /\ r.op = "change"
      BY <1>9, <2>3
    <3> HIDE DEF r
    <3>2. \A key : ~Owes(r, key) /\ ~Owes(req[h], key)
      BY <1>1, <3>1 DEF Owes
    <3>3. Sound(r, DOMAIN tenants, DOMAIN subs, DOMAIN done) /\ Strict(r, DOMAIN subs) /\ Shown(r)
      BY <3>1, <3>2 DEF Sound, Strict, Opens, Shown
    <3> QED BY <1>1, <3>1, <3>2, <3>3, TenantLook
  <2> QED BY <2>1, <2>2, <2>3
<1> QED BY <1>1, <1>6, <1>7, <1>8, <1>9

LEMMA ListSubscriptionsStep ==
  ASSUME FormedInv, TenantsInv, NEW h \in Handlers, ListSubscriptions(h)
  PROVE  TenantsInv'
<1>1. /\ req[h].at = "subscriptions" /\ h \in mode.handlers /\ req[h].op = "activate"
      /\ DOMAIN req[h] = {"at", "op", "id", "app", "plan"} /\ UNCHANGED <<tenants, subs, timeline, done>>
  BY DEF ListSubscriptions, At, FormedInv, Formed, clients
<1>2. req[h].id \in DOMAIN tenants
  BY <1>1 DEF TenantsInv, BooksInv, Sound, Opens
<1> DEFINE s == [req[h] EXCEPT !.at = "told", !.op = "noop"]
           r(at) == [req[h] EXCEPT !.at = at]
<1>3. s.at = "told" /\ s.op = "noop" /\ s.id = req[h].id /\ s.app = req[h].app
  BY <1>1
<1>4. \A at : r(at).at = at /\ r(at).op = "activate" /\ r(at).id = req[h].id /\ r(at).app = req[h].app
  BY <1>1
<1>5. \/ Ends(h)
      \/ Awaits(h, s)
      \/ <<req[h].id, req[h].app>> \notin DOMAIN subs /\ \E at \in {"plans", "command"} : Awaits(h, r(at))
  BY DEF ListSubscriptions
<1> HIDE DEF s, r
<1>6. CASE Ends(h)
  BY <1>1, <1>6, TenantEnds
<1>7. CASE Awaits(h, s)
  <2>1. \A key : key.did \in Changes => ~Owes(s, key) /\ ~Owes(req[h], key)
    BY <1>1, <1>3 DEF Owes, Act, Changes
  <2>2. Sound(s, DOMAIN tenants, DOMAIN subs, DOMAIN done) /\ Strict(s, DOMAIN subs) /\ Shown(s)
    BY <1>3, <2>1 DEF Sound, Strict, Opens, Shown
  <2> QED BY <1>1, <1>7, <2>1, <2>2, TenantLook
<1>8. ASSUME <<req[h].id, req[h].app>> \notin DOMAIN subs, NEW at \in {"plans", "command"}, Awaits(h, r(at))
      PROVE  TenantsInv'
  <2>1. PICK q : q = r(at)
    OBVIOUS
  <2>2. \A key : ~Owes(q, key) /\ ~Owes(req[h], key)
    BY <1>1, <1>4, <2>1 DEF Owes
  <2>3. Sound(q, DOMAIN tenants, DOMAIN subs, DOMAIN done) /\ Strict(q, DOMAIN subs) /\ Shown(q)
    BY <1>2, <1>4, <1>8, <2>1, <2>2 DEF Sound, Strict, Opens, Shown
  <2> QED BY <1>1, <1>8, <2>1, <2>2, <2>3, TenantLook
<1> QED BY <1>5, <1>6, <1>7, <1>8

LEMMA ResolvePlanStep ==
  ASSUME FormedInv, TenantsInv, NEW h \in Handlers, ResolvePlanForApp(h)
  PROVE  TenantsInv'
<1>1. /\ req[h].at = "plans" /\ h \in mode.handlers /\ req[h].op = "activate"
      /\ DOMAIN req[h] = {"at", "op", "id", "app", "plan"} /\ UNCHANGED <<tenants, subs, timeline, done>>
  BY DEF ResolvePlanForApp, At, FormedInv, Formed, clients
<1> DEFINE r == [req[h] EXCEPT !.at = "command", !.plan = Plans[1]]
<1>2. r.at = "command" /\ r.op = "activate" /\ r.id = req[h].id /\ r.app = req[h].app
  BY <1>1
<1>3. Ends(h) \/ Awaits(h, r)
  BY DEF ResolvePlanForApp
<1> HIDE DEF r
<1>4. CASE Ends(h)
  BY <1>1, <1>4, TenantEnds
<1>5. CASE Awaits(h, r)
  <2>1. PICK q : q = req[h]
    OBVIOUS
  <2>2. /\ Sound(q, DOMAIN tenants, DOMAIN subs, DOMAIN done)
        /\ Orderly => Strict(q, DOMAIN subs)
    BY <1>1, <2>1 DEF TenantsInv, BooksInv, OrderInv
  <2>3. \A key : ~Owes(r, key) /\ ~Owes(req[h], key)
    BY <1>1, <1>2 DEF Owes
  <2>4. Sound(r, DOMAIN tenants, DOMAIN subs, DOMAIN done) /\ (Orderly => Strict(r, DOMAIN subs)) /\ Shown(r)
    BY <1>1, <1>2, <2>1, <2>2, <2>3 DEF Sound, Strict, Opens, Shown
  <2> QED BY <1>1, <1>5, <2>3, <2>4, TenantLook
<1> QED BY <1>3, <1>4, <1>5

LEMMA CancelStep ==
  ASSUME FormedInv, TenantsInv, NEW h \in Handlers, NEW id, NEW app, Cancel(h, id, app)
  PROVE  TenantsInv'
<1> DEFINE r == [at |-> "command", op |-> "cancel", id |-> id, app |-> app, plan |-> None]
<1>1. r.at = "command" /\ r.op = "cancel" /\ Awaits(h, r)
  BY DEF Cancel
<1> HIDE DEF r
<1>2. /\ Sound(r, DOMAIN tenants, DOMAIN subs, DOMAIN done) /\ Shown(r) /\ Strict(r, DOMAIN subs)
      /\ \A key : ~Owes(r, key) /\ ~Owes(req[h], key)
  BY <1>1 DEF Sound, Shown, Strict, Owes, Opens, Cancel, MayStart
<1> QED BY <1>1, <1>2, TenantLook DEF Cancel, MayStart, clients

LEMMA CreateTenantStep ==
  ASSUME FormedInv, TenantsInv, NEW h \in Handlers, NEW body, CreateTenant(h, body)
  PROVE  TenantsInv'
<1> DEFINE r == [at |-> "gateway", body |-> body]
<1>1. r.at = "gateway" /\ Awaits(h, r)
  BY DEF CreateTenant
<1> HIDE DEF r
<1>2. /\ Sound(r, DOMAIN tenants, DOMAIN subs, DOMAIN done) /\ Shown(r) /\ Strict(r, DOMAIN subs)
      /\ \A key : ~Owes(r, key) /\ ~Owes(req[h], key)
  BY <1>1, Calm, OwesNothing DEF CreateTenant, MayStart
<1> QED BY <1>1, <1>2, TenantLook DEF CreateTenant, MayStart, clients

LEMMA SaveNoteStep ==
  ASSUME FormedInv, TenantsInv, NEW h \in Handlers, SaveNote(h)
  PROVE  TenantsInv'
<1>1. req[h].at = "note" /\ h \in mode.handlers /\ UNCHANGED <<tenants, subs, timeline, done>>
  BY DEF SaveNote, At, FormedInv
<1> DEFINE r == [at |-> "told", op |-> "provision", id |-> req[h].id, app |-> req[h].body.app]
<1>2. r.at = "told" /\ r.op = "provision" /\ r.id = req[h].id /\ r.app = req[h].body.app /\ Awaits(h, r)
  BY DEF SaveNote
<1> HIDE DEF r
<1>3. \A key : Owes(r, key) <=> Owes(req[h], key)
  BY <1>1, <1>2 DEF Owes
<1>4. Sound(r, DOMAIN tenants, DOMAIN subs, DOMAIN done) /\ Strict(r, DOMAIN subs) /\ Shown(r)
  <2>1. \A key : Owes(r, key) /\ key.did \in Changes => key \in DOMAIN done
    BY <1>3 DEF TenantsInv, BooksInv, Sound
  <2> QED BY <1>2, <2>1 DEF Sound, Strict, Opens, Shown
<1> QED BY <1>1, <1>2, <1>3, <1>4, TenantLook

\* Counting.
LEMMA Counts ==
  ASSUME NEW bag, \A k \in DOMAIN bag : bag[k] \in Nat, NEW key
  PROVE  /\ \A k : Times(bag, k) \in Nat
         /\ DOMAIN More(bag, key) = DOMAIN bag \cup {key}
         /\ \A k \in DOMAIN More(bag, key) : More(bag, key)[k] \in Nat
         /\ (\A k \in DOMAIN bag : bag[k] # 0) => \A k \in DOMAIN More(bag, key) : More(bag, key)[k] # 0
         /\ \A k : Times(More(bag, key), k) = IF k = key THEN Times(bag, k) + 1 ELSE Times(bag, k)
<1>1. \A k : Times(bag, k) \in Nat
  BY DEF Times
<1>2. DOMAIN More(bag, key) = DOMAIN bag \cup {key}
  BY DEF More, With
<1>3. \A k \in DOMAIN More(bag, key) : More(bag, key)[k] = IF k = key THEN Times(bag, key) + 1 ELSE bag[k]
  BY DEF More, With
<1>4. \A k : Times(More(bag, key), k) = IF k = key THEN Times(bag, k) + 1 ELSE Times(bag, k)
  BY <1>2, <1>3 DEF Times
<1> QED BY <1>1, <1>2, <1>3, <1>4

LEMMA ActFields == \A d, i, a : Act(d, i, a).did = d /\ Act(d, i, a).id = i /\ Act(d, i, a).app = a
  BY DEF Act

\* Something happens in billing, and its request goes on to tell it, or its answer is lost.
LEMMA DoneStep ==
  ASSUME FormedInv, TenantsInv, NEW h \in Handlers, NEW r, Awaits(h, r), h \in mode.handlers,
         NEW act, act.did \in Changes, done' = More(done, act), UNCHANGED timeline,
         DOMAIN tenants \subseteq DOMAIN tenants',
         \A k \in DOMAIN subs' \ DOMAIN subs : k[1] \notin DOMAIN tenants \/ Act("activate", k[1], k[2]) = act,
         \A key : ~Owes(req[h], key), \A key : Owes(r, key) => key = act, Faithful => Owes(r, act),
         ~Opens(r), r.at \notin {"tenants", "figures", "answered"}
  PROVE  TenantsInv'
<1>1. /\ \A key \in DOMAIN timeline : timeline[key] \in Nat
      /\ \A key \in DOMAIN done : done[key] \in Nat \ {0} /\ key.did \in Changes
      /\ Changed(timeline) \subseteq DOMAIN done
  BY DEF TenantsInv, BooksInv
<1>2. PICK old, new, told : old = done /\ new = done' /\ told = timeline
  OBVIOUS
<1>3. /\ \A k : Times(old, k) \in Nat /\ Times(told, k) \in Nat
      /\ DOMAIN new = DOMAIN old \cup {act}
      /\ \A k \in DOMAIN new : new[k] \in Nat \ {0} /\ new[k] = Times(new, k)
      /\ \A k : Times(new, k) = IF k = act THEN Times(old, k) + 1 ELSE Times(old, k)
  <2>1. \A k : Times(told, k) \in Nat
    BY <1>1, <1>2, Counts
  <2>2. new = More(old, act) /\ \A k \in DOMAIN old : old[k] \in Nat /\ old[k] # 0
    BY <1>1, <1>2
  <2>3. \A k \in DOMAIN new : new[k] = Times(new, k)
    BY DEF Times
  <2>4. /\ \A k : Times(old, k) \in Nat
        /\ DOMAIN More(old, act) = DOMAIN old \cup {act}
        /\ \A k \in DOMAIN More(old, act) : More(old, act)[k] \in Nat
        /\ (\A k \in DOMAIN old : old[k] # 0) => \A k \in DOMAIN More(old, act) : More(old, act)[k] # 0
        /\ \A k : Times(More(old, act), k) = IF k = act THEN Times(old, k) + 1 ELSE Times(old, k)
    BY <2>2, Counts
  <2> QED BY <2>1, <2>2, <2>3, <2>4
<1>4. \A k \in DOMAIN done' : done'[k] \in Nat \ {0} /\ k.did \in Changes
  BY <1>1, <1>2, <1>3
<1>5. Sound(r, DOMAIN tenants', DOMAIN subs', DOMAIN done') /\ Shown(r) /\ Strict(r, DOMAIN subs')
  BY <1>2, <1>3 DEF Sound, Shown, Strict
<1>6. Orderly => \A key : key.did \in Changes =>
        Times(timeline', key) + (IF Owes(r, key) THEN 1 ELSE 0) <= Times(done', key)
  <2> SUFFICES ASSUME Orderly, NEW key, key.did \in Changes
               PROVE  Times(told, key) + (IF Owes(r, key) THEN 1 ELSE 0) <= Times(new, key)
    BY <1>2
  <2>1. Times(told, key) <= Times(old, key)
    <3>1. Times(told, key) + 0 <= Times(old, key)
      BY <1>2 DEF TenantsInv, OrderInv, Told
    <3> QED BY <1>3, <3>1
  <2>2. CASE key = act
    <3>1. Times(new, key) = Times(old, key) + 1
      BY <1>3, <2>2
    <3> QED BY <1>3, <2>1, <3>1
  <2>3. CASE key # act
    <3>1. Times(new, key) = Times(old, key) /\ ~Owes(r, key)
      BY <1>3, <2>3
    <3> QED BY <1>3, <2>1, <3>1
  <2> QED BY <2>2, <2>3
<1>7. Orderly /\ Faithful => \A key \in DOMAIN done' :
        Times(timeline', key) + (IF Owes(r, key) THEN 1 ELSE 0) >= done'[key]
  <2> SUFFICES ASSUME Orderly, Faithful, NEW key \in DOMAIN new
               PROVE  Times(told, key) + (IF Owes(r, key) THEN 1 ELSE 0) >= Times(new, key)
    BY <1>2, <1>3
  <2>1. Times(told, key) >= Times(old, key)
    <3>1. key \in DOMAIN old => Times(told, key) + 0 >= old[key]
      BY <1>2 DEF TenantsInv, WholeInv, Told
    <3>2. Times(old, key) = IF key \in DOMAIN old THEN old[key] ELSE 0
      BY DEF Times
    <3> QED BY <1>3, <3>1, <3>2
  <2>2. CASE key = act
    <3>1. Times(new, key) = Times(old, key) + 1 /\ Owes(r, key)
      BY <1>3, <2>2
    <3> QED BY <1>3, <2>1, <3>1
  <2>3. CASE key # act
    <3>1. Times(new, key) = Times(old, key) /\ ~Owes(r, key)
      BY <1>3, <2>3
    <3> QED BY <1>3, <2>1, <3>1
  <2> QED BY <2>2, <2>3
<1>8. /\ DOMAIN done \subseteq DOMAIN done' /\ act \in DOMAIN done' /\ Changed(timeline') \subseteq DOMAIN done'
      /\ \A key \in DOMAIN timeline' : timeline'[key] \in Nat
  BY <1>1, <1>2, <1>3
<1>9. \A k \in DOMAIN subs' \ DOMAIN subs : k[1] \notin DOMAIN tenants \/ Act("activate", k[1], k[2]) \in DOMAIN done'
  BY <1>8
<1> QED BY <1>4, <1>5, <1>6, <1>7, <1>8, <1>9, TenantAfter

\* Without faults an answer is that of what was done.
LEMMA Answered ==
  ASSUME Faithful, NEW end \in Endings, Obeyed(end)
  PROVE  end = "ok"
  BY DEF Faithful, Endings, Obeyed

LEMMA CommandStep ==
  ASSUME FormedInv, TenantsInv, NEW h \in Handlers, Command(h)
  PROVE  TenantsInv'
<1>1. /\ req[h].at = "command" /\ h \in mode.handlers /\ req[h].op \in {"activate", "change", "cancel"}
      /\ DOMAIN req[h] = {"at", "op", "id", "app", "plan"} /\ UNCHANGED <<tenants, timeline>>
  BY DEF Command, At, FormedInv, Formed
<1>2. PICK q, key, act, r : /\ q = req[h] /\ key = <<q.id, q.app>> /\ act = Act(q.op, q.id, q.app)
                            /\ r = [req[h] EXCEPT !.at = "told"]
  OBVIOUS
<1>3. r.at = "told" /\ r.op = q.op /\ r.id = q.id /\ r.app = q.app
  BY <1>1, <1>2
<1>4. PICK end \in Endings, obeyed \in BOOLEAN :
        /\ obeyed = (Obeyed(end) /\ Able(q.op, key))
        /\ subs' = IF obeyed THEN Effect(q.op, key, q.plan) ELSE subs
        /\ done' = IF obeyed /\ ~(q.op = "activate" /\ Live(key)) THEN More(done, act) ELSE done
        /\ IF end = "ok" /\ obeyed THEN Awaits(h, r) ELSE Ends(h)
  BY <1>2, Zenon DEF Command
<1>5. CASE ~obeyed
  BY <1>1, <1>4, <1>5, TenantEnds
<1>6. CASE obeyed /\ q.op = "activate" /\ Live(key)
  <2>1. UNCHANGED <<subs, done>>
    BY <1>4, <1>6 DEF Effect
  <2>2. CASE Ends(h)
    BY <1>1, <2>1, <2>2, TenantEnds
  <2>3. CASE Awaits(h, r)
    <3>1. Sound(q, DOMAIN tenants, DOMAIN subs, DOMAIN done) /\ (Orderly => Strict(q, DOMAIN subs)) /\ Opens(q) /\ q.at # "subscriptions"
      BY <1>1, <1>2, <1>6 DEF TenantsInv, BooksInv, OrderInv, Opens
    <3>2. act \in DOMAIN done /\ ~Orderly
      BY <1>2, <1>6, <3>1 DEF Sound, Strict, Live
    <3>3. \A k : Owes(r, k) <=> k = act
      BY <1>2, <1>3 DEF Owes
    <3>4. Sound(r, DOMAIN tenants', DOMAIN subs', DOMAIN done') /\ Shown(r)
      BY <1>3, <2>1, <3>2, <3>3 DEF Sound, Opens, Shown
    <3>5. /\ \A k \in DOMAIN timeline : timeline[k] \in Nat
          /\ \A k \in DOMAIN done : done[k] \in Nat \ {0} /\ k.did \in Changes
          /\ Changed(timeline) \subseteq DOMAIN done
      BY DEF TenantsInv, BooksInv
    <3> QED BY <1>1, <2>1, <2>3, <3>2, <3>4, <3>5, TenantAfter
  <2> QED BY <1>4, <2>2, <2>3
<1>7. CASE obeyed /\ ~(q.op = "activate" /\ Live(key))
  <2>1. done' = More(done, act) /\ act.did \in Changes
    BY <1>1, <1>2, <1>4, <1>7, ActFields DEF Changes
  <2>2. \A k \in DOMAIN subs' \ DOMAIN subs : Act("activate", k[1], k[2]) = act
    <3>1. CASE q.op = "activate"
      <4>1. DOMAIN subs' = DOMAIN subs \cup {key}
        BY <1>4, <1>7, <3>1 DEF Effect, With
      <4> QED BY <1>2, <3>1, <4>1
    <3>2. CASE q.op # "activate"
      <4>1. DOMAIN subs' = DOMAIN subs
        BY <1>1, <1>2, <1>4, <1>7, <3>2 DEF Effect
      <4> QED BY <4>1
    <3> QED BY <3>1, <3>2
  <2>3. \A k : ~Owes(req[h], k)
    BY <1>1, OwesNothing
  <2>4. CASE Awaits(h, r)
    <3>1. /\ \A k : Owes(r, k) <=> k = act
          /\ ~Opens(r) /\ r.at \notin {"tenants", "figures", "answered"}
      BY <1>2, <1>3 DEF Owes, Opens
    <3> QED BY <1>1, <2>1, <2>2, <2>3, <2>4, <3>1, DoneStep
  <2>5. CASE Ends(h) /\ end # "ok"
    <3>1. ~Faithful
      BY <1>4, <1>7, <2>5, Answered
    <3>2. ~Opens(Idle) /\ Idle.at \notin {"tenants", "figures", "answered"} /\ \A k : ~Owes(Idle, k)
      BY IdleFormed, Calm DEF Opens
    <3> QED BY <1>1, <2>1, <2>2, <2>3, <2>5, <3>1, <3>2, DoneStep DEF Ends
  <2> QED BY <1>4, <1>7, <2>4, <2>5
<1> QED BY <1>5, <1>6, <1>7

LEMMA ProvisionStep ==
  ASSUME FormedInv, TenantsInv, NEW h \in Handlers, NEW id, Provision(h, id)
  PROVE  TenantsInv'
<1>1. req[h].at = "gateway" /\ h \in mode.handlers /\ id \notin DOMAIN tenants /\ UNCHANGED timeline
  BY DEF Provision, At, FormedInv
<1>2. PICK act, r, q : /\ q = req[h] /\ act = Act("provision", id, q.body.app) /\ r = [at |-> "note", id |-> id, body |-> q.body]
  OBVIOUS
<1>3. r.at = "note" /\ r.id = id /\ r.body = q.body
  BY <1>2
<1>4. PICK end \in Endings, obeyed \in BOOLEAN :
        /\ obeyed => Obeyed(end)
        /\ IF obeyed
           THEN /\ tenants' = With(tenants, id, [owner |-> q.body.owner, org |-> id, life |-> "active"])
                /\ subs' = With(subs, <<id, q.body.app>>, [plan |-> q.body.plan, status |-> "active"])
                /\ done' = More(done, act)
           ELSE UNCHANGED <<tenants, subs, done>>
        /\ IF end = "ok" /\ obeyed THEN Awaits(h, r) ELSE Ends(h)
  BY <1>2, Zenon DEF Provision
<1>5. CASE ~obeyed
  BY <1>1, <1>4, <1>5, TenantEnds
<1>6. CASE obeyed
  <2>1. act.did \in Changes /\ DOMAIN tenants \subseteq DOMAIN tenants'
    BY <1>2, <1>4, <1>6, ActFields DEF Changes, With
  <2>2. \A k \in DOMAIN subs' \ DOMAIN subs : k[1] \notin DOMAIN tenants
    BY <1>1, <1>4, <1>6 DEF With
  <2>3. \A k : ~Owes(req[h], k)
    BY <1>1, OwesNothing
  <2>4. CASE Awaits(h, r)
    <3>1. /\ \A k : Owes(r, k) <=> k = act
          /\ ~Opens(r) /\ r.at \notin {"tenants", "figures", "answered"}
      BY <1>2, <1>3 DEF Owes, Opens
    <3> QED BY <1>1, <1>4, <1>6, <2>1, <2>2, <2>3, <2>4, <3>1, DoneStep
  <2>5. CASE Ends(h) /\ end # "ok"
    <3>1. ~Faithful
      BY <1>4, <1>6, <2>5, Answered
    <3>2. ~Opens(Idle) /\ Idle.at \notin {"tenants", "figures", "answered"} /\ \A k : ~Owes(Idle, k)
      BY IdleFormed, Calm DEF Opens
    <3> QED BY <1>1, <1>4, <1>6, <2>1, <2>2, <2>3, <2>5, <3>1, <3>2, DoneStep DEF Ends
  <2> QED BY <1>4, <1>6, <2>4, <2>5
<1> QED BY <1>5, <1>6

LEMMA TellStep ==
  ASSUME FormedInv, TenantsInv, NEW h \in Handlers, Tell(h)
  PROVE  TenantsInv'
<1>1. req[h].at = "told" /\ h \in mode.handlers /\ UNCHANGED <<tenants, subs, done>> /\ {"at", "op", "id", "app"} \subseteq DOMAIN req[h]
  BY DEF Tell, At, FormedInv, Formed
<1>2. PICK q, row : q = req[h] /\ row = Act(q.op, q.id, q.app)
  OBVIOUS
<1>3. PICK r : Awaits(h, r) /\ r.at \in {"told", "idle"} /\ \A k : k.did \in Changes => ~Owes(r, k)
  <2>1. CASE q.op = "activate"
    <3> DEFINE s == [req[h] EXCEPT !.op = "activated"]
    <3>1. s.at = "told" /\ s.op = "activated" /\ Awaits(h, s)
      BY <1>1, <1>2, <2>1 DEF Tell
    <3> HIDE DEF s
    <3>2. \A k : k.did \in Changes => ~Owes(s, k)
      BY <3>1, ActFields DEF Owes, Changes
    <3> QED BY <3>1, <3>2
  <2>2. CASE q.op # "activate"
    <3>1. Awaits(h, Idle)
      BY <1>2, <2>2 DEF Tell, Ends
    <3> QED BY <3>1, IdleFormed, Calm
  <2> QED BY <2>1, <2>2
<1>4. PICK old, new, did : old = timeline /\ new = timeline' /\ did = done
  OBVIOUS
<1>5. \/ q.op \in Changes /\ new = More(old, row)
      \/ q.op \notin Changes /\ new = With(old, row, 1)
      \/ "save" \in mode.faults /\ new = old
  BY <1>2, <1>4 DEF Tell
<1>6. /\ \A k \in DOMAIN old : old[k] \in Nat
      /\ \A k \in DOMAIN did : did[k] \in Nat \ {0} /\ k.did \in Changes
      /\ Changed(old) \subseteq DOMAIN did /\ Sound(q, DOMAIN tenants, DOMAIN subs, DOMAIN did)
  BY <1>2, <1>4 DEF TenantsInv, BooksInv
<1>7. /\ row.did = q.op /\ \A k : Owes(q, k) <=> k = row
      /\ row.did \in Changes => row \in DOMAIN did
  BY <1>1, <1>2, <1>6, ActFields DEF Owes, Sound
<1>8. /\ \A k \in DOMAIN new : new[k] \in Nat
      /\ Changed(new) \subseteq DOMAIN did
      /\ \A k : Times(old, k) \in Nat /\ Times(new, k) \in Nat /\ Times(did, k) \in Nat
      /\ \A k : k.did \in Changes => Times(new, k) <= Times(old, k) + (IF Owes(q, k) THEN 1 ELSE 0)
      /\ "save" \notin mode.faults => \A k : k.did \in Changes => Times(new, k) = Times(old, k) + (IF Owes(q, k) THEN 1 ELSE 0)
  <2>1. \A k : Times(old, k) \in Nat /\ Times(did, k) \in Nat
    BY <1>6 DEF Times
  <2>2. CASE q.op \in Changes /\ new = More(old, row)
    <3>1. /\ DOMAIN More(old, row) = DOMAIN old \cup {row}
          /\ \A k \in DOMAIN More(old, row) : More(old, row)[k] \in Nat
          /\ \A k : Times(More(old, row), k) = IF k = row THEN Times(old, k) + 1 ELSE Times(old, k)
      BY <1>6, Counts
    <3>2. Changed(new) \subseteq DOMAIN did
      BY <1>6, <1>7, <2>2, <3>1 DEF Changed
    <3>3. \A k : Times(new, k) = Times(old, k) + (IF Owes(q, k) THEN 1 ELSE 0)
      BY <1>7, <2>1, <2>2, <3>1
    <3>4. \A k : Times(new, k) \in Nat
      BY <2>1, <3>3
    <3> QED BY <2>1, <2>2, <3>1, <3>2, <3>3, <3>4
  <2>3. CASE q.op \notin Changes /\ new = With(old, row, 1)
    <3>1. /\ DOMAIN new = DOMAIN old \cup {row}
          /\ \A k \in DOMAIN new : new[k] = IF k = row THEN 1 ELSE old[k]
      BY <2>3 DEF With
    <3>2. \A k \in DOMAIN new : new[k] \in Nat
      BY <1>6, <3>1
    <3>3. Changed(new) \subseteq DOMAIN did
      BY <1>6, <1>7, <2>3, <3>1 DEF Changed
    <3>4. \A k : k.did \in Changes => Times(new, k) = Times(old, k) /\ ~Owes(q, k)
      BY <1>7, <2>3, <3>1 DEF Times
    <3>5. \A k : Times(new, k) \in Nat
      BY <3>2 DEF Times
    <3> QED BY <2>1, <3>2, <3>3, <3>4, <3>5
  <2>4. CASE "save" \in mode.faults /\ new = old
    BY <1>6, <2>1, <2>4
  <2> QED BY <1>5, <2>2, <2>3, <2>4
<1>9. Orderly => \A k : k.did \in Changes =>
        Times(new, k) + (IF Owes(r, k) THEN 1 ELSE 0) <= Times(did, k)
  <2> SUFFICES ASSUME Orderly, NEW k, k.did \in Changes
               PROVE  Times(new, k) + 0 <= Times(did, k)
    BY <1>3
  <2>1. Times(old, k) + (IF Owes(q, k) THEN 1 ELSE 0) <= Times(did, k)
    BY <1>1, <1>2, <1>4 DEF TenantsInv, OrderInv, Told
  <2> QED BY <1>8, <2>1
<1>10. Orderly /\ Faithful => \A k \in DOMAIN did :
        Times(new, k) + (IF Owes(r, k) THEN 1 ELSE 0) >= did[k]
  <2> SUFFICES ASSUME Orderly, Faithful, NEW k \in DOMAIN did
               PROVE  Times(new, k) + 0 >= did[k]
    BY <1>3, <1>6
  <2>1. Times(old, k) + (IF Owes(q, k) THEN 1 ELSE 0) >= did[k]
    BY <1>1, <1>2, <1>4 DEF TenantsInv, WholeInv, Told
  <2>2. "save" \notin mode.faults
    BY DEF Faithful
  <2>3. Times(new, k) = Times(old, k) + (IF Owes(q, k) THEN 1 ELSE 0)
    BY <1>6, <1>8, <2>2
  <2> QED BY <1>6, <1>8, <2>1, <2>3
<1>11. Sound(r, DOMAIN tenants, DOMAIN subs, DOMAIN done) /\ Shown(r) /\ Strict(r, DOMAIN subs)
  BY <1>3 DEF Sound, Shown, Strict, Opens
<1>12. /\ UNCHANGED <<tenants, subs, done>> /\ \A k \in DOMAIN done' : done'[k] \in Nat \ {0} /\ k.did \in Changes
       /\ \A k \in DOMAIN timeline' : timeline'[k] \in Nat
       /\ Changed(timeline') \subseteq DOMAIN done'
  BY <1>1, <1>4, <1>6, <1>8
<1>13. /\ Orderly => \A k : k.did \in Changes => Times(timeline', k) + (IF Owes(r, k) THEN 1 ELSE 0) <= Times(done', k)
       /\ Orderly /\ Faithful => \A k \in DOMAIN done' : Times(timeline', k) + (IF Owes(r, k) THEN 1 ELSE 0) >= done'[k]
  BY <1>4, <1>9, <1>10, <1>12
<1> QED BY <1>1, <1>3, <1>11, <1>12, <1>13, TenantAfter

\* What leaves the books and the tenants there are, and the requests over them.
LEMMA TenantsSame ==
  ASSUME FormedInv, TenantsInv, UNCHANGED <<mode, subs, timeline, done>>, DOMAIN tenants' = DOMAIN tenants,
         Kept(TenantHands) \/ Stopped
  PROVE  TenantsInv'
<1>1. \A h \in Handlers : req'[h] = req[h] \/ req'[h].at \notin TenantHands
  BY StoppedKeeps DEF Kept, TenantHands
<1>2. \A h \in Handlers : \A key : Owes(req'[h], key) => Owes(req[h], key)
  BY <1>1, Calm DEF TenantHands
<1>3. BooksInv'
  BY <1>1, Calm DEF TenantsInv, BooksInv, TenantHands
<1>4. \A h \in Handlers : Shown(req[h])'
  <2>1. \A h \in Handlers : Shown(req'[h])
    BY <1>1, Calm DEF TenantsInv, TenantHands
  <2> QED BY <2>1 DEF Shown
<1>5. mode.handlers \subseteq Handlers
  BY BackOfficeAssumption DEF FormedInv
<1>6. OrderInv => OrderInv'
  <2> SUFFICES ASSUME OrderInv, NEW h \in mode.handlers
               PROVE  /\ Strict(req'[h], DOMAIN subs)
                      /\ \A key : key.did \in Changes => Told(req[h], key)' <= Times(done, key)
    BY DEF OrderInv
  <2>1. Strict(req'[h], DOMAIN subs)
    BY <1>1, <1>5, Calm DEF OrderInv, TenantHands
  <2>2. ASSUME NEW key, key.did \in Changes
        PROVE  Told(req[h], key)' <= Times(done, key)
    <3>1. Told(req[h], key) <= Times(done, key)
      BY <2>2 DEF OrderInv
    <3>2. Times(timeline, key) \in Nat /\ Times(done, key) \in Nat
      BY DEF TenantsInv, BooksInv, Times
    <3>3. Owes(req'[h], key) => Owes(req[h], key)
      BY <1>2, <1>5
    <3>4. Told(req[h], key)' = Times(timeline, key) + (IF Owes(req'[h], key) THEN 1 ELSE 0)
      BY DEF Told, Times
    <3> QED BY <3>1, <3>2, <3>3, <3>4 DEF Told
  <2> QED BY <2>1, <2>2
<1>7. Faithful /\ WholeInv => WholeInv'
  <2> SUFFICES ASSUME Faithful, WholeInv, NEW h \in mode.handlers, NEW key \in DOMAIN done
               PROVE  Told(req[h], key)' >= done[key]
    BY DEF WholeInv
  <2>1. Told(req[h], key) >= done[key]
    BY DEF WholeInv
  <2>2. Owes(req'[h], key) <=> Owes(req[h], key)
    <3>1. Kept(TenantHands)
      BY StoppedKeeps DEF Faithful
    <3>2. req'[h] = req[h] \/ (req'[h].at \notin TenantHands /\ req[h].at \notin TenantHands)
      BY <1>5, <3>1 DEF Kept
    <3> QED BY <3>2, Calm DEF TenantHands
  <2>3. Told(req[h], key)' = Times(timeline, key) + (IF Owes(req'[h], key) THEN 1 ELSE 0)
    BY DEF Told, Times
  <2> QED BY <2>1, <2>2, <2>3 DEF Told
<1> QED BY <1>3, <1>4, <1>6, <1>7 DEF TenantsInv, Orderly, Faithful, Interrupted

LEMMA TenantsStepKeeps ==
  ASSUME FormedInv, TenantsInv, TenantsStep
  PROVE  TenantsInv'
<1>1. CASE BillingActs
  <2>1. UNCHANGED <<mode, req, subs, timeline, done>> /\ DOMAIN tenants' = DOMAIN tenants
    BY <1>1 DEF BillingActs
  <2> QED BY <2>1, TenantsSame DEF Kept
<1>2. ASSUME NEW h \in Handlers, List(h) \/ \E id \in TenantIds : SendReminder(h, id)
      PROVE  TenantsInv'
  BY <1>2, AsksStep DEF List, SendReminder
<1>3. ASSUME NEW h \in Handlers, NEW ask \in mode.asks,
             \/ Cancel(h, ask[1], ask[2])
             \/ \E plan \in {None, Plans[2]} : ActivateApp(h, ask[1], ask[2], plan)
             \/ \E app \in {ask[2], None} : ChangeTenantPlan(h, ask[1], app, Plans[2])
      PROVE  TenantsInv'
  BY <1>3, AsksStep, CancelStep DEF ActivateApp, ChangeTenantPlan
<1>4. ASSUME NEW h \in Handlers, Answer(h) \/ ProvisionRefused(h)
      PROVE  TenantsInv'
  BY <1>4, TenantEnds DEF Answer, ProvisionRefused, At, clients
<1>5. ASSUME NEW h \in Handlers,
             \/ FetchTenants(h) \/ ReadFigures(h) \/ (\E id \in TenantIds : Provision(h, id))
             \/ ListSubscriptions(h) \/ ResolvePlanForApp(h) \/ Command(h) \/ Tell(h)
             \/ (\E body \in mode.bodies : CreateTenant(h, body)) \/ SaveNote(h)
      PROVE  TenantsInv'
  BY <1>5, FetchTenantsStep, ReadFiguresStep, ProvisionStep, ListSubscriptionsStep, ResolvePlanStep, CommandStep,
     TellStep, CreateTenantStep, SaveNoteStep
<1> QED BY <1>1, <1>2, <1>3, <1>4, <1>5, Zenon DEF TenantsStep

\* The other parts leave the tenants, and the requests over them.
LEMMA NotTenants ==
  ASSUME FormedInv, [Next]_vars, ~TenantsStep
  PROVE  UNCHANGED <<mode, clients>> /\ (Kept(TenantHands) \/ Stopped)
<1>0. /\ TenantHands \cap TeamAwaits = {} /\ TenantHands \cap SpendAwaits = {} /\ TenantHands \cap DeliveryAwaits = {}
      /\ "idle" \notin TenantHands
  BY DEF TenantHands, TeamAwaits, MemberAwaits, SpendAwaits, DeliveryAwaits
<1>m. ASSUME NEW h \in Handlers, Moves(h, TeamAwaits) \/ Moves(h, SpendAwaits) \/ Moves(h, DeliveryAwaits)
      PROVE  Kept(TenantHands) /\ mode' = mode
  BY <1>0, <1>m, OthersKeep DEF Moves
<1>u. Unmoved \/ Stopped => mode' = mode /\ (Kept(TenantHands) \/ Stopped)
  BY UnmovedKeeps DEF Unmoved, Stopped
<1>1. CASE UNCHANGED vars
  BY <1>1, <1>u DEF vars, Unmoved
<1>2. CASE UNCHANGED <<mode, req, clients>>
  BY <1>2, <1>u DEF Unmoved
<1>3. CASE (TeamNext \/ SessionNext) /\ UNCHANGED clients
  BY <1>3, <1>m, <1>u, TeamMoves
<1>4. CASE SpendStep /\ UNCHANGED clients
  BY <1>4, <1>m, <1>u, SpendMoves
<1>5. CASE DeliveriesStep /\ UNCHANGED clients
  BY <1>5, <1>m, <1>u, DeliveryMoves
<1>6. CASE Next
  <2>1. \/ (TeamNext \/ SessionNext) /\ Watches /\ UNCHANGED <<brands, clients, delivered, spend>>
        \/ UNCHANGED <<mode, req, team, session, clients, delivered, spend>>
        \/ SpendStep /\ UNCHANGED <<team, session, brands, clients, delivered>>
        \/ DeliveriesStep /\ UNCHANGED <<team, session, brands, clients, spend>>
    BY <1>6, Zenon DEF Next
  <2> QED BY <1>2, <1>3, <1>4, <1>5, <2>1
<1> QED BY <1>1, <1>6, Zenon

\* What happened to a tenant in billing is on its timeline, and nothing else is,
\* because each row is written after the answer to the command it tells and only
\* once it was obeyed; nothing is told twice where requests do not overlap, and
\* everything is told where moreover nothing is lost; and who owes is recovered or
\* shown as unknown, as long as the list is one page (send() of the subscriptions
\* service, activateApp(), create(), list() and recoveryList() of tenants.service.ts).
THEOREM BillingIsTold == Spec => []BillingIsShown
<1>1. Init => FormedInv /\ TenantsInv
  <2> SUFFICES ASSUME Init PROVE FormedInv /\ TenantsInv
    OBVIOUS
  <2>1. FormedInv /\ timeline = << >> /\ done = << >> /\ \A h \in Handlers : req[h].at \notin TenantHands
    BY InitFormed, IdleFormed DEF Init, TenantsInit, TenantHands
  <2>2. DOMAIN timeline = {} /\ DOMAIN done = {} /\ mode.handlers \subseteq Handlers
    BY <2>1, BackOfficeAssumption DEF FormedInv
  <2>3. BooksInv /\ (\A h \in Handlers : Shown(req[h])) /\ WholeInv
    BY <2>1, <2>2, Calm DEF BooksInv, WholeInv, Changed, TenantHands
  <2>4. OrderInv
    BY <2>1, <2>2, Calm DEF OrderInv, Told, Times, TenantHands
  <2> QED BY <2>1, <2>3, <2>4 DEF TenantsInv
<1>2. FormedInv /\ TenantsInv /\ [Next]_vars => FormedInv' /\ TenantsInv'
  <2> SUFFICES ASSUME FormedInv, TenantsInv, [Next]_vars PROVE TenantsInv'
    BY NextFormed
  <2>1. CASE TenantsStep
    BY <2>1, TenantsStepKeeps
  <2>2. CASE ~TenantsStep
    <3>1. UNCHANGED <<mode, tenants, subs, timeline, done>> /\ (Kept(TenantHands) \/ Stopped)
      BY <2>2, NotTenants DEF clients
    <3> QED BY <3>1, TenantsSame
  <2> QED BY <2>1, <2>2
<1>3. FormedInv /\ TenantsInv => BillingIsShown
  <2> SUFFICES ASSUME FormedInv, TenantsInv PROVE BillingIsShown
    OBVIOUS
  <2>1. WhoOwesIsShown
    BY DEF WhoOwesIsShown, TenantsInv, Shown, At
  <2>2. Changed(timeline) \subseteq DOMAIN done
    BY DEF TenantsInv, BooksInv
  <2>3. Orderly => \E h : h \in mode.handlers /\ h \in Handlers
    <3>1. IsFiniteSet(mode.handlers)
      BY BackOfficeAssumption, FS_Subset DEF FormedInv
    <3> QED BY <3>1, FS_Singleton, BackOfficeAssumption DEF Orderly, FormedInv
  <2>4. ASSUME Orderly, NEW key \in Changed(timeline)
        PROVE  timeline[key] <= done[key]
    <3>1. PICK h : h \in mode.handlers
      BY <2>3, <2>4
    <3>2. key.did \in Changes /\ key \in DOMAIN timeline /\ key \in DOMAIN done
      BY <2>2, <2>4 DEF Changed
    <3>3. Told(req[h], key) <= Times(done, key) /\ timeline[key] \in Nat /\ done[key] \in Nat
      BY <2>4, <3>1, <3>2 DEF TenantsInv, OrderInv, BooksInv
    <3> QED BY <3>2, <3>3 DEF Told, Times
  <2>5. ASSUME Orderly, ~Interrupted, mode.faults \subseteq {"refused"}, \A h \in Handlers : req[h].at = "idle",
               NEW key \in DOMAIN done
        PROVE  key \in DOMAIN timeline /\ timeline[key] = done[key]
    <3>1. PICK h : h \in mode.handlers /\ h \in Handlers
      BY <2>3, <2>5
    <3>2. Faithful /\ key.did \in Changes /\ done[key] \in Nat \ {0}
      BY <2>5 DEF Faithful, TenantsInv, BooksInv
    <3>3. ~Owes(req[h], key)
      BY <2>5, <3>1, OwesNothing
    <3>4. /\ Times(timeline, key) + 0 <= done[key]
          /\ Times(timeline, key) + 0 >= done[key]
      BY <2>5, <3>1, <3>2, <3>3 DEF TenantsInv, OrderInv, WholeInv, Told, Times
    <3>5. Times(timeline, key) \in Nat
      BY DEF TenantsInv, BooksInv, Times
    <3>6. Times(timeline, key) = done[key]
      BY <3>2, <3>4, <3>5
    <3>7. key \in DOMAIN timeline
      BY <3>2, <3>6 DEF Times
    <3> QED BY <3>6, <3>7 DEF Times
  <2>6. TimelineTellsBilling
    BY <2>2, <2>4, <2>5, Zenon DEF TimelineTellsBilling
  <2> QED BY <2>1, <2>6 DEF BillingIsShown
<1> QED BY <1>1, <1>2, <1>3, PTL DEF Spec

-----------------------------------------------------------------------------
(***************************************************************************)
(* Somebody stays an owner, and the rows tell what Keycloak grants.  The   *)
(* invariant says what the one request in flight has read and still finds: *)
(* the row as it was saved, the level it had, what the account held; which *)
(* row it has saved and not synchronised; and that every role has a row.   *)
(***************************************************************************)
Updates == {"count", "save", "find", "assign", "unassign", "rollback"}
Synchronises == {"find", "assign", "unassign", "rollback"}
Fills == {"look", "resolve"}
Lists == {"list", "create"}
Invites == {"insert", "provision", "grant"}
Removes == {"countRemoved", "delete"}
Hands == Updates \cup Fills \cup Lists \cup Invites \cup Removes

\* What a request of the team holds.
HandTyped(r) ==
    /\ r.at \in Updates => "update" \in mode.calls /\ r.row \in Person /\ r.from \in Level \cup {None}
    /\ r.at \in Synchronises => r.row.access \in Level
    /\ r.at \in {"count", "save"} /\ r.changes => r.row.access \in Level
    /\ r.at \in Fills => "backfill" \in mode.calls /\ \A i \in DOMAIN r.rows : r.rows[i] \in Person
    /\ r.at = "resolve" => r.id \in DOMAIN r.rows /\ r.level \in Level
    /\ r.at \in Lists => "missing" \in mode.calls /\ \A e \in DOMAIN r.found : e \in Emails /\ r.found[e] \in Level
    /\ r.at = "list" => r.next \in DOMAIN Levels
    /\ r.at \in Removes => "remove" \in mode.calls
    /\ r.at \in Invites => "invite" \in mode.calls /\ r.row \in Person /\ r.row.access \in Level

People(table) ==
    /\ IsFiniteSet(DOMAIN table)
    /\ \A id \in DOMAIN table : table[id] \in Person
    /\ \A i, j \in DOMAIN table : table[i].email = table[j].email => i = j

Realm(realm) == \A e \in DOMAIN realm : e \in Emails /\ realm[e] \subseteq Level

TeamTyped == People(members) /\ Realm(accounts) /\ \A h \in Handlers : HandTyped(req[h])

\* Another owner than this row, if there was one to begin with.
Founded == \E id \in DOMAIN mode.members : mode.members[id].access = Owner

Beside(table, id) == Founded => \E o \in DOMAIN table \ {id} : table[o].access = Owner

\* The rows have the keys their addresses give.
Derives == mode.calls \cap {"invite", "missing"} # {}

OwnerHand(r, table) ==
    /\ r.at = "count" => r.from = Owner
    /\ r.at = "save" => r.row.access = Owner \/ Beside(table, r.id)
    /\ r.at \in {"save"} \cup Synchronises => r.from = Owner \/ Beside(table, r.id)
    /\ r.at \in Updates /\ Derives => DeriveId(r.row.email) = r.id
    /\ r.at \in Fills => \A i \in DOMAIN r.rows : i \in DOMAIN table /\ table[i].access # Owner
    /\ r.at \in Fills /\ Derives => \A i \in DOMAIN r.rows : DeriveId(r.rows[i].email) = i
    /\ r.at = "delete" => Beside(table, r.id)
    /\ r.at \in Lists => \A i \in DOMAIN table : table[i].email \in r.known
    /\ r.at \in Invites => r.id = DeriveId(r.row.email)
    /\ r.at = "insert" => \A i \in DOMAIN table : table[i].email # r.row.email

\* Somebody is an owner, and what the one request in flight holds keeps it so.
Owned(r, table) ==
    /\ Founded => \E o \in DOMAIN table : table[o].access = Owner
    /\ Derives => \A id \in DOMAIN table : DeriveId(table[id].email) = id
    /\ OwnerHand(r, table)

\* What an account held before a request changes it.
Had(r, level, realm) == r.row.email \in DOMAIN realm => realm[r.row.email] = IF level = None THEN {} ELSE {level}

ToldHand(r, table, realm) ==
    /\ r.at \in {"count", "save"} => /\ r.id \in DOMAIN table /\ table[r.id] = [r.row EXCEPT !.access = r.from]
                                     /\ r.changes = (r.row.access # r.from)
    /\ r.at \in Synchronises => r.id \in DOMAIN table /\ table[r.id] = r.row /\ r.row.access # r.from
    /\ r.at \in {"find", "assign", "rollback"} \/ (r.at \in {"count", "save"} /\ r.changes) => Had(r, r.from, realm)
    /\ r.at \in {"assign", "unassign", "grant"} => r.row.email \in DOMAIN realm
    /\ r.at = "unassign" => r.from # None /\ realm[r.row.email] = {r.from, r.row.access}
    /\ r.at \in Fills => \A i \in DOMAIN r.rows : i \in DOMAIN table /\ table[i] = r.rows[i] /\ r.rows[i].access = None
    /\ r.at = "resolve" => LET email == r.rows[r.id].email
                           IN  email \in DOMAIN realm /\ Highest(realm[email]) = r.level
    /\ r.at \in Lists => \A e \in DOMAIN r.found :
                           /\ e \in DOMAIN realm /\ r.found[e] \in realm[e]
                           /\ \A l \in realm[e] : Rank(l) <= Rank(r.found[e])
    /\ r.at = "list" => \A e \in DOMAIN realm \ DOMAIN r.found : \A l \in realm[e] : Rank(l) <= r.next
    /\ r.at \in Invites => Had(r, None, realm)
    /\ r.at \in {"provision", "grant"} => r.id \in DOMAIN table /\ table[r.id] = r.row

\* The row a request has saved and not synchronised, the account it gave a second role.
Saved(r) == IF r.at \in Synchronises \cup {"provision", "grant"} THEN {r.id} ELSE {}
Doubled(r) == IF r.at = "unassign" THEN {r.row.email} ELSE {}

RowsTold(table, realm, but) == \A id \in DOMAIN table \ but : Tells(table[id], realm)

OneRole(realm, but) == "update" \in mode.calls => \A e \in DOMAIN realm \ but : \A q, l \in realm[e] : q = l

\* Who holds a role has a row that tells one, or that a backfill fills.
Covered(table, realm) ==
    mode.calls = {"missing"} \/ \A e \in DOMAIN realm : realm[e] # {} =>
      \E id \in DOMAIN table : table[id].email = e /\ (table[id].access = None => mode.calls = {"backfill"})

Governed(r, table, realm) ==
    /\ RowsTold(table, realm, Saved(r)) /\ OneRole(realm, Doubled(r)) /\ Covered(table, realm)
    /\ ToldHand(r, table, realm)

TeamInv ==
    /\ TeamTyped
    /\ Orderly /\ KeysDistinct => \A h \in mode.handlers :
         Owned(req[h], members) /\ (Trusted => Governed(req[h], members, accounts))

-----------------------------------------------------------------------------
(* The levels and the strongest of some *)

LEMMA LevelFacts ==
  /\ Owner \in Level /\ None \notin Level /\ Keep \notin Level /\ None # Keep
  /\ None \notin Emails /\ Keep \notin Emails
  /\ Len(Levels) \in Nat /\ DOMAIN Levels = 1..Len(Levels) /\ Len(Levels) \in DOMAIN Levels
  /\ \A i \in DOMAIN Levels : Levels[i] \in Level /\ Rank(Levels[i]) = i
  /\ \A l \in Level : Rank(l) \in DOMAIN Levels /\ Levels[Rank(l)] = l
<1>1. \A i, j \in DOMAIN Levels : Levels[i] = Levels[j] => i = j
  BY SessionAssumption
<1>2. ASSUME NEW i \in DOMAIN Levels
      PROVE  Levels[i] \in Level /\ Rank(Levels[i]) = i
  BY <1>1 DEF Level, Rank
<1>3. \A l \in Level : Rank(l) \in DOMAIN Levels /\ Levels[Rank(l)] = l
  BY <1>2 DEF Level
<1> QED BY <1>2, <1>3, SessionAssumption DEF Owner

\* The strongest of some levels is the one that no other outranks.
LEMMA HighestIs ==
  ASSUME NEW roles, roles \subseteq Level, NEW l \in roles, \A q \in roles : Rank(q) <= Rank(l)
  PROVE  Highest(roles) = l
<1>1. ASSUME NEW r \in roles, \A q \in roles : Rank(q) <= Rank(r)
      PROVE  r = l
  <2>1. Rank(r) <= Rank(l) /\ Rank(l) <= Rank(r) /\ Rank(r) \in Nat /\ Rank(l) \in Nat
    BY <1>1, LevelFacts
  <2>2. Rank(r) = Rank(l)
    BY <2>1
  <2> QED BY <2>2, LevelFacts
<1> QED BY <1>1 DEF Highest

LEMMA HighestOfOne == \A l \in Level : Highest({l}) = l
<1> SUFFICES ASSUME NEW l \in Level PROVE Highest({l}) = l
  OBVIOUS
<1>1. Rank(l) <= Rank(l)
  BY LevelFacts
<1> QED BY <1>1, HighestIs

LEMMA HighestOfSome ==
  ASSUME NEW roles, roles \subseteq Level, roles # {}
  PROVE  Highest(roles) \in roles /\ \A q \in roles : Rank(q) <= Rank(Highest(roles))
<1> DEFINE Below == {Len(Levels) - Rank(l) : l \in roles}
           Less == OpToRel(<, Nat)
<1>1. \A l \in roles : Rank(l) \in Nat /\ Len(Levels) \in Nat /\ Len(Levels) - Rank(l) \in Nat
  BY LevelFacts
<1>2. Below \subseteq Nat /\ Below # {}
  BY <1>1
<1>3. IsWellFoundedOn(Less, Nat) /\ \A x, y \in Nat : y < x => <<y, x>> \in Less
  BY NatLessThanWellFounded DEF OpToRel
<1> HIDE DEF Less
<1>4. PICK x \in Below : \A y \in Below : ~(y < x)
  <2> HIDE DEF Below
  <2>1. PICK x \in Below : \A y \in Below : ~(<<y, x>> \in Less)
    BY <1>2, <1>3, WFMin
  <2> QED BY <1>2, <1>3, <2>1
<1>5. PICK l \in roles : x = Len(Levels) - Rank(l)
  OBVIOUS
<1>6. \A q \in roles : Rank(q) <= Rank(l)
  <2> SUFFICES ASSUME NEW q \in roles PROVE Rank(q) <= Rank(l)
    OBVIOUS
  <2>1. ~(Len(Levels) - Rank(q) < Len(Levels) - Rank(l))
    BY <1>4, <1>5
  <2> QED BY <1>1, <2>1
<1>7. Highest(roles) = l
  BY <1>6, HighestIs
<1> QED BY <1>6, <1>7

LEMMA HighestOfNone == Highest({}) = None
  BY DEF Highest

-----------------------------------------------------------------------------
(* The rows, the accounts and the request in flight *)

LEMMA WithIs ==
  ASSUME NEW table, NEW id, NEW row
  PROVE  /\ DOMAIN With(table, id, row) = DOMAIN table \cup {id} /\ With(table, id, row)[id] = row
         /\ \A k \in DOMAIN table : k # id => With(table, id, row)[k] = table[k]
  BY DEF With

\* A row saved under an address that no other has.
LEMMA PersonSaved ==
  ASSUME NEW table, People(table), NEW id, NEW row \in Person,
         \A other \in DOMAIN table \ {id} : table[other].email # row.email
  PROVE  People(With(table, id, row))
<1>1. PICK new : new = With(table, id, row)
  OBVIOUS
<1>2. /\ DOMAIN new = DOMAIN table \cup {id} /\ new[id] = row
      /\ \A k \in DOMAIN table : k # id => new[k] = table[k]
  BY <1>1 DEF With
<1>3. IsFiniteSet(DOMAIN new)
  BY <1>2, FS_AddElement DEF People
<1>4. \A k \in DOMAIN new : new[k] \in Person
  BY <1>2 DEF People
<1>5. \A i, j \in DOMAIN new : new[i].email = new[j].email => i = j
  BY <1>2 DEF People
<1> QED BY <1>1, <1>3, <1>4, <1>5 DEF People

LEMMA RealmChanges ==
  ASSUME NEW realm, Realm(realm), NEW e, NEW roles, e \in DOMAIN realm => roles \subseteq Level
  PROVE  /\ Realm([realm EXCEPT ![e] = roles]) /\ DOMAIN [realm EXCEPT ![e] = roles] = DOMAIN realm
         /\ \A f \in DOMAIN realm : [realm EXCEPT ![e] = roles][f] = IF f = e THEN roles ELSE realm[f]
  BY DEF Realm

\* What the mode says of the conditions.
LEMMA ModeGoverns ==
  ASSUME mode' = mode
  PROVE  /\ (Orderly /\ KeysDistinct)' <=> Orderly /\ KeysDistinct
         /\ Trusted' <=> Trusted
         /\ \A r : HandTyped(r)' <=> HandTyped(r)
         /\ \A r, table : Owned(r, table)' <=> Owned(r, table)
         /\ \A r, table, realm : Governed(r, table, realm)' <=> Governed(r, table, realm)
<1>1. (Orderly /\ KeysDistinct)' <=> Orderly /\ KeysDistinct
  BY DEF Orderly, KeysDistinct, DeriveId, Renames
<1>2. Trusted' <=> Trusted
  BY DEF Trusted, Agreed, Renames, KeysDistinct, NothingUnseen, OneRoleEach, DeriveId, Lost, Interrupted, Refused
<1>3. \A r : HandTyped(r)' <=> HandTyped(r)
  BY DEF HandTyped
<1>4. \A r, table : Owned(r, table)' <=> Owned(r, table)
  <2>1. Founded' <=> Founded
    BY DEF Founded
  <2>2. (Derives' <=> Derives) /\ \A e : DeriveId(e)' = DeriveId(e)
    BY DEF Derives, DeriveId
  <2>3. \A r, table : OwnerHand(r, table)' <=> OwnerHand(r, table)
    BY <2>1, <2>2 DEF OwnerHand, Beside
  <2> QED BY <2>1, <2>2, <2>3 DEF Owned
<1>5. \A r, table, realm : Governed(r, table, realm)' <=> Governed(r, table, realm)
  BY DEF Governed, RowsTold, OneRole, Covered, ToldHand, Had, Saved, Doubled
<1> QED BY <1>1, <1>2, <1>3, <1>4, <1>5

\* The one request in flight.
LEMMA OnlyHandler ==
  ASSUME FormedInv, Orderly
  PROVE  \E h \in Handlers : mode.handlers = {h}
<1>1. IsFiniteSet(mode.handlers) /\ mode.handlers \subseteq Handlers
  BY BackOfficeAssumption, FS_Subset DEF FormedInv
<1> QED BY <1>1, FS_Singleton DEF Orderly

LEMMA TeamBefore ==
  ASSUME FormedInv, TeamInv, NEW h \in Handlers, At(h, "idle") => h \in mode.handlers
  PROVE  /\ h \in mode.handlers /\ HandTyped(req[h])
         /\ Orderly /\ KeysDistinct => Owned(req[h], members)
         /\ Orderly /\ KeysDistinct /\ Trusted => Governed(req[h], members, accounts)
  BY DEF FormedInv, TeamInv, TeamTyped, At

LEMMA TeamAfter ==
  ASSUME FormedInv, TeamInv, NEW h \in Handlers, At(h, "idle") => h \in mode.handlers, NEW n, Awaits(h, n),
         People(members'), Realm(accounts'), HandTyped(n),
         Orderly /\ KeysDistinct => Owned(n, members'),
         Orderly /\ KeysDistinct /\ Trusted => Governed(n, members', accounts')
  PROVE  TeamInv'
<1>1. mode' = mode /\ \A g \in Handlers : req'[g] = IF g = h THEN n ELSE req[g]
  BY Shifts
<1>2. TeamTyped'
  BY <1>1, ModeGoverns DEF TeamTyped, TeamInv, People, Realm
<1>3. h \in mode.handlers
  BY TeamBefore
<1>4. ASSUME Orderly, KeysDistinct, NEW g \in mode.handlers
      PROVE  Owned(req'[g], members') /\ (Trusted => Governed(req'[g], members', accounts'))
  <2>1. g = h
    BY <1>3, <1>4, OnlyHandler
  <2> QED BY <1>1, <1>4, <2>1
<1>5. (Orderly /\ KeysDistinct => \A g \in mode.handlers :
         Owned(req[g], members) /\ (Trusted => Governed(req[g], members, accounts)))'
  BY <1>1, <1>4, ModeGoverns
<1> QED BY <1>2, <1>5 DEF TeamInv

\* A request that ends, or goes on, with everything at rest.
LEMMA IdleRests ==
  \A table, realm :
    /\ HandTyped(Idle) /\ OwnerHand(Idle, table) /\ ToldHand(Idle, table, realm)
    /\ Saved(Idle) = {} /\ Doubled(Idle) = {}
<1>1. Idle.at \notin Hands
  BY IdleFormed DEF Hands, Updates, Fills, Lists, Invites, Removes
<1>2. HandTyped(Idle)
  BY <1>1 DEF HandTyped, Hands, Updates, Fills, Lists, Invites, Removes, Synchronises
<1>3. \A table, realm : OwnerHand(Idle, table) /\ ToldHand(Idle, table, realm)
  BY <1>1 DEF OwnerHand, ToldHand, Hands, Updates, Fills, Lists, Invites, Removes, Synchronises
<1> QED BY <1>1, <1>2, <1>3 DEF Saved, Doubled, Hands, Updates, Invites, Synchronises

-----------------------------------------------------------------------------
(* What keeps the parts of it *)

LEMMA OwnedIdle ==
  ASSUME NEW r, NEW table, Owned(r, table)
  PROVE  Owned(Idle, table)
  BY IdleRests DEF Owned

LEMMA GovernedIdle ==
  ASSUME NEW r, NEW table, NEW realm, Governed(r, table, realm), Saved(r) = {}, Doubled(r) = {}
  PROVE  Governed(Idle, table, realm)
  BY IdleRests DEF Governed

\* A request that ends and leaves the tables alone.
LEMMA TeamEnds ==
  ASSUME FormedInv, TeamInv, NEW h \in Handlers, Ends(h), UNCHANGED team, ~At(h, "idle"),
         req[h].at \in Synchronises \cup {"provision", "grant"} => ~(Orderly /\ KeysDistinct /\ Trusted)
  PROVE  TeamInv'
<1>1. members' = members /\ accounts' = accounts /\ People(members) /\ Realm(accounts) /\ HandTyped(Idle)
  BY IdleRests DEF team, TeamInv, TeamTyped
<1>2. Orderly /\ KeysDistinct => Owned(Idle, members)
  BY TeamBefore, OwnedIdle
<1>3. Orderly /\ KeysDistinct /\ Trusted => Governed(Idle, members, accounts)
  <2> SUFFICES ASSUME Orderly, KeysDistinct, Trusted PROVE Governed(Idle, members, accounts)
    OBVIOUS
  <2>1. Saved(req[h]) = {} /\ Doubled(req[h]) = {}
    BY DEF Saved, Doubled, Synchronises
  <2> QED BY <2>1, TeamBefore, GovernedIdle
<1> QED BY <1>1, <1>2, <1>3, TeamAfter DEF Ends

\* More than one owner: another one.
LEMMA AnotherOwner ==
  ASSUME People(members), ~(Cardinality(Owners) <= 1), NEW id
  PROVE  \E o \in DOMAIN members \ {id} : members[o].access = Owner
<1> SUFFICES ASSUME \A o \in DOMAIN members \ {id} : members[o].access # Owner
             PROVE  FALSE
  OBVIOUS
<1>1. Owners \in SUBSET {id}
  BY DEF Owners
<1>2. IsFiniteSet({id}) /\ Cardinality({id}) = 1
  BY FS_Singleton
<1>3. Cardinality(Owners) <= 1
  BY <1>1, <1>2, FS_Subset
<1> QED BY <1>3

\* What the account of a row held before update() changes it.
LEMMA HeldBefore ==
  ASSUME People(members), Realm(accounts), "update" \in mode.calls, NEW id \in DOMAIN members,
         RowsTold(members, accounts, {}), OneRole(accounts, {}), Covered(members, accounts),
         members[id].email \in DOMAIN accounts
  PROVE  accounts[members[id].email] = IF members[id].access = None THEN {} ELSE {members[id].access}
<1>1. PICK roles : roles = accounts[members[id].email]
  OBVIOUS
<1>2. roles \subseteq Level /\ \A q, l \in roles : q = l
  BY <1>1 DEF Realm, OneRole
<1>3. CASE members[id].access = None
  <2>1. mode.calls # {"missing"} /\ mode.calls # {"backfill"}
    OBVIOUS
  <2>2. roles # {} => \E other \in DOMAIN members : members[other].email = members[id].email /\ members[other].access # None
    BY <1>1, <2>1 DEF Covered
  <2> QED BY <1>1, <1>3, <2>2 DEF People
<1>4. CASE members[id].access # None
  <2>1. Highest(roles) = members[id].access
    BY <1>1, <1>4 DEF RowsTold, Tells
  <2>2. roles # {}
    BY <1>4, <2>1, HighestOfNone
  <2>3. PICK l : roles = {l}
    BY <1>2, <2>2
  <2> QED BY <1>1, <1>2, <1>4, <2>1, <2>3, HighestOfOne
<1> QED BY <1>3, <1>4

-----------------------------------------------------------------------------
(* update() *)

LEMMA UpdateStep ==
  ASSUME FormedInv, TeamInv, NEW h \in Handlers, NEW id \in DOMAIN members, NEW body \in mode.patches, NEW actor,
         UpdateMember(h, id, body.email, body.access, actor)
  PROVE  TeamInv'
<1>1. PICK m : m = members[id] /\ m \in Person
  BY DEF TeamInv, TeamTyped, People
<1>2. PICK row : row = [email |-> Given(body.email, m.email), access |-> Given(body.access, m.access)]
  OBVIOUS
<1>3. PICK demotes, changes : /\ demotes = (body.access # Keep /\ body.access # m.access /\ m.access = Owner)
                              /\ changes = (body.access # Keep /\ body.access # m.access)
  OBVIOUS
<1>4. PICK n : n = [at |-> IF demotes THEN "count" ELSE "save", id |-> id, row |-> row, from |-> m.access, changes |-> changes]
  OBVIOUS
<1>5. Awaits(h, n) /\ UNCHANGED team /\ "update" \in mode.calls /\ h \in mode.handlers /\ At(h, "idle")
  BY <1>1, <1>2, <1>3, <1>4 DEF UpdateMember, Called, MayStart, At
<1>6. body.email \in Emails \cup {Keep} /\ body.access \in Level \cup {Keep} /\ row \in Person
  <2>1. body.email \in Emails \cup {Keep} /\ body.access \in Level \cup {Keep}
    BY BackOfficeAssumption DEF FormedInv
  <2> QED BY <1>1, <1>2, <2>1 DEF Person, Given
<1>7. /\ n.at \in {"count", "save"} /\ n.id = id /\ n.row = row /\ n.from = m.access /\ n.changes = changes
      /\ n.at = "count" <=> demotes
  BY <1>4
<1>8. m.email \in Emails /\ m.access \in Level \cup {None}
  BY <1>1 DEF Person
<1>9. changes = (row.access # m.access) /\ (changes => row.access \in Level) /\ (demotes => m.access = Owner)
  BY <1>2, <1>3, <1>6, <1>8, LevelFacts DEF Given
<1>10. HandTyped(n)
  BY <1>5, <1>6, <1>7, <1>8, <1>9 DEF HandTyped, Updates, Synchronises, Fills, Lists, Invites, Removes
<1>11. ASSUME Orderly, KeysDistinct
       PROVE  Owned(n, members)
  <2>1. Owned(req[h], members)
    BY <1>5, <1>11, TeamBefore
  <2>2. m.access # Owner => Beside(members, id)
    BY <1>1, <2>1 DEF Owned, Beside
  <2>3. ~demotes /\ m.access = Owner => row.access = Owner
    BY <1>2, <1>3 DEF Given
  <2>4. Derives => DeriveId(row.email) = id
    <3> SUFFICES ASSUME Derives PROVE DeriveId(row.email) = id
      OBVIOUS
    <3>1. body.email = Keep
      BY <1>11 DEF Derives, KeysDistinct, Renames
    <3>2. row.email = m.email
      BY <1>2, <3>1 DEF Given
    <3> QED BY <1>1, <2>1, <3>2 DEF Owned
  <2>5. OwnerHand(n, members)
    BY <1>7, <1>9, <2>2, <2>3, <2>4 DEF OwnerHand, Updates, Synchronises, Fills, Lists, Invites
  <2> QED BY <2>1, <2>5 DEF Owned
<1>12. ASSUME Orderly, KeysDistinct, Trusted
       PROVE  Governed(n, members, accounts)
  <2>1. Governed(req[h], members, accounts) /\ Saved(req[h]) = {} /\ Doubled(req[h]) = {}
    BY <1>5, <1>12, TeamBefore DEF Saved, Doubled, At, Synchronises
  <2>2. row.email = m.email
    BY <1>2, <1>12 DEF Trusted, Renames, Given
  <2>3. [row EXCEPT !.access = m.access] = m
    BY <1>1, <1>2, <2>2 DEF Person
  <2>4. Had(n, m.access, accounts)
    BY <1>1, <1>5, <1>7, <2>1, <2>2, HeldBefore DEF Had, Governed, TeamInv, TeamTyped
  <2>5. ToldHand(n, members, accounts)
    BY <1>1, <1>7, <1>9, <2>3, <2>4 DEF ToldHand, Synchronises, Fills, Lists, Invites
  <2>6. Saved(n) = {} /\ Doubled(n) = {}
    BY <1>7 DEF Saved, Doubled, Synchronises
  <2> QED BY <2>1, <2>5, <2>6 DEF Governed
<1> QED BY <1>5, <1>10, <1>11, <1>12, TeamAfter DEF TeamInv, TeamTyped, team

LEMMA CountStep ==
  ASSUME FormedInv, TeamInv, NEW h \in Handlers, CountOwners(h)
  PROVE  TeamInv'
<1>1. PICK r : r = req[h]
  OBVIOUS
<1>2. r.at = "count" /\ DOMAIN r = {"at", "id", "row", "from", "changes"} /\ UNCHANGED team
  BY <1>1 DEF FormedInv, CountOwners, At, Formed
<1>3. CASE Ends(h)
  BY <1>1, <1>2, <1>3, TeamEnds DEF At, Synchronises
<1>4. CASE ~(Cardinality(Owners) <= 1) /\ Awaits(h, [r EXCEPT !.at = "save"])
  <2>1. PICK n : n = [r EXCEPT !.at = "save"]
    OBVIOUS
  <2>2. n.at = "save" /\ n.id = r.id /\ n.row = r.row /\ n.from = r.from /\ n.changes = r.changes
    BY <1>2, <2>1
  <2>3. HandTyped(r) /\ People(members) /\ Realm(accounts)
    BY <1>1, TeamBefore, <1>2 DEF TeamInv, TeamTyped, At
  <2>4. HandTyped(n)
    BY <1>2, <2>2, <2>3 DEF HandTyped, Updates, Synchronises, Fills, Lists, Invites, Removes
  <2>5. ASSUME Orderly, KeysDistinct
        PROVE  Owned(n, members)
    <3>1. Owned(r, members)
      BY <1>1, <1>2, <2>5, TeamBefore DEF At
    <3>2. Beside(members, n.id)
      BY <1>4, <2>3, AnotherOwner DEF Beside
    <3>3. OwnerHand(n, members)
      BY <1>2, <2>2, <3>1, <3>2 DEF Owned, OwnerHand, Updates, Synchronises, Fills, Lists, Invites
    <3> QED BY <3>1, <3>3 DEF Owned
  <2>6. ASSUME Orderly, KeysDistinct, Trusted
        PROVE  Governed(n, members, accounts)
    <3>1. Governed(r, members, accounts)
      BY <1>1, <1>2, <2>6, TeamBefore DEF At
    <3>2. ToldHand(n, members, accounts)
      BY <1>2, <2>2, <3>1 DEF Governed, ToldHand, Had, Synchronises, Fills, Lists, Invites
    <3>3. Saved(r) = {} /\ Doubled(r) = {} /\ Saved(n) = {} /\ Doubled(n) = {}
      BY <1>2, <2>2 DEF Saved, Doubled, Synchronises
    <3> QED BY <3>1, <3>2, <3>3 DEF Governed
  <2> QED BY <1>1, <1>2, <1>4, <2>1, <2>3, <2>4, <2>5, <2>6, TeamAfter DEF At, team
<1> QED BY <1>1, <1>3, <1>4 DEF CountOwners

LEMMA SaveStep ==
  ASSUME FormedInv, TeamInv, NEW h \in Handlers, SaveMember(h)
  PROVE  TeamInv'
<1>1. PICK r : r = req[h]
  OBVIOUS
<1>2. r.at = "save" /\ DOMAIN r = {"at", "id", "row", "from", "changes"} /\ UNCHANGED accounts
  BY <1>1 DEF FormedInv, SaveMember, At, Formed
<1>3. HandTyped(r) /\ People(members) /\ Realm(accounts) /\ r.row \in Person
  BY <1>1, TeamBefore, <1>2 DEF TeamInv, TeamTyped, At, HandTyped, Updates
<1>4. CASE ~EmailFree(r.id, r.row.email)
  <2>1. Ends(h) /\ UNCHANGED team
    BY <1>1, <1>2, <1>4 DEF SaveMember, team
  <2> QED BY <1>1, <1>2, <2>1, TeamEnds DEF At, Synchronises
<1>5. CASE EmailFree(r.id, r.row.email)
  <2>1. PICK table : table = With(members, r.id, r.row)
    OBVIOUS
  <2>2. /\ members' = table /\ DOMAIN table = DOMAIN members \cup {r.id} /\ table[r.id] = r.row
        /\ \A k \in DOMAIN members : k # r.id => table[k] = members[k]
    BY <1>1, <1>5, <2>1 DEF SaveMember, With
  <2>3. People(table)
    BY <1>3, <1>5, <2>1, PersonSaved DEF EmailFree
  <2>4. PICK n : n = IF r.changes /\ mode.configured THEN [r EXCEPT !.at = "find"] ELSE Idle
    OBVIOUS
  <2>5. Awaits(h, n)
    BY <1>1, <1>5, <2>4 DEF SaveMember, Ends
  <2>6. \/ n = Idle /\ ~(r.changes /\ mode.configured)
        \/ /\ n.at = "find" /\ n.id = r.id /\ n.row = r.row /\ n.from = r.from /\ n.changes = r.changes
           /\ r.changes
    BY <1>2, <2>4
  <2>7. HandTyped(n)
    BY <1>2, <1>3, <2>6, IdleRests DEF HandTyped, Updates, Synchronises, Fills, Lists, Invites, Removes
  <2>8. ASSUME Orderly, KeysDistinct
        PROVE  Owned(n, table)
    <3>1. Owned(r, members)
      BY <1>1, <1>2, <2>8, TeamBefore DEF At
    <3>2. /\ r.row.access = Owner \/ Beside(members, r.id)
          /\ r.from = Owner \/ Beside(members, r.id)
          /\ Derives => DeriveId(r.row.email) = r.id
      BY <1>2, <3>1 DEF Owned, OwnerHand, Updates
    <3>3. Beside(members, r.id) => Beside(table, r.id)
      BY <2>2 DEF Beside
    <3>4. Founded => \E o \in DOMAIN table : table[o].access = Owner
      BY <2>2, <3>2, <3>3 DEF Beside
    <3>5. Derives => \A id \in DOMAIN table : DeriveId(table[id].email) = id
      BY <2>2, <3>1, <3>2 DEF Owned
    <3>6. OwnerHand(n, table)
      BY <2>6, <3>2, <3>3, IdleRests DEF OwnerHand, Updates, Synchronises, Fills, Lists, Invites
    <3> QED BY <3>4, <3>5, <3>6 DEF Owned
  <2>9. ASSUME Orderly, KeysDistinct, Trusted
        PROVE  Governed(n, table, accounts)
    <3>1. Governed(r, members, accounts) /\ Saved(r) = {} /\ Doubled(r) = {}
      BY <1>1, <1>2, <2>9, TeamBefore DEF At, Saved, Doubled, Synchronises
    <3>2. /\ r.id \in DOMAIN members /\ members[r.id] = [r.row EXCEPT !.access = r.from]
          /\ r.changes = (r.row.access # r.from) /\ (r.changes => Had(r, r.from, accounts))
      BY <1>2, <3>1 DEF Governed, ToldHand
    <3>3. members[r.id].email = r.row.email /\ members[r.id].access = r.from /\ mode.configured
      BY <1>3, <2>9, <3>2 DEF Person, Trusted
    <3>4. CASE ~r.changes
      <4>1. members[r.id] = r.row
        BY <1>3, <3>2, <3>4 DEF Person
      <4>2. DOMAIN table = DOMAIN members /\ \A k \in DOMAIN members : table[k] = members[k]
        BY <2>2, <3>2, <4>1
      <4>3. RowsTold(table, accounts, {}) /\ Covered(table, accounts)
        BY <3>1, <4>2 DEF Governed, RowsTold, Covered
      <4> QED BY <2>6, <3>1, <3>4, <4>3, IdleRests DEF Governed
    <3>5. CASE r.changes
      <4>1. /\ n.at = "find" /\ n.id = r.id /\ n.row = r.row /\ n.from = r.from
            /\ r.row.access \in Level
        BY <1>2, <1>3, <2>6, <3>3, <3>5 DEF HandTyped
      <4>2. Saved(n) = {r.id} /\ Doubled(n) = {}
        BY <4>1 DEF Saved, Doubled, Synchronises
      <4>3. RowsTold(table, accounts, {r.id})
        BY <2>2, <3>1 DEF Governed, RowsTold
      <4>4. Covered(table, accounts)
        <5>1. r.row.access # None
          BY <4>1, LevelFacts
        <5>2. ASSUME NEW id \in DOMAIN members
              PROVE  /\ id \in DOMAIN table /\ table[id].email = members[id].email
                     /\ table[id].access = None => members[id].access = None
          BY <2>2, <3>3, <5>1
        <5>3. Covered(members, accounts)
          BY <3>1 DEF Governed
        <5> QED BY <5>2, <5>3 DEF Covered
      <4>5. ToldHand(n, table, accounts)
        BY <2>2, <3>2, <3>5, <4>1 DEF ToldHand, Had, Synchronises, Fills, Lists, Invites
      <4> QED BY <3>1, <4>2, <4>3, <4>4, <4>5 DEF Governed
    <3> QED BY <3>4, <3>5
  <2> QED BY <1>1, <1>2, <1>3, <2>2, <2>3, <2>5, <2>7, <2>8, <2>9, TeamAfter DEF At
<1> QED BY <1>4, <1>5

LEMMA FindStep ==
  ASSUME FormedInv, TeamInv, NEW h \in Handlers, FindUserByEmail(h)
  PROVE  TeamInv'
<1>1. PICK r : r = req[h]
  OBVIOUS
<1>2. r.at = "find" /\ DOMAIN r = {"at", "id", "row", "from", "changes"} /\ UNCHANGED team
  BY <1>1 DEF FormedInv, FindUserByEmail, At, Formed
<1>3. HandTyped(r) /\ People(members) /\ Realm(accounts)
  BY <1>1, TeamBefore, <1>2 DEF TeamInv, TeamTyped, At
<1>4. CASE Lost /\ Ends(h)
  BY <1>1, <1>2, <1>4, TeamEnds DEF At, Trusted, NothingUnseen
<1>5. ASSUME NEW at \in {"assign", "rollback"}, Awaits(h, [r EXCEPT !.at = at]),
             at = "assign" => r.row.email \in DOMAIN accounts
      PROVE  TeamInv'
  <2>1. PICK n : n = [r EXCEPT !.at = at]
    OBVIOUS
  <2>2. n.at = at /\ n.id = r.id /\ n.row = r.row /\ n.from = r.from /\ n.changes = r.changes
    BY <1>2, <2>1
  <2>3. HandTyped(n)
    BY <1>2, <1>3, <2>2 DEF HandTyped, Updates, Synchronises, Fills, Lists, Invites, Removes
  <2>4. ASSUME Orderly, KeysDistinct
        PROVE  Owned(n, members)
    <3>1. Owned(r, members)
      BY <1>1, <1>2, <2>4, TeamBefore DEF At
    <3>2. OwnerHand(n, members)
      BY <1>2, <2>2, <3>1 DEF Owned, OwnerHand, Updates, Synchronises, Fills, Lists, Invites
    <3> QED BY <3>1, <3>2 DEF Owned
  <2>5. ASSUME Orderly, KeysDistinct, Trusted
        PROVE  Governed(n, members, accounts)
    <3>1. Governed(r, members, accounts)
      BY <1>1, <1>2, <2>5, TeamBefore DEF At
    <3>2. ToldHand(n, members, accounts)
      BY <1>2, <1>5, <2>2, <3>1 DEF Governed, ToldHand, Had, Synchronises, Fills, Lists, Invites
    <3>3. Saved(n) = Saved(r) /\ Doubled(n) = Doubled(r)
      BY <1>2, <2>2 DEF Saved, Doubled, Synchronises
    <3> QED BY <3>1, <3>2, <3>3 DEF Governed
  <2> QED BY <1>1, <1>2, <1>3, <1>5, <2>1, <2>3, <2>4, <2>5, TeamAfter DEF At, team
<1> QED BY <1>1, <1>4, <1>5 DEF FindUserByEmail

\* A step that changes no row keeps what is owned.
LEMMA OwnedOn ==
  ASSUME NEW table, NEW r, NEW n, Owned(r, table), OwnerHand(n, table)
  PROVE  Owned(n, table)
  BY DEF Owned

\* The rows of other accounts than the one a step changes.
LEMMA OthersTold ==
  ASSUME People(members), NEW id \in DOMAIN members, NEW realm,
         \A e \in DOMAIN realm : e # members[id].email => e \in DOMAIN accounts /\ realm[e] = accounts[e],
         RowsTold(members, accounts, {id})
  PROVE  RowsTold(members, realm, {id})
<1>1. ASSUME NEW k \in DOMAIN members \ {id}, members[k].email \in DOMAIN realm
      PROVE  members[k].email \in DOMAIN accounts /\ realm[members[k].email] = accounts[members[k].email]
  BY <1>1 DEF People
<1> QED BY <1>1 DEF RowsTold, Tells

\* A row that tells the one role of its account completes them.
LEMMA Completed ==
  ASSUME NEW table, People(table), NEW id \in DOMAIN table, NEW realm, RowsTold(table, realm, {id}), Covered(table, realm),
         NEW level \in Level, table[id].access = level, OneRole(realm, {table[id].email}),
         table[id].email \in DOMAIN realm, realm[table[id].email] = {level}
  PROVE  Governed(Idle, table, realm)
<1>1. Tells(table[id], realm)
  BY HighestOfOne DEF Tells
<1>2. RowsTold(table, realm, {})
  BY <1>1 DEF RowsTold
<1>3. OneRole(realm, {})
  BY DEF OneRole
<1> QED BY <1>2, <1>3, IdleRests DEF Governed

LEMMA CoveredBy ==
  ASSUME Covered(members, accounts), NEW realm, NEW id \in DOMAIN members, members[id].access # None,
         \A e \in DOMAIN realm : e # members[id].email => e \in DOMAIN accounts /\ realm[e] = accounts[e]
  PROVE  Covered(members, realm)
<1>1. CASE mode.calls = {"missing"}
  BY <1>1 DEF Covered
<1>2. CASE mode.calls # {"missing"}
  <2>1. ASSUME NEW e \in DOMAIN realm, realm[e] # {}, e # members[id].email
        PROVE  \E k \in DOMAIN members : members[k].email = e /\ (members[k].access = None => mode.calls = {"backfill"})
    BY <1>2, <2>1 DEF Covered
  <2> QED BY <2>1 DEF Covered
<1> QED BY <1>1, <1>2

LEMMA AssignStep ==
  ASSUME FormedInv, TeamInv, NEW h \in Handlers, AssignRealmRole(h)
  PROVE  TeamInv'
<1>1. PICK r : r = req[h]
  OBVIOUS
<1>2. r.at = "assign" /\ DOMAIN r = {"at", "id", "row", "from", "changes"} /\ UNCHANGED members
  BY <1>1 DEF FormedInv, AssignRealmRole, At, Formed
<1>3. HandTyped(r) /\ People(members) /\ Realm(accounts) /\ r.row.access \in Level /\ r.from \in Level \cup {None}
  BY <1>1, TeamBefore, <1>2 DEF TeamInv, TeamTyped, At, HandTyped, Updates, Synchronises
<1>4. PICK granted : granted = Granted(r.row.email, r.row.access)
  OBVIOUS
<1>5. /\ Realm(granted) /\ DOMAIN granted = DOMAIN accounts
      /\ \A e \in DOMAIN accounts : granted[e] = IF e = r.row.email THEN accounts[e] \cup {r.row.access} ELSE accounts[e]
  <2>1. PICK roles : roles = accounts[r.row.email] \cup {r.row.access}
    OBVIOUS
  <2>2. r.row.email \in DOMAIN accounts => roles \subseteq Level
    BY <1>3, <2>1 DEF Realm
  <2>3. granted = [accounts EXCEPT ![r.row.email] = roles]
    BY <1>4, <2>1 DEF Granted
  <2>4. /\ Realm(granted) /\ DOMAIN granted = DOMAIN accounts
        /\ \A e \in DOMAIN accounts : granted[e] = IF e = r.row.email THEN roles ELSE accounts[e]
    BY <1>3, <2>2, <2>3, RealmChanges
  <2> QED BY <2>1, <2>4
<1>o. ASSUME Orderly, KeysDistinct
      PROVE  /\ Owned(r, members)
             /\ \A n : n.at \in {"unassign", "rollback"} /\ n.id = r.id /\ n.row = r.row /\ n.from = r.from => Owned(n, members)
  <2>1. Owned(r, members)
    BY <1>1, <1>2, <1>o, TeamBefore DEF At
  <2>2. ASSUME NEW n, n.at \in {"unassign", "rollback"}, n.id = r.id, n.row = r.row, n.from = r.from
        PROVE  OwnerHand(n, members)
    BY <1>2, <2>1, <2>2 DEF Owned, OwnerHand, Updates, Synchronises, Fills, Lists, Invites
  <2> QED BY <2>1, <2>2, OwnedOn
<1>g. ASSUME Orderly, KeysDistinct, Trusted
      PROVE  /\ RowsTold(members, accounts, {r.id}) /\ OneRole(accounts, {}) /\ Covered(members, accounts)
             /\ r.id \in DOMAIN members /\ members[r.id] = r.row /\ r.row.access # r.from
             /\ Had(r, r.from, accounts) /\ r.row.email \in DOMAIN accounts /\ ~Lost
  <2>1. Governed(r, members, accounts) /\ Saved(r) = {r.id} /\ Doubled(r) = {}
    BY <1>1, <1>2, <1>g, TeamBefore DEF At, Saved, Doubled, Synchronises
  <2> QED BY <1>2, <1>g, <2>1 DEF Governed, ToldHand, Synchronises, Trusted, NothingUnseen
<1>6. CASE accounts' = granted /\ r.from = None /\ Ends(h)
  <2>1. ASSUME Orderly, KeysDistinct, Trusted
        PROVE  Governed(Idle, members, granted)
    <3>1. granted[r.row.email] = {r.row.access}
      BY <1>5, <1>6, <1>g, <2>1 DEF Had
    <3>2. \A e \in DOMAIN granted : e # members[r.id].email => e \in DOMAIN accounts /\ granted[e] = accounts[e]
      BY <1>5, <1>g, <2>1
    <3>3. RowsTold(members, granted, {r.id})
      BY <1>3, <1>g, <2>1, <3>2, OthersTold
    <3>4. OneRole(granted, {r.row.email})
      BY <1>5, <1>g, <2>1 DEF OneRole
    <3>5. Covered(members, granted)
      BY <1>3, <1>g, <2>1, <3>2, LevelFacts, CoveredBy
    <3> QED BY <1>3, <1>5, <1>g, <2>1, <3>1, <3>3, <3>4, <3>5, Completed
  <2>2. Orderly /\ KeysDistinct => Owned(Idle, members)
    BY <1>o, OwnedIdle
  <2>3. Awaits(h, Idle) /\ People(members') /\ Realm(accounts') /\ HandTyped(Idle)
    BY <1>2, <1>3, <1>5, <1>6, IdleRests DEF Ends
  <2> QED BY <1>1, <1>2, <1>6, <2>1, <2>2, <2>3, TeamAfter DEF At
<1>7. CASE accounts' = granted /\ r.from # None /\ Awaits(h, [r EXCEPT !.at = "unassign"])
  <2>1. PICK n : n = [r EXCEPT !.at = "unassign"]
    OBVIOUS
  <2>2. n.at = "unassign" /\ n.id = r.id /\ n.row = r.row /\ n.from = r.from
    BY <1>2, <2>1
  <2>3. HandTyped(n)
    BY <1>2, <1>3, <2>2 DEF HandTyped, Updates, Synchronises, Fills, Lists, Invites, Removes
  <2>4. ASSUME Orderly, KeysDistinct, Trusted
        PROVE  Governed(n, members, granted)
    <3>1. granted[r.row.email] = {r.from, r.row.access} /\ r.row.email \in DOMAIN granted
      BY <1>5, <1>7, <1>g, <2>4 DEF Had
    <3>2. \A e \in DOMAIN granted : e # members[r.id].email => e \in DOMAIN accounts /\ granted[e] = accounts[e]
      BY <1>5, <1>g, <2>4
    <3>3. RowsTold(members, granted, {r.id})
      BY <1>3, <1>g, <2>4, <3>2, OthersTold
    <3>4. OneRole(granted, {r.row.email})
      BY <1>5, <1>g, <2>4 DEF OneRole
    <3>5. Covered(members, granted)
      BY <1>3, <1>g, <2>4, <3>2, LevelFacts, CoveredBy
    <3>6. ToldHand(n, members, granted)
      BY <1>7, <1>g, <2>2, <2>4, <3>1 DEF ToldHand, Synchronises, Fills, Lists, Invites
    <3>7. Saved(n) = {r.id} /\ Doubled(n) = {r.row.email}
      BY <2>2 DEF Saved, Doubled, Synchronises
    <3> QED BY <3>3, <3>4, <3>5, <3>6, <3>7 DEF Governed
  <2> QED BY <1>1, <1>2, <1>3, <1>5, <1>7, <1>o, <2>1, <2>2, <2>3, <2>4, TeamAfter DEF At
<1>8. CASE UNCHANGED accounts /\ Awaits(h, [r EXCEPT !.at = "rollback"])
  <2>1. PICK n : n = [r EXCEPT !.at = "rollback"]
    OBVIOUS
  <2>2. n.at = "rollback" /\ n.id = r.id /\ n.row = r.row /\ n.from = r.from
    BY <1>2, <2>1
  <2>3. HandTyped(n)
    BY <1>2, <1>3, <2>2 DEF HandTyped, Updates, Synchronises, Fills, Lists, Invites, Removes
  <2>4. ASSUME Orderly, KeysDistinct, Trusted
        PROVE  Governed(n, members, accounts)
    <3>1. ToldHand(n, members, accounts)
      BY <1>g, <2>2, <2>4 DEF ToldHand, Had, Synchronises, Fills, Lists, Invites
    <3>2. Saved(n) = {r.id} /\ Doubled(n) = {}
      BY <2>2 DEF Saved, Doubled, Synchronises
    <3> QED BY <1>g, <2>4, <3>1, <3>2 DEF Governed
  <2> QED BY <1>1, <1>2, <1>3, <1>8, <1>o, <2>1, <2>2, <2>3, <2>4, TeamAfter DEF At
<1>9. CASE Lost /\ accounts' \in {accounts, granted} /\ Ends(h)
  <2>1. Awaits(h, Idle) /\ People(members') /\ Realm(accounts') /\ HandTyped(Idle)
    BY <1>2, <1>3, <1>5, <1>9, IdleRests DEF Ends
  <2>2. Orderly /\ KeysDistinct => Owned(Idle, members)
    BY <1>o, OwnedIdle
  <2> QED BY <1>1, <1>2, <1>9, <1>g, <2>1, <2>2, TeamAfter DEF At
<1> QED BY <1>1, <1>4, <1>6, <1>7, <1>8, <1>9 DEF AssignRealmRole

LEMMA RemoveRoleStep ==
  ASSUME FormedInv, TeamInv, NEW h \in Handlers, RemoveRealmRole(h)
  PROVE  TeamInv'
<1>1. PICK r : r = req[h]
  OBVIOUS
<1>2. r.at = "unassign" /\ UNCHANGED members /\ Awaits(h, Idle)
  BY <1>1 DEF RemoveRealmRole, At, Ends
<1>3. HandTyped(r) /\ People(members) /\ Realm(accounts) /\ r.row.access \in Level
  BY <1>1, TeamBefore, <1>2 DEF TeamInv, TeamTyped, At, HandTyped, Synchronises
<1>4. PICK revoked : revoked = [accounts EXCEPT ![r.row.email] = @ \ {r.from}]
  OBVIOUS
<1>5. /\ Realm(revoked) /\ DOMAIN revoked = DOMAIN accounts
      /\ \A e \in DOMAIN accounts : revoked[e] = IF e = r.row.email THEN accounts[e] \ {r.from} ELSE accounts[e]
  <2>1. PICK roles : roles = accounts[r.row.email] \ {r.from}
    OBVIOUS
  <2>2. r.row.email \in DOMAIN accounts => roles \subseteq Level
    BY <1>3, <2>1 DEF Realm
  <2>3. revoked = [accounts EXCEPT ![r.row.email] = roles]
    BY <1>4, <2>1
  <2>4. PICK e : e = r.row.email
    OBVIOUS
  <2>5. /\ Realm([accounts EXCEPT ![e] = roles]) /\ DOMAIN [accounts EXCEPT ![e] = roles] = DOMAIN accounts
        /\ \A f \in DOMAIN accounts : [accounts EXCEPT ![e] = roles][f] = IF f = e THEN roles ELSE accounts[f]
    <3>1. e \in DOMAIN accounts => roles \subseteq Level
      BY <2>2, <2>4
    <3> QED BY <1>3, <3>1, RealmChanges
  <2> QED BY <2>1, <2>3, <2>4, <2>5
<1>6. accounts' = revoked \/ (accounts' = accounts /\ (Refused("remove") \/ Lost))
  BY <1>1, <1>4 DEF RemoveRealmRole
<1>7. Orderly /\ KeysDistinct => Owned(Idle, members)
  BY <1>1, <1>2, TeamBefore, OwnedIdle DEF At
<1>8. ASSUME Orderly, KeysDistinct, Trusted
      PROVE  Governed(Idle, members, accounts')
  <2>1. Governed(r, members, accounts) /\ Saved(r) = {r.id} /\ Doubled(r) = {r.row.email}
    BY <1>1, <1>2, <1>8, TeamBefore DEF At, Saved, Doubled, Synchronises
  <2>2. /\ r.id \in DOMAIN members /\ members[r.id] = r.row /\ r.row.access # r.from
        /\ r.row.email \in DOMAIN accounts /\ accounts[r.row.email] = {r.from, r.row.access}
    BY <1>2, <2>1 DEF Governed, ToldHand, Synchronises
  <2>3. accounts' = revoked
    BY <1>6, <1>8 DEF Trusted, NothingUnseen, Refused
  <2>4. revoked[r.row.email] = {r.row.access}
    BY <1>5, <2>2
  <2>5. \A e \in DOMAIN revoked : e # members[r.id].email => e \in DOMAIN accounts /\ revoked[e] = accounts[e]
    BY <1>5, <2>2
  <2>6. RowsTold(members, revoked, {r.id})
    BY <1>3, <2>1, <2>2, <2>5, OthersTold DEF Governed
  <2>7. OneRole(revoked, {r.row.email})
    BY <1>5, <2>1 DEF OneRole, Governed
  <2>8. Covered(members, revoked)
    BY <1>3, <2>1, <2>2, <2>5, LevelFacts, CoveredBy DEF Governed
  <2> QED BY <1>3, <1>5, <2>2, <2>3, <2>4, <2>6, <2>7, <2>8, Completed
<1> QED BY <1>1, <1>2, <1>3, <1>5, <1>6, <1>7, <1>8, IdleRests, TeamAfter DEF At

LEMMA RollbackStep ==
  ASSUME FormedInv, TeamInv, NEW h \in Handlers, Rollback(h)
  PROVE  TeamInv'
<1>1. PICK r : r = req[h]
  OBVIOUS
<1>2. r.at = "rollback" /\ UNCHANGED accounts /\ Awaits(h, Idle)
  BY <1>1 DEF Rollback, At, Ends
<1>3. HandTyped(r) /\ People(members) /\ Realm(accounts) /\ r.row \in Person /\ r.from \in Level \cup {None}
  BY <1>1, TeamBefore, <1>2 DEF TeamInv, TeamTyped, At, HandTyped, Updates
<1>4. PICK row : row = [r.row EXCEPT !.access = r.from]
  OBVIOUS
<1>5. row \in Person /\ row.email = r.row.email /\ row.access = r.from
  BY <1>3, <1>4 DEF Person
<1>6. PICK table : table = With(members, r.id, row)
  OBVIOUS
<1>7. /\ DOMAIN table = DOMAIN members \cup {r.id} /\ table[r.id] = row
      /\ \A k \in DOMAIN members : k # r.id => table[k] = members[k]
  BY <1>6 DEF With
<1>8. members' = IF EmailFree(r.id, r.row.email) THEN table ELSE members
  BY <1>1, <1>4, <1>6 DEF Rollback
<1>9. People(members')
  BY <1>3, <1>5, <1>6, <1>8, PersonSaved DEF EmailFree
<1>10. ASSUME Orderly, KeysDistinct
       PROVE  Owned(Idle, members')
  <2>1. Owned(r, members)
    BY <1>1, <1>2, <1>10, TeamBefore DEF At
  <2>2. (r.from = Owner \/ Beside(members, r.id)) /\ (Derives => DeriveId(r.row.email) = r.id)
    BY <1>2, <2>1 DEF Owned, OwnerHand, Updates, Synchronises
  <2>3. /\ Founded => \E o \in DOMAIN table : table[o].access = Owner
        /\ Derives => \A id \in DOMAIN table : DeriveId(table[id].email) = id
    BY <1>5, <1>7, <2>1, <2>2 DEF Owned, Beside
  <2> QED BY <1>8, <2>1, <2>3, IdleRests DEF Owned
<1>11. ASSUME Orderly, KeysDistinct, Trusted
       PROVE  Governed(Idle, members', accounts)
  <2>1. Governed(r, members, accounts) /\ Saved(r) = {r.id} /\ Doubled(r) = {}
    BY <1>1, <1>2, <1>11, TeamBefore DEF At, Saved, Doubled, Synchronises
  <2>2. r.id \in DOMAIN members /\ members[r.id] = r.row /\ Had(r, r.from, accounts)
    BY <1>2, <2>1 DEF Governed, ToldHand, Synchronises
  <2>3. members' = table
    BY <1>3, <1>8, <2>2 DEF People, EmailFree
  <2>4. Tells(row, accounts)
    BY <1>3, <1>5, <2>2, HighestOfOne DEF Tells, Had
  <2>5. RowsTold(table, accounts, {})
    BY <1>7, <2>1, <2>4 DEF Governed, RowsTold
  <2>6. Covered(table, accounts)
    <3>1. ASSUME NEW e \in DOMAIN accounts, accounts[e] # {}, mode.calls # {"missing"}
          PROVE  \E id \in DOMAIN table : table[id].email = e /\ (table[id].access = None => mode.calls = {"backfill"})
      <4>1. PICK id \in DOMAIN members : members[id].email = e /\ (members[id].access = None => mode.calls = {"backfill"})
        BY <2>1, <3>1 DEF Governed, Covered
      <4>2. CASE id = r.id
        <5>1. r.from # None
          BY <2>2, <3>1, <4>1, <4>2 DEF Had
        <5> QED BY <1>5, <1>7, <2>2, <4>1, <4>2, <5>1
      <4>3. CASE id # r.id
        BY <1>7, <4>1, <4>3
      <4> QED BY <4>2, <4>3
    <3> QED BY <3>1 DEF Covered
  <2> QED BY <2>1, <2>3, <2>5, <2>6, IdleRests DEF Governed
<1> QED BY <1>1, <1>2, <1>3, <1>9, <1>10, <1>11, IdleRests, TeamAfter DEF At

-----------------------------------------------------------------------------
(* backfillHqAccessFromKeycloak() *)

LEMMA BackfillStep ==
  ASSUME FormedInv, TeamInv, NEW h \in Handlers, BackfillHqAccess(h)
  PROVE  TeamInv'
<1>1. PICK rows : rows = [id \in {i \in DOMAIN members : members[i].access = None} |-> members[id]]
  OBVIOUS
<1>2. PICK n : n = [at |-> "look", rows |-> rows]
  OBVIOUS
<1>3. /\ Awaits(h, n) /\ UNCHANGED team /\ "backfill" \in mode.calls /\ h \in mode.handlers /\ At(h, "idle")
      /\ n.at = "look" /\ n.rows = rows
  BY <1>1, <1>2 DEF BackfillHqAccess, Called, MayStart, At
<1>4. \A i \in DOMAIN rows : i \in DOMAIN members /\ rows[i] = members[i] /\ members[i].access = None
  BY <1>1
<1>5. People(members) /\ Realm(accounts)
  BY DEF TeamInv, TeamTyped
<1>6. HandTyped(n)
  BY <1>3, <1>4, <1>5 DEF HandTyped, People, Updates, Synchronises, Fills, Lists, Invites, Removes
<1>7. ASSUME Orderly, KeysDistinct
      PROVE  Owned(n, members)
  <2>1. Owned(req[h], members)
    BY <1>3, <1>7, TeamBefore
  <2>2. OwnerHand(n, members)
    BY <1>3, <1>4, <2>1, LevelFacts DEF Owned, OwnerHand, Updates, Synchronises, Fills, Lists, Invites
  <2> QED BY <2>1, <2>2, OwnedOn
<1>8. ASSUME Orderly, KeysDistinct, Trusted
      PROVE  Governed(n, members, accounts)
  <2>1. Governed(req[h], members, accounts) /\ Saved(req[h]) = {} /\ Doubled(req[h]) = {}
    BY <1>3, <1>8, TeamBefore DEF Saved, Doubled, At, Synchronises
  <2>2. ToldHand(n, members, accounts) /\ Saved(n) = {} /\ Doubled(n) = {}
    BY <1>3, <1>4 DEF ToldHand, Synchronises, Fills, Lists, Invites, Saved, Doubled
  <2> QED BY <2>1, <2>2 DEF Governed
<1> QED BY <1>3, <1>5, <1>6, <1>7, <1>8, TeamAfter DEF team

LEMMA LookUpStep ==
  ASSUME FormedInv, TeamInv, NEW h \in Handlers, NEW id, LookUpRoles(h, id)
  PROVE  TeamInv'
<1>1. PICK r : r = req[h]
  OBVIOUS
<1>2. r.at = "look" /\ id \in DOMAIN r.rows /\ UNCHANGED team
  BY <1>1 DEF LookUpRoles, At
<1>3. HandTyped(r) /\ People(members) /\ Realm(accounts) /\ "backfill" \in mode.calls /\ \A i \in DOMAIN r.rows : r.rows[i] \in Person
  BY <1>1, TeamBefore, <1>2 DEF TeamInv, TeamTyped, At, HandTyped, Fills
<1>4. PICK email : email = r.rows[id].email
  OBVIOUS
<1>5. PICK level : level = Highest(UserRealmRoles(email))
  OBVIOUS
<1>6. PICK rest : rest = Without(r.rows, {id})
  OBVIOUS
<1>7. \A i \in DOMAIN rest : i \in DOMAIN r.rows /\ rest[i] = r.rows[i]
  BY <1>6 DEF Without
<1>o. Orderly /\ KeysDistinct => Owned(r, members)
  BY <1>1, <1>2, TeamBefore DEF At
<1>g. Orderly /\ KeysDistinct /\ Trusted => Governed(r, members, accounts) /\ Saved(r) = {} /\ Doubled(r) = {}
  BY <1>1, <1>2, TeamBefore DEF At, Saved, Doubled, Synchronises
<1>8. CASE level # None /\ Awaits(h, [at |-> "resolve", id |-> id, level |-> level, rows |-> r.rows])
  <2>1. PICK n : n = [at |-> "resolve", id |-> id, level |-> level, rows |-> r.rows]
    OBVIOUS
  <2>2. n.at = "resolve" /\ n.id = id /\ n.level = level /\ n.rows = r.rows
    BY <2>1
  <2>3. email \in DOMAIN accounts /\ level = Highest(accounts[email]) /\ level \in Level
    <3>1. PICK roles : roles = UserRealmRoles(email)
      OBVIOUS
    <3>2. roles # {}
      BY <1>5, <1>8, <3>1, HighestOfNone
    <3>3. email \in DOMAIN accounts /\ roles = accounts[email]
      BY <3>1, <3>2 DEF UserRealmRoles
    <3>4. roles \subseteq Level
      BY <1>3, <3>3 DEF Realm
    <3> QED BY <1>5, <3>1, <3>2, <3>3, <3>4, HighestOfSome
  <2>4. HandTyped(n)
    BY <1>2, <1>3, <2>2, <2>3 DEF HandTyped, Updates, Synchronises, Fills, Lists, Invites, Removes
  <2>5. ASSUME Orderly, KeysDistinct
        PROVE  Owned(n, members)
    <3>1. OwnerHand(n, members)
      BY <1>2, <1>o, <2>2, <2>5 DEF Owned, OwnerHand, Updates, Synchronises, Fills, Lists, Invites
    <3> QED BY <1>o, <2>5, <3>1, OwnedOn
  <2>6. ASSUME Orderly, KeysDistinct, Trusted
        PROVE  Governed(n, members, accounts)
    <3>1. ToldHand(n, members, accounts)
      BY <1>2, <1>4, <1>g, <2>2, <2>3, <2>6 DEF Governed, ToldHand, Synchronises, Fills, Lists, Invites
    <3>2. Saved(n) = {} /\ Doubled(n) = {}
      BY <2>2 DEF Saved, Doubled, Synchronises
    <3> QED BY <1>g, <2>6, <3>1, <3>2 DEF Governed
  <2> QED BY <1>1, <1>2, <1>3, <1>8, <2>1, <2>4, <2>5, <2>6, TeamAfter DEF At, team
<1>9. CASE Awaits(h, [at |-> "look", rows |-> rest])
  <2>1. PICK n : n = [at |-> "look", rows |-> rest]
    OBVIOUS
  <2>2. n.at = "look" /\ n.rows = rest
    BY <2>1
  <2>3. HandTyped(n)
    BY <1>3, <1>7, <2>2 DEF HandTyped, Updates, Synchronises, Fills, Lists, Invites, Removes
  <2>4. ASSUME Orderly, KeysDistinct
        PROVE  Owned(n, members)
    <3>1. OwnerHand(n, members)
      BY <1>2, <1>7, <1>o, <2>2, <2>4 DEF Owned, OwnerHand, Updates, Synchronises, Fills, Lists, Invites
    <3> QED BY <1>o, <2>4, <3>1, OwnedOn
  <2>5. ASSUME Orderly, KeysDistinct, Trusted
        PROVE  Governed(n, members, accounts)
    <3>1. ToldHand(n, members, accounts)
      BY <1>2, <1>7, <1>g, <2>2, <2>5 DEF Governed, ToldHand, Synchronises, Fills, Lists, Invites
    <3>2. Saved(n) = {} /\ Doubled(n) = {}
      BY <2>2 DEF Saved, Doubled, Synchronises
    <3> QED BY <1>g, <2>5, <3>1, <3>2 DEF Governed
  <2> QED BY <1>1, <1>2, <1>3, <1>9, <2>1, <2>3, <2>4, <2>5, TeamAfter DEF At, team
<1>10. CASE Ends(h)
  BY <1>1, <1>2, <1>10, TeamEnds DEF At, Synchronises
<1> QED BY <1>1, <1>4, <1>5, <1>6, <1>8, <1>9, <1>10 DEF LookUpRoles

LEMMA ResolveStep ==
  ASSUME FormedInv, TeamInv, NEW h \in Handlers, SaveResolved(h)
  PROVE  TeamInv'
<1>1. PICK r : r = req[h]
  OBVIOUS
<1>2. r.at = "resolve" /\ UNCHANGED accounts
  BY <1>1 DEF SaveResolved, At
<1>3. /\ HandTyped(r) /\ People(members) /\ Realm(accounts) /\ "backfill" \in mode.calls
      /\ r.id \in DOMAIN r.rows /\ r.level \in Level /\ \A i \in DOMAIN r.rows : r.rows[i] \in Person
  BY <1>1, TeamBefore, <1>2 DEF TeamInv, TeamTyped, At, HandTyped, Fills
<1>4. PICK row : row = [r.rows[r.id] EXCEPT !.access = r.level]
  OBVIOUS
<1>5. row \in Person /\ row.email = r.rows[r.id].email /\ row.access = r.level
  BY <1>3, <1>4 DEF Person
<1>6. CASE ~EmailFree(r.id, row.email)
  <2>1. Ends(h) /\ UNCHANGED team
    BY <1>1, <1>2, <1>4, <1>6 DEF SaveResolved, team
  <2> QED BY <1>1, <1>2, <2>1, TeamEnds DEF At, Synchronises
<1>7. CASE EmailFree(r.id, row.email)
  <2>1. PICK table : table = With(members, r.id, row)
    OBVIOUS
  <2>2. /\ members' = table /\ DOMAIN table = DOMAIN members \cup {r.id} /\ table[r.id] = row
        /\ \A k \in DOMAIN members : k # r.id => table[k] = members[k]
    BY <1>1, <1>4, <1>7, <2>1 DEF SaveResolved, With
  <2>3. People(table)
    BY <1>3, <1>5, <1>7, <2>1, PersonSaved DEF EmailFree
  <2>4. PICK n : n = [at |-> "look", rows |-> Without(r.rows, {r.id})]
    OBVIOUS
  <2>5. Awaits(h, n)
    BY <1>1, <1>4, <1>7, <2>4 DEF SaveResolved
  <2>6. n.at = "look" /\ \A i \in DOMAIN n.rows : i \in DOMAIN r.rows /\ i # r.id /\ n.rows[i] = r.rows[i]
    BY <2>4 DEF Without
  <2>7. HandTyped(n)
    BY <1>3, <2>6 DEF HandTyped, Updates, Synchronises, Fills, Lists, Invites, Removes
  <2>8. ASSUME Orderly, KeysDistinct
        PROVE  Owned(n, table)
    <3>1. Owned(r, members)
      BY <1>1, <1>2, <2>8, TeamBefore DEF At
    <3>2. /\ \A i \in DOMAIN r.rows : i \in DOMAIN members /\ members[i].access # Owner
          /\ Derives => \A i \in DOMAIN r.rows : DeriveId(r.rows[i].email) = i
      BY <1>2, <3>1 DEF Owned, OwnerHand, Fills
    <3>3. Founded => \E o \in DOMAIN table : table[o].access = Owner
      BY <1>3, <2>2, <3>1, <3>2 DEF Owned
    <3>4. Derives => \A id \in DOMAIN table : DeriveId(table[id].email) = id
      BY <1>3, <1>5, <2>2, <3>1, <3>2 DEF Owned
    <3>5. OwnerHand(n, table)
      BY <2>2, <2>6, <3>2 DEF OwnerHand, Updates, Synchronises, Fills, Lists, Invites
    <3> QED BY <3>3, <3>4, <3>5 DEF Owned
  <2>9. ASSUME Orderly, KeysDistinct, Trusted
        PROVE  Governed(n, table, accounts)
    <3>1. Governed(r, members, accounts) /\ Saved(r) = {} /\ Doubled(r) = {}
      BY <1>1, <1>2, <2>9, TeamBefore DEF At, Saved, Doubled, Synchronises
    <3>2. /\ \A i \in DOMAIN r.rows : i \in DOMAIN members /\ members[i] = r.rows[i] /\ r.rows[i].access = None
          /\ row.email \in DOMAIN accounts /\ Highest(accounts[row.email]) = r.level
      BY <1>2, <1>5, <3>1 DEF Governed, ToldHand, Fills
    <3>3. Tells(row, accounts)
      BY <1>5, <3>2 DEF Tells
    <3>4. RowsTold(table, accounts, {})
      BY <2>2, <3>1, <3>3 DEF Governed, RowsTold
    <3>5. Covered(table, accounts)
      <4>1. ASSUME NEW id \in DOMAIN members
            PROVE  /\ id \in DOMAIN table /\ table[id].email = members[id].email
                   /\ table[id].access = None => members[id].access = None
        BY <1>3, <1>5, <2>2, <3>2, LevelFacts
      <4>2. Covered(members, accounts)
        BY <3>1 DEF Governed
      <4> QED BY <4>1, <4>2 DEF Covered
    <3>6. ToldHand(n, table, accounts) /\ Saved(n) = {} /\ Doubled(n) = {}
      BY <2>2, <2>6, <3>2 DEF ToldHand, Synchronises, Fills, Lists, Invites, Saved, Doubled
    <3> QED BY <3>1, <3>4, <3>5, <3>6 DEF Governed
  <2> QED BY <1>1, <1>2, <1>3, <2>2, <2>3, <2>5, <2>7, <2>8, <2>9, TeamAfter DEF At
<1> QED BY <1>6, <1>7

-----------------------------------------------------------------------------
(* backfillMissingMembers() *)

LEMMA MissingStep ==
  ASSUME FormedInv, TeamInv, NEW h \in Handlers, BackfillMissing(h)
  PROVE  TeamInv'
<1>1. PICK n : n = [at |-> "list", known |-> {members[id].email : id \in DOMAIN members}, next |-> Len(Levels), found |-> << >>]
  OBVIOUS
<1>2. /\ Awaits(h, n) /\ UNCHANGED team /\ "missing" \in mode.calls /\ h \in mode.handlers /\ At(h, "idle")
      /\ n.at = "list" /\ DOMAIN n.found = {} /\ n.next = Len(Levels)
      /\ \A id \in DOMAIN members : members[id].email \in n.known
  BY <1>1 DEF BackfillMissing, Called, MayStart, At
<1>3. People(members) /\ Realm(accounts)
  BY DEF TeamInv, TeamTyped
<1>4. HandTyped(n)
  BY <1>2, LevelFacts DEF HandTyped, Updates, Synchronises, Fills, Lists, Invites, Removes
<1>5. ASSUME Orderly, KeysDistinct
      PROVE  Owned(n, members)
  <2>1. OwnerHand(n, members)
    BY <1>2 DEF OwnerHand, Updates, Synchronises, Fills, Lists, Invites
  <2> QED BY <1>2, <1>5, <2>1, TeamBefore, OwnedOn
<1>6. ASSUME Orderly, KeysDistinct, Trusted
      PROVE  Governed(n, members, accounts)
  <2>1. Governed(req[h], members, accounts) /\ Saved(req[h]) = {} /\ Doubled(req[h]) = {}
    BY <1>2, <1>6, TeamBefore DEF Saved, Doubled, At, Synchronises
  <2>2. \A e \in DOMAIN accounts : \A l \in accounts[e] : Rank(l) <= Len(Levels)
    BY <1>3, LevelFacts DEF Realm
  <2>3. ToldHand(n, members, accounts) /\ Saved(n) = {} /\ Doubled(n) = {}
    BY <1>2, <2>2 DEF ToldHand, Synchronises, Fills, Lists, Invites, Saved, Doubled
  <2> QED BY <2>1, <2>3 DEF Governed
<1> QED BY <1>2, <1>3, <1>4, <1>5, <1>6, TeamAfter DEF team

LEMMA ListStep ==
  ASSUME FormedInv, TeamInv, NEW h \in Handlers, ListHolders(h)
  PROVE  TeamInv'
<1>1. PICK r : r = req[h]
  OBVIOUS
<1>2. r.at = "list" /\ DOMAIN r = {"at", "known", "next", "found"} /\ UNCHANGED team
  BY <1>1 DEF FormedInv, ListHolders, At, Formed
<1>3. /\ HandTyped(r) /\ People(members) /\ Realm(accounts) /\ "missing" \in mode.calls /\ r.next \in DOMAIN Levels
      /\ \A e \in DOMAIN r.found : e \in Emails /\ r.found[e] \in Level
  BY <1>1, TeamBefore, <1>2 DEF TeamInv, TeamTyped, At, HandTyped, Lists
<1>4. PICK holders : holders = UsersWithRealmRole(Levels[r.next])
  OBVIOUS
<1>5. PICK found : found = [e \in DOMAIN r.found \cup holders |-> IF e \in DOMAIN r.found THEN r.found[e] ELSE Levels[r.next]]
  OBVIOUS
<1>6. PICK at : at = IF r.next = 1 THEN "create" ELSE "list"
  OBVIOUS
<1>7. PICK next : next = [r EXCEPT !.next = @ - 1, !.at = at]
  OBVIOUS
<1>8. next.at = at /\ next.next = r.next - 1 /\ next.known = r.known /\ next.found = r.found /\ DOMAIN next = DOMAIN r
  BY <1>2, <1>7
<1>9. PICK all : all = [next EXCEPT !.found = found]
  OBVIOUS
<1>10. all.at = at /\ all.next = r.next - 1 /\ all.known = r.known /\ all.found = found
  BY <1>2, <1>8, <1>9
<1>11. (at = "list" => r.next - 1 \in DOMAIN Levels) /\ at \in {"list", "create"}
  BY <1>3, <1>6, LevelFacts
<1>12. /\ DOMAIN found = DOMAIN r.found \cup holders
       /\ \A e \in DOMAIN r.found : found[e] = r.found[e]
       /\ \A e \in holders \ DOMAIN r.found : found[e] = Levels[r.next]
       /\ \A e : e \in holders <=> e \in DOMAIN accounts /\ Levels[r.next] \in accounts[e]
  BY <1>4, <1>5 DEF UsersWithRealmRole
<1>13. \A e \in DOMAIN found : e \in Emails /\ found[e] \in Level
  BY <1>3, <1>12, LevelFacts DEF Realm
<1>14. \A n : n.at = at /\ n.next = r.next - 1 /\ n.found \in {r.found, found} => HandTyped(n)
  <2> SUFFICES ASSUME NEW n, n.at = at, n.next = r.next - 1, n.found \in {r.found, found} PROVE HandTyped(n)
    OBVIOUS
  <2>1. \A e \in DOMAIN n.found : e \in Emails /\ n.found[e] \in Level
    BY <1>3, <1>13
  <2> QED BY <1>3, <1>11, <2>1 DEF HandTyped, Updates, Synchronises, Fills, Lists, Invites, Removes
<1>15. ASSUME Orderly, KeysDistinct, NEW n, n.at = at, n.known = r.known
       PROVE  Owned(n, members)
  <2>1. Owned(r, members)
    BY <1>1, <1>2, <1>15, TeamBefore DEF At
  <2>2. OwnerHand(n, members)
    BY <1>2, <1>11, <1>15, <2>1 DEF Owned, OwnerHand, Updates, Synchronises, Fills, Lists, Invites
  <2> QED BY <2>1, <2>2, OwnedOn
<1>16. CASE Awaits(h, all)
  <2>1. ASSUME Orderly, KeysDistinct, Trusted
        PROVE  Governed(all, members, accounts)
    <3>1. Governed(r, members, accounts) /\ Saved(r) = {} /\ Doubled(r) = {}
      BY <1>1, <1>2, <2>1, TeamBefore DEF At, Saved, Doubled, Synchronises
    <3>2. /\ \A e \in DOMAIN r.found : /\ e \in DOMAIN accounts /\ r.found[e] \in accounts[e]
                                       /\ \A l \in accounts[e] : Rank(l) <= Rank(r.found[e])
          /\ \A e \in DOMAIN accounts \ DOMAIN r.found : \A l \in accounts[e] : Rank(l) <= r.next
      BY <1>2, <3>1 DEF Governed, ToldHand, Lists
    <3>3. \A e \in DOMAIN found : /\ e \in DOMAIN accounts /\ found[e] \in accounts[e]
                                  /\ \A l \in accounts[e] : Rank(l) <= Rank(found[e])
      BY <1>3, <1>12, <3>2, LevelFacts
    <3>4. ASSUME NEW e \in DOMAIN accounts \ DOMAIN found, NEW l \in accounts[e]
          PROVE  Rank(l) <= r.next - 1
      <4>1. l \in Level /\ l # Levels[r.next] /\ Rank(l) <= r.next
        BY <1>3, <1>12, <3>2, <3>4 DEF Realm
      <4>2. Rank(l) # r.next /\ Rank(l) \in Nat /\ r.next \in Nat
        BY <1>3, <4>1, LevelFacts
      <4> QED BY <4>1, <4>2
    <3>5. ToldHand(all, members, accounts)
      BY <1>10, <1>11, <3>3, <3>4 DEF ToldHand, Synchronises, Fills, Lists, Invites
    <3>6. Saved(all) = {} /\ Doubled(all) = {}
      BY <1>10, <1>11 DEF Saved, Doubled, Synchronises
    <3> QED BY <3>1, <3>5, <3>6 DEF Governed
  <2> QED BY <1>1, <1>2, <1>3, <1>10, <1>14, <1>15, <1>16, <2>1, TeamAfter DEF At, team
<1>17. CASE Refused("list") /\ Awaits(h, next)
  <2>1. ~Trusted
    BY <1>17 DEF Trusted, NothingUnseen, Refused
  <2> QED BY <1>1, <1>2, <1>3, <1>8, <1>14, <1>15, <1>17, <2>1, TeamAfter DEF At, team
<1>18. CASE Ends(h)
  BY <1>1, <1>2, <1>18, TeamEnds DEF At, Synchronises
<1> QED BY <1>1, <1>4, <1>5, <1>6, <1>7, <1>9, <1>16, <1>17, <1>18 DEF ListHolders

\* A row that is new: no other has its address, and none its key.
LEMMA NewRow ==
  ASSUME NEW r, NEW id, NEW row \in Person, Orderly, KeysDistinct, Owned(r, members), Derives, People(members),
         id = DeriveId(row.email), \A k \in DOMAIN members : members[k].email # row.email
  PROVE  /\ id \notin DOMAIN members /\ EmailFree(id, row.email)
         /\ \A n : OwnerHand(n, With(members, id, row)) => Owned(n, With(members, id, row))
         /\ RowsTold(members, accounts, {}) => RowsTold(With(members, id, row), accounts, {id})
         /\ Covered(members, accounts) => Covered(With(members, id, row), accounts)
<1>1. /\ \A e, f \in Emails : DeriveId(e) = DeriveId(f) => e = f
      /\ \A k \in DOMAIN members : members[k].email \in Emails /\ DeriveId(members[k].email) = k
      /\ row.email \in Emails
  BY DEF Derives, KeysDistinct, Owned, DeriveId, People, Person
<1>2. id \notin DOMAIN members
  BY <1>1
<1>3. PICK table : table = With(members, id, row)
  OBVIOUS
<1>4. /\ DOMAIN table = DOMAIN members \cup {id} /\ table[id] = row
      /\ \A k \in DOMAIN members : table[k] = members[k]
  BY <1>2, <1>3 DEF With
<1>5. (Founded => \E o \in DOMAIN table : table[o].access = Owner) /\ \A k \in DOMAIN table : DeriveId(table[k].email) = k
  BY <1>1, <1>4 DEF Owned
<1>6. RowsTold(members, accounts, {}) => RowsTold(table, accounts, {id})
  BY <1>4 DEF RowsTold
<1>7. Covered(members, accounts) => Covered(table, accounts)
  BY <1>4 DEF Covered
<1> QED BY <1>2, <1>3, <1>5, <1>6, <1>7 DEF EmailFree, Owned

LEMMA CreateStep ==
  ASSUME FormedInv, TeamInv, NEW h \in Handlers, NEW email \in Emails, CreateMissing(h, email)
  PROVE  TeamInv'
<1>1. PICK r : r = req[h]
  OBVIOUS
<1>2. r.at = "create" /\ DOMAIN r = {"at", "known", "next", "found"} /\ UNCHANGED accounts /\ email \in DOMAIN r.found \ r.known
  BY <1>1 DEF FormedInv, CreateMissing, At, Formed
<1>3. /\ HandTyped(r) /\ People(members) /\ Realm(accounts) /\ "missing" \in mode.calls
      /\ \A e \in DOMAIN r.found : e \in Emails /\ r.found[e] \in Level
  BY <1>1, TeamBefore, <1>2 DEF TeamInv, TeamTyped, At, HandTyped, Lists
<1>4. PICK row : row = [email |-> email, access |-> r.found[email]]
  OBVIOUS
<1>5. row \in Person /\ row.email = email /\ row.access = r.found[email] /\ row.access \in Level
  BY <1>2, <1>3, <1>4 DEF Person
<1>6. PICK id : id = DeriveId(email)
  OBVIOUS
<1>7. CASE ~EmailFree(id, email)
  <2>1. Ends(h) /\ UNCHANGED team
    BY <1>1, <1>2, <1>6, <1>7 DEF CreateMissing, team
  <2> QED BY <1>1, <1>2, <2>1, TeamEnds DEF At, Synchronises
<1>8. CASE EmailFree(id, email)
  <2>1. PICK table : table = With(members, id, row)
    OBVIOUS
  <2>2. members' = table /\ DOMAIN table = DOMAIN members \cup {id} /\ table[id] = row
    BY <1>1, <1>4, <1>6, <1>8, <2>1 DEF CreateMissing, With
  <2>3. People(table)
    BY <1>3, <1>5, <1>8, <2>1, PersonSaved DEF EmailFree
  <2>4. PICK n : n = [r EXCEPT !.known = @ \cup {email}]
    OBVIOUS
  <2>5. Awaits(h, n)
    BY <1>1, <1>6, <1>8, <2>4 DEF CreateMissing
  <2>6. n.at = "create" /\ n.known = r.known \cup {email} /\ n.found = r.found
    BY <1>2, <2>4
  <2>7. HandTyped(n)
    BY <1>3, <2>6 DEF HandTyped, Updates, Synchronises, Fills, Lists, Invites, Removes
  <2>o. ASSUME Orderly, KeysDistinct
        PROVE  /\ Owned(r, members) /\ Derives /\ \A k \in DOMAIN members : members[k].email \in r.known
               /\ \A k \in DOMAIN members : members[k].email # row.email
               /\ id \notin DOMAIN members
               /\ \A k \in DOMAIN members : table[k] = members[k]
    <3>1. Owned(r, members) /\ Derives
      BY <1>1, <1>2, <1>3, <2>o, TeamBefore DEF At, Derives
    <3>2. \A k \in DOMAIN members : members[k].email \in r.known
      BY <1>2, <3>1 DEF Owned, OwnerHand, Lists
    <3>3. \A k \in DOMAIN members : members[k].email # row.email
      BY <1>2, <1>5, <3>2
    <3>4. id \notin DOMAIN members
      BY <1>3, <1>5, <1>6, <2>o, <3>1, <3>3, NewRow
    <3>5. \A k \in DOMAIN members : table[k] = members[k]
      BY <2>1, <3>4 DEF With
    <3> QED BY <3>1, <3>2, <3>3, <3>4, <3>5
  <2>8. ASSUME Orderly, KeysDistinct
        PROVE  Owned(n, table)
    <3>1. \A k \in DOMAIN table : table[k].email \in n.known
      BY <1>5, <2>2, <2>6, <2>8, <2>o
    <3>2. OwnerHand(n, table)
      BY <2>6, <3>1 DEF OwnerHand, Updates, Synchronises, Fills, Lists, Invites
    <3> QED BY <1>3, <1>5, <1>6, <2>1, <2>8, <2>o, <3>2, NewRow
  <2>9. ASSUME Orderly, KeysDistinct, Trusted
        PROVE  Governed(n, table, accounts)
    <3>1. Governed(r, members, accounts) /\ Saved(r) = {} /\ Doubled(r) = {}
      BY <1>1, <1>2, <2>9, TeamBefore DEF At, Saved, Doubled, Synchronises
    <3>2. \A e \in DOMAIN r.found : /\ e \in DOMAIN accounts /\ r.found[e] \in accounts[e]
                                    /\ \A l \in accounts[e] : Rank(l) <= Rank(r.found[e])
      BY <1>2, <3>1 DEF Governed, ToldHand, Lists
    <3>3. Tells(row, accounts)
      <4>1. PICK roles : roles = accounts[email]
        OBVIOUS
      <4>2. roles \subseteq Level /\ row.access \in roles /\ \A l \in roles : Rank(l) <= Rank(row.access)
        BY <1>2, <1>3, <1>5, <3>2, <4>1 DEF Realm
      <4>3. Highest(roles) = row.access
        BY <4>2, HighestIs
      <4> QED BY <1>5, <4>1, <4>3 DEF Tells
    <3>4. RowsTold(table, accounts, {id}) /\ Covered(table, accounts)
      BY <1>3, <1>5, <1>6, <2>1, <2>9, <2>o, <3>1, NewRow DEF Governed
    <3>5. RowsTold(table, accounts, {})
      BY <2>2, <3>3, <3>4 DEF RowsTold
    <3>6. ToldHand(n, table, accounts) /\ Saved(n) = {} /\ Doubled(n) = {}
      BY <2>6, <3>2 DEF ToldHand, Synchronises, Fills, Lists, Invites, Saved, Doubled
    <3> QED BY <3>1, <3>4, <3>5, <3>6 DEF Governed
  <2> QED BY <1>1, <1>2, <1>3, <2>2, <2>3, <2>5, <2>7, <2>8, <2>9, TeamAfter DEF At
<1> QED BY <1>7, <1>8

-----------------------------------------------------------------------------
(* invite() *)

LEMMA InviteStep ==
  ASSUME FormedInv, TeamInv, NEW h \in Handlers, NEW body \in mode.invites, Invite(h, body.email, body.access)
  PROVE  TeamInv'
<1>1. body.email \in Emails /\ body.access \in Level
  BY BackOfficeAssumption DEF FormedInv
<1>2. PICK row : row = [email |-> body.email, access |-> body.access]
  OBVIOUS
<1>3. row \in Person /\ row.email = body.email /\ row.access \in Level
  BY <1>1, <1>2 DEF Person
<1>4. PICK n : n = [at |-> "insert", id |-> DeriveId(body.email), row |-> row]
  OBVIOUS
<1>5. /\ Awaits(h, n) /\ UNCHANGED team /\ "invite" \in mode.calls /\ h \in mode.handlers /\ At(h, "idle")
      /\ n.at = "insert" /\ n.id = DeriveId(row.email) /\ n.row = row
      /\ \A k \in DOMAIN members : members[k].email # row.email
  BY <1>2, <1>4 DEF Invite, Called, MayStart, At
<1>6. People(members) /\ Realm(accounts)
  BY DEF TeamInv, TeamTyped
<1>7. HandTyped(n)
  BY <1>3, <1>5 DEF HandTyped, Updates, Synchronises, Fills, Lists, Invites, Removes
<1>8. ASSUME Orderly, KeysDistinct
      PROVE  Owned(n, members)
  <2>1. OwnerHand(n, members)
    BY <1>5 DEF OwnerHand, Updates, Synchronises, Fills, Lists, Invites
  <2> QED BY <1>5, <1>8, <2>1, TeamBefore, OwnedOn
<1>9. ASSUME Orderly, KeysDistinct, Trusted
      PROVE  Governed(n, members, accounts)
  <2>1. Governed(req[h], members, accounts) /\ Saved(req[h]) = {} /\ Doubled(req[h]) = {}
    BY <1>5, <1>9, TeamBefore DEF Saved, Doubled, At, Synchronises
  <2>2. Had(n, None, accounts)
    <3>1. mode.calls # {"missing"}
      BY <1>5
    <3> QED BY <1>5, <2>1, <3>1 DEF Had, Governed, Covered
  <2>3. ToldHand(n, members, accounts) /\ Saved(n) = {} /\ Doubled(n) = {}
    BY <1>5, <2>2 DEF ToldHand, Synchronises, Fills, Lists, Invites, Saved, Doubled
  <2> QED BY <2>1, <2>3 DEF Governed
<1> QED BY <1>5, <1>6, <1>7, <1>8, <1>9, TeamAfter DEF team

LEMMA InsertStep ==
  ASSUME FormedInv, TeamInv, NEW h \in Handlers, InsertInvited(h)
  PROVE  TeamInv'
<1>1. PICK r : r = req[h]
  OBVIOUS
<1>2. r.at = "insert" /\ DOMAIN r = {"at", "id", "row"} /\ UNCHANGED accounts
  BY <1>1 DEF FormedInv, InsertInvited, At, Formed
<1>3. /\ HandTyped(r) /\ People(members) /\ Realm(accounts) /\ "invite" \in mode.calls /\ r.row \in Person /\ r.row.access \in Level
  BY <1>1, TeamBefore, <1>2 DEF TeamInv, TeamTyped, At, HandTyped, Invites
<1>4. CASE ~EmailFree(r.id, r.row.email)
  <2>1. Ends(h) /\ UNCHANGED team
    BY <1>1, <1>2, <1>4 DEF InsertInvited, team
  <2> QED BY <1>1, <1>2, <2>1, TeamEnds DEF At, Synchronises
<1>5. CASE EmailFree(r.id, r.row.email)
  <2>1. PICK table : table = With(members, r.id, r.row)
    OBVIOUS
  <2>2. members' = table /\ DOMAIN table = DOMAIN members \cup {r.id} /\ table[r.id] = r.row
    BY <1>1, <1>5, <2>1 DEF InsertInvited, With
  <2>3. People(table)
    BY <1>3, <1>5, <2>1, PersonSaved DEF EmailFree
  <2>4. PICK n : n = IF mode.configured THEN [r EXCEPT !.at = "provision"] ELSE Idle
    OBVIOUS
  <2>5. Awaits(h, n)
    BY <1>1, <1>5, <2>4 DEF InsertInvited, Ends
  <2>6. (n = Idle /\ ~mode.configured) \/ (n.at = "provision" /\ n.id = r.id /\ n.row = r.row)
    BY <1>2, <2>4
  <2>7. HandTyped(n)
    BY <1>3, <2>6, IdleRests DEF HandTyped, Updates, Synchronises, Fills, Lists, Invites, Removes
  <2>o. ASSUME Orderly, KeysDistinct
        PROVE  /\ Owned(r, members) /\ Derives /\ r.id = DeriveId(r.row.email)
               /\ \A k \in DOMAIN members : members[k].email # r.row.email
    <3>1. Owned(r, members) /\ Derives
      BY <1>1, <1>2, <1>3, <2>o, TeamBefore DEF At, Derives
    <3> QED BY <1>2, <3>1 DEF Owned, OwnerHand, Invites
  <2>8. ASSUME Orderly, KeysDistinct
        PROVE  Owned(n, table)
    <3>1. OwnerHand(n, table)
      BY <2>6, <2>8, <2>o, IdleRests DEF OwnerHand, Updates, Synchronises, Fills, Lists, Invites
    <3> QED BY <1>3, <2>1, <2>8, <2>o, <3>1, NewRow
  <2>9. ASSUME Orderly, KeysDistinct, Trusted
        PROVE  Governed(n, table, accounts)
    <3>1. Governed(r, members, accounts) /\ Saved(r) = {} /\ Doubled(r) = {}
      BY <1>1, <1>2, <2>9, TeamBefore DEF At, Saved, Doubled, Synchronises
    <3>2. n.at = "provision" /\ n.id = r.id /\ n.row = r.row
      BY <2>6, <2>9 DEF Trusted
    <3>3. Had(n, None, accounts)
      BY <1>2, <3>1, <3>2 DEF Governed, ToldHand, Had, Invites
    <3>4. RowsTold(table, accounts, {r.id}) /\ Covered(table, accounts)
      BY <1>3, <2>1, <2>9, <2>o, <3>1, NewRow DEF Governed
    <3>5. ToldHand(n, table, accounts) /\ Saved(n) = {r.id} /\ Doubled(n) = {}
      BY <2>2, <3>2, <3>3 DEF ToldHand, Synchronises, Fills, Lists, Invites, Saved, Doubled
    <3> QED BY <3>1, <3>4, <3>5 DEF Governed
  <2> QED BY <1>1, <1>2, <1>3, <2>2, <2>3, <2>5, <2>7, <2>8, <2>9, TeamAfter DEF At
<1> QED BY <1>4, <1>5

LEMMA CreateUserStep ==
  ASSUME FormedInv, TeamInv, NEW h \in Handlers, CreateUser(h)
  PROVE  TeamInv'
<1>1. PICK r : r = req[h]
  OBVIOUS
<1>2. r.at = "provision" /\ DOMAIN r = {"at", "id", "row"} /\ UNCHANGED members
  BY <1>1 DEF FormedInv, CreateUser, At, Formed
<1>3. /\ HandTyped(r) /\ People(members) /\ Realm(accounts) /\ "invite" \in mode.calls /\ r.row \in Person /\ r.row.access \in Level
  BY <1>1, TeamBefore, <1>2 DEF TeamInv, TeamTyped, At, HandTyped, Invites
<1>4. PICK created : created = Created(r.row.email)
  OBVIOUS
<1>5. /\ DOMAIN created = DOMAIN accounts \cup {r.row.email} /\ \A e \in DOMAIN accounts : created[e] = accounts[e]
      /\ r.row.email \notin DOMAIN accounts => created[r.row.email] = {}
  BY <1>4 DEF Created, UserRealmRoles
<1>6. Realm(created)
  BY <1>3, <1>5 DEF Realm, Person
<1>7. /\ UNCHANGED mode
      /\ \/ accounts' = created /\ Awaits(h, [r EXCEPT !.at = "grant"])
         \/ accounts' \in {accounts, created} /\ Ends(h) /\ (Refused("create") \/ Lost)
  BY <1>1, <1>4 DEF CreateUser, Awaits, Ends
<1>o. Orderly /\ KeysDistinct => Owned(r, members)
  BY <1>1, <1>2, TeamBefore DEF At
<1>8. CASE accounts' = created /\ Awaits(h, [r EXCEPT !.at = "grant"])
  <2>1. PICK n : n = [r EXCEPT !.at = "grant"]
    OBVIOUS
  <2>2. n.at = "grant" /\ n.id = r.id /\ n.row = r.row
    BY <1>2, <2>1
  <2>3. HandTyped(n)
    BY <1>3, <2>2 DEF HandTyped, Updates, Synchronises, Fills, Lists, Invites, Removes
  <2>4. ASSUME Orderly, KeysDistinct
        PROVE  Owned(n, members)
    <3>1. OwnerHand(n, members)
      BY <1>2, <1>o, <2>2, <2>4 DEF Owned, OwnerHand, Updates, Synchronises, Fills, Lists, Invites
    <3> QED BY <1>o, <2>4, <3>1, OwnedOn
  <2>5. ASSUME Orderly, KeysDistinct, Trusted
        PROVE  Governed(n, members, created)
    <3>1. Governed(r, members, accounts) /\ Saved(r) = {r.id} /\ Doubled(r) = {}
      BY <1>1, <1>2, <2>5, TeamBefore DEF At, Saved, Doubled, Synchronises
    <3>2. r.id \in DOMAIN members /\ members[r.id] = r.row /\ Had(r, None, accounts)
      BY <1>2, <3>1 DEF Governed, ToldHand, Invites
    <3>3. created[r.row.email] = {} /\ r.row.email \in DOMAIN created
      BY <1>5, <3>2 DEF Had
    <3>4. \A e \in DOMAIN created : e # members[r.id].email => e \in DOMAIN accounts /\ created[e] = accounts[e]
      BY <1>5, <3>2
    <3>5. RowsTold(members, created, {r.id})
      BY <1>3, <3>1, <3>2, <3>4, OthersTold DEF Governed
    <3>6. Covered(members, created)
      BY <1>3, <3>1, <3>2, <3>4, LevelFacts, CoveredBy DEF Governed
    <3>7. OneRole(created, {})
      BY <1>5, <3>1, <3>3 DEF OneRole, Governed
    <3>8. ToldHand(n, members, created) /\ Saved(n) = {r.id} /\ Doubled(n) = {}
      BY <2>2, <3>2, <3>3 DEF ToldHand, Had, Synchronises, Fills, Lists, Invites, Saved, Doubled
    <3> QED BY <3>5, <3>6, <3>7, <3>8 DEF Governed
  <2> QED BY <1>1, <1>2, <1>3, <1>6, <1>8, <2>1, <2>3, <2>4, <2>5, TeamAfter DEF At
<1>9. CASE accounts' \in {accounts, created} /\ Ends(h) /\ (Refused("create") \/ Lost)
  <2>1. Awaits(h, Idle) /\ People(members') /\ Realm(accounts') /\ HandTyped(Idle)
    BY <1>2, <1>3, <1>6, <1>9, IdleRests DEF Ends
  <2>2. Orderly /\ KeysDistinct => Owned(Idle, members')
    BY <1>2, <1>o, OwnedIdle
  <2>3. ~Trusted
    BY <1>3, <1>9 DEF Trusted, NothingUnseen, Refused
  <2> QED BY <1>1, <1>2, <2>1, <2>2, <2>3, TeamAfter DEF At
<1> QED BY <1>7, <1>8, <1>9

LEMMA GrantStep ==
  ASSUME FormedInv, TeamInv, NEW h \in Handlers, GrantInvited(h)
  PROVE  TeamInv'
<1>1. PICK r : r = req[h]
  OBVIOUS
<1>2. r.at = "grant" /\ UNCHANGED members /\ Awaits(h, Idle)
  BY <1>1 DEF GrantInvited, At, Ends
<1>3. /\ HandTyped(r) /\ People(members) /\ Realm(accounts) /\ "invite" \in mode.calls /\ r.row \in Person /\ r.row.access \in Level
  BY <1>1, TeamBefore, <1>2 DEF TeamInv, TeamTyped, At, HandTyped, Invites
<1>4. PICK granted : granted = Granted(r.row.email, r.row.access)
  OBVIOUS
<1>5. /\ Realm(granted) /\ DOMAIN granted = DOMAIN accounts
      /\ \A e \in DOMAIN accounts : granted[e] = IF e = r.row.email THEN accounts[e] \cup {r.row.access} ELSE accounts[e]
  <2>1. PICK roles : roles = accounts[r.row.email] \cup {r.row.access}
    OBVIOUS
  <2>2. r.row.email \in DOMAIN accounts => roles \subseteq Level
    BY <1>3, <2>1 DEF Realm
  <2>3. granted = [accounts EXCEPT ![r.row.email] = roles]
    BY <1>4, <2>1 DEF Granted
  <2>4. /\ Realm(granted) /\ DOMAIN granted = DOMAIN accounts
        /\ \A e \in DOMAIN accounts : granted[e] = IF e = r.row.email THEN roles ELSE accounts[e]
    BY <1>3, <2>2, <2>3, RealmChanges
  <2> QED BY <2>1, <2>4
<1>6. accounts' = granted \/ (accounts' = accounts /\ (Refused("assign") \/ Lost))
  BY <1>1, <1>4 DEF GrantInvited
<1>7. Orderly /\ KeysDistinct => Owned(Idle, members)
  BY <1>1, <1>2, TeamBefore, OwnedIdle DEF At
<1>8. ASSUME Orderly, KeysDistinct, Trusted
      PROVE  Governed(Idle, members, accounts')
  <2>1. Governed(r, members, accounts) /\ Saved(r) = {r.id} /\ Doubled(r) = {}
    BY <1>1, <1>2, <1>8, TeamBefore DEF At, Saved, Doubled, Synchronises
  <2>2. r.id \in DOMAIN members /\ members[r.id] = r.row /\ r.row.email \in DOMAIN accounts /\ accounts[r.row.email] = {}
    BY <1>2, <2>1 DEF Governed, ToldHand, Had, Invites
  <2>3. accounts' = granted
    BY <1>3, <1>6, <1>8 DEF Trusted, NothingUnseen, Refused
  <2>4. granted[r.row.email] = {r.row.access}
    BY <1>5, <2>2
  <2>5. \A e \in DOMAIN granted : e # members[r.id].email => e \in DOMAIN accounts /\ granted[e] = accounts[e]
    BY <1>5, <2>2
  <2>6. RowsTold(members, granted, {r.id})
    BY <1>3, <2>1, <2>2, <2>5, OthersTold DEF Governed
  <2>7. OneRole(granted, {r.row.email})
    BY <1>5, <2>1 DEF OneRole, Governed
  <2>8. Covered(members, granted)
    BY <1>3, <2>1, <2>2, <2>5, LevelFacts, CoveredBy DEF Governed
  <2> QED BY <1>3, <1>5, <2>2, <2>3, <2>4, <2>6, <2>7, <2>8, Completed
<1> QED BY <1>1, <1>2, <1>3, <1>5, <1>6, <1>7, <1>8, IdleRests, TeamAfter DEF At

-----------------------------------------------------------------------------
(* remove() *)

LEMMA RemoveStep ==
  ASSUME FormedInv, TeamInv, NEW h \in Handlers, NEW id \in DOMAIN members, NEW actor, RemoveMember(h, id, actor)
  PROVE  TeamInv'
<1>1. PICK n : n = [at |-> IF members[id].access = Owner THEN "countRemoved" ELSE "delete", id |-> id]
  OBVIOUS
<1>2. /\ Awaits(h, n) /\ UNCHANGED team /\ "remove" \in mode.calls /\ h \in mode.handlers /\ At(h, "idle")
      /\ n.at \in {"countRemoved", "delete"} /\ n.id = id /\ (n.at = "delete" => members[id].access # Owner)
  BY <1>1 DEF RemoveMember, Called, MayStart, At
<1>3. People(members) /\ Realm(accounts) /\ ~Trusted
  BY <1>2 DEF TeamInv, TeamTyped, Trusted
<1>4. HandTyped(n)
  BY <1>2 DEF HandTyped, Updates, Synchronises, Fills, Lists, Invites
<1>5. ASSUME Orderly, KeysDistinct
      PROVE  Owned(n, members)
  <2>1. Owned(req[h], members)
    BY <1>2, <1>5, TeamBefore
  <2>2. n.at = "delete" => Beside(members, n.id)
    BY <1>2, <2>1 DEF Owned, Beside
  <2>3. OwnerHand(n, members)
    BY <1>2, <2>2 DEF OwnerHand, Updates, Synchronises, Fills, Lists, Invites
  <2> QED BY <2>1, <2>3, OwnedOn
<1> QED BY <1>2, <1>3, <1>4, <1>5, TeamAfter DEF team

LEMMA CountRemovedStep ==
  ASSUME FormedInv, TeamInv, NEW h \in Handlers, CountRemoved(h)
  PROVE  TeamInv'
<1>1. PICK r : r = req[h]
  OBVIOUS
<1>2. r.at = "countRemoved" /\ DOMAIN r = {"at", "id"} /\ UNCHANGED team
  BY <1>1 DEF FormedInv, CountRemoved, At, Formed
<1>3. People(members) /\ Realm(accounts) /\ "remove" \in mode.calls /\ ~Trusted
  BY <1>1, TeamBefore, <1>2 DEF TeamInv, TeamTyped, At, HandTyped, Removes, Trusted
<1>4. CASE Ends(h)
  BY <1>1, <1>2, <1>4, TeamEnds DEF At, Synchronises
<1>5. CASE ~(Cardinality(Owners) <= 1) /\ Awaits(h, [r EXCEPT !.at = "delete"])
  <2>1. PICK n : n = [r EXCEPT !.at = "delete"]
    OBVIOUS
  <2>2. n.at = "delete" /\ n.id = r.id
    BY <1>2, <2>1
  <2>3. HandTyped(n)
    BY <1>3, <2>2 DEF HandTyped, Updates, Synchronises, Fills, Lists, Invites
  <2>4. ASSUME Orderly, KeysDistinct
        PROVE  Owned(n, members)
    <3>1. Beside(members, n.id)
      BY <1>3, <1>5, AnotherOwner DEF Beside
    <3>2. OwnerHand(n, members)
      BY <2>2, <3>1 DEF OwnerHand, Updates, Synchronises, Fills, Lists, Invites
    <3> QED BY <1>1, <1>2, <2>4, <3>2, TeamBefore, OwnedOn DEF At
  <2> QED BY <1>1, <1>2, <1>3, <1>5, <2>1, <2>3, <2>4, TeamAfter DEF At, team
<1> QED BY <1>1, <1>4, <1>5 DEF CountRemoved

LEMMA DeleteStep ==
  ASSUME FormedInv, TeamInv, NEW h \in Handlers, DeleteMember(h)
  PROVE  TeamInv'
<1>1. PICK r : r = req[h]
  OBVIOUS
<1>2. r.at = "delete" /\ UNCHANGED accounts /\ Awaits(h, Idle)
  BY <1>1 DEF DeleteMember, At, Ends
<1>3. People(members) /\ Realm(accounts) /\ "remove" \in mode.calls /\ ~Trusted
  BY <1>1, TeamBefore, <1>2 DEF TeamInv, TeamTyped, At, HandTyped, Removes, Trusted
<1>4. PICK table : table = Without(members, {r.id})
  OBVIOUS
<1>5. /\ members' = table /\ DOMAIN table = DOMAIN members \ {r.id}
      /\ \A k \in DOMAIN table : table[k] = members[k]
  BY <1>1, <1>4 DEF DeleteMember, Without
<1>6. People(table)
  <2>1. IsFiniteSet(DOMAIN table)
    BY <1>3, <1>5, FS_RemoveElement DEF People
  <2> QED BY <1>3, <1>5, <2>1 DEF People
<1>7. ASSUME Orderly, KeysDistinct
      PROVE  Owned(Idle, table)
  <2>1. Owned(r, members)
    BY <1>1, <1>2, <1>7, TeamBefore DEF At
  <2>2. Beside(members, r.id)
    BY <1>2, <2>1 DEF Owned, OwnerHand
  <2>3. /\ Founded => \E o \in DOMAIN table : table[o].access = Owner
        /\ Derives => \A id \in DOMAIN table : DeriveId(table[id].email) = id
    BY <1>5, <2>1, <2>2 DEF Owned, Beside
  <2> QED BY <2>3, IdleRests DEF Owned
<1> QED BY <1>1, <1>2, <1>3, <1>5, <1>6, <1>7, IdleRests, TeamAfter DEF At

\* The rows are all seen, or the holders all have one.
LEMMA TeamDoneStep ==
  ASSUME FormedInv, TeamInv, NEW h \in Handlers, BackfillDone(h) \/ MissingDone(h)
  PROVE  TeamInv'
<1>1. At(h, "look") \/ At(h, "create")
  BY DEF BackfillDone, MissingDone
<1>2. ~At(h, "idle") /\ req[h].at \notin Synchronises \cup {"provision", "grant"}
  BY <1>1 DEF At, Synchronises
<1> QED BY <1>2, TeamEnds DEF BackfillDone, MissingDone

\* What leaves the rows and the accounts, and the requests over them.
LEMMA TeamSame ==
  ASSUME FormedInv, TeamInv, UNCHANGED <<mode, team>>, Kept(Hands) \/ Stopped
  PROVE  TeamInv'
<1>1. members' = members /\ accounts' = accounts
  BY DEF team
<1>2. \A h \in Handlers : req'[h] = req[h] \/ req'[h].at \notin Hands
  BY StoppedKeeps DEF Kept, Hands, Updates, Fills, Lists, Invites, Removes
<1>3. \A r : r.at \notin Hands => /\ HandTyped(r) /\ (\A table : OwnerHand(r, table))
                                  /\ \A table, realm : ToldHand(r, table, realm)
  BY DEF HandTyped, OwnerHand, ToldHand, Hands, Updates, Fills, Lists, Invites, Removes, Synchronises
<1>4. \A r : r.at \notin Hands => Saved(r) = {} /\ Doubled(r) = {}
  BY DEF Saved, Doubled, Hands, Updates, Invites, Synchronises
<1>5. TeamTyped'
  <2>1. \A h \in Handlers : HandTyped(req'[h])
    BY <1>2, <1>3 DEF TeamInv, TeamTyped
  <2> QED BY <1>1, <2>1, ModeGoverns DEF TeamInv, TeamTyped, People, Realm
<1>6. ASSUME Orderly, KeysDistinct, NEW h \in mode.handlers
      PROVE  Owned(req'[h], members) /\ (Trusted => Governed(req'[h], members, accounts))
  <2>1. h \in Handlers /\ Owned(req[h], members) /\ (Trusted => Governed(req[h], members, accounts))
    BY <1>6, OnlyHandler DEF TeamInv
  <2>2. Owned(req'[h], members)
    BY <1>2, <1>3, <2>1 DEF Owned
  <2>3. ASSUME Trusted PROVE Governed(req'[h], members, accounts)
    <3>1. Kept(Hands)
      BY <2>3, StoppedKeeps DEF Trusted, NothingUnseen
    <3>2. req'[h] = req[h] \/ (req'[h].at \notin Hands /\ req[h].at \notin Hands)
      BY <2>1, <3>1 DEF Kept
    <3> QED BY <1>3, <1>4, <2>1, <2>3, <3>2 DEF Governed
  <2> QED BY <2>2, <2>3
<1>7. (Orderly /\ KeysDistinct => \A h \in mode.handlers :
         Owned(req[h], members) /\ (Trusted => Governed(req[h], members, accounts)))'
  BY <1>1, <1>6, ModeGoverns
<1> QED BY <1>5, <1>7 DEF TeamInv

LEMMA TeamStep ==
  ASSUME FormedInv, TeamInv, TeamNext
  PROVE  TeamInv'
<1>1. ASSUME NEW h \in Handlers, NEW actor, ByOwner(h, actor)
      PROVE  TeamInv'
  BY <1>1, UpdateStep, InviteStep, RemoveStep, BackfillStep, MissingStep DEF ByOwner
<1>2. ASSUME NEW h \in Handlers, Continues(h)
      PROVE  TeamInv'
  <2>1. \/ CountOwners(h) \/ SaveMember(h) \/ FindUserByEmail(h) \/ AssignRealmRole(h)
        \/ RemoveRealmRole(h) \/ Rollback(h) \/ (\E id : LookUpRoles(h, id)) \/ SaveResolved(h)
        \/ BackfillDone(h) \/ ListHolders(h) \/ MissingDone(h) \/ (\E email \in Emails : CreateMissing(h, email))
        \/ InsertInvited(h) \/ CreateUser(h) \/ GrantInvited(h) \/ CountRemoved(h) \/ DeleteMember(h)
    BY <1>2, Zenon DEF Continues
  <2>2. CASE \/ CountOwners(h) \/ SaveMember(h) \/ FindUserByEmail(h) \/ AssignRealmRole(h)
             \/ RemoveRealmRole(h) \/ Rollback(h)
    BY <2>2, CountStep, SaveStep, FindStep, AssignStep, RemoveRoleStep, RollbackStep
  <2>3. CASE \/ (\E id : LookUpRoles(h, id)) \/ SaveResolved(h) \/ BackfillDone(h)
             \/ ListHolders(h) \/ MissingDone(h) \/ (\E email \in Emails : CreateMissing(h, email))
    BY <2>3, LookUpStep, ResolveStep, TeamDoneStep, ListStep, CreateStep
  <2>4. CASE InsertInvited(h) \/ CreateUser(h) \/ GrantInvited(h) \/ CountRemoved(h) \/ DeleteMember(h)
    BY <2>4, InsertStep, CreateUserStep, GrantStep, CountRemovedStep, DeleteStep
  <2> QED BY <2>1, <2>2, <2>3, <2>4
<1> QED BY <1>1, <1>2 DEF TeamNext

\* The other parts leave the rows, the accounts and the requests over them.
LEMMA NotTeam ==
  ASSUME FormedInv, [Next]_vars, ~TeamNext
  PROVE  UNCHANGED <<mode, team>> /\ (Kept(Hands) \/ Stopped)
<1>0. /\ Hands \cap {"mint"} = {} /\ Hands \cap SpendAwaits = {} /\ Hands \cap DeliveryAwaits = {}
      /\ Hands \cap TenantAwaits = {} /\ "idle" \notin Hands
  BY DEF Hands, Updates, Fills, Lists, Invites, Removes, SpendAwaits, DeliveryAwaits, TenantAwaits
<1>m. ASSUME NEW h \in Handlers,
             Moves(h, {"mint"}) \/ Moves(h, SpendAwaits) \/ Moves(h, DeliveryAwaits) \/ Moves(h, TenantAwaits)
      PROVE  Kept(Hands) /\ mode' = mode
  BY <1>0, <1>m, OthersKeep DEF Moves
<1>u. Unmoved \/ Stopped => mode' = mode /\ (Kept(Hands) \/ Stopped)
  BY UnmovedKeeps DEF Unmoved, Stopped
<1>1. CASE UNCHANGED vars
  BY <1>1, <1>u DEF vars, Unmoved
<1>2. CASE UNCHANGED <<mode, req, team>>
  BY <1>2, <1>u DEF Unmoved
<1>3. CASE SessionNext
  <2>1. UNCHANGED team
    BY <1>3 DEF SessionNext, Tick, Redeploy, Login, StartAssist, CreateHandoff, Redeem
  <2> QED BY <1>3, <1>m, <1>u, <2>1, SessionMoves
<1>4. CASE SpendStep /\ UNCHANGED team
  BY <1>4, <1>m, <1>u, SpendMoves
<1>5. CASE DeliveriesStep /\ UNCHANGED team
  BY <1>5, <1>m, <1>u, DeliveryMoves
<1>6. CASE TenantsStep /\ UNCHANGED team
  BY <1>6, <1>m, <1>u, TenantMoves
<1>7. CASE Next
  <2>1. \/ SessionNext
        \/ UNCHANGED <<mode, req, team, session, clients, delivered, spend>>
        \/ SpendStep /\ UNCHANGED <<team, session, brands, clients, delivered>>
        \/ DeliveriesStep /\ UNCHANGED <<team, session, brands, clients, spend>>
        \/ TenantsStep /\ UNCHANGED <<team, session, brands, delivered, spend>>
    BY <1>7, Zenon DEF Next
  <2> QED BY <1>2, <1>3, <1>4, <1>5, <1>6, <2>1
<1> QED BY <1>1, <1>7, Zenon

LEMMA InitTeam == Init => TeamInv
<1> SUFFICES ASSUME Init PROVE TeamInv
  OBVIOUS
<1>1. /\ mode \in Modes /\ members = mode.members /\ accounts = mode.accounts
      /\ \A h \in Handlers : req[h] = Idle
  BY DEF Init
<1>2. TeamTyped
  BY <1>1, IdleRests, BackOfficeAssumption DEF TeamTyped, People, Realm
<1>3. ASSUME KeysDistinct
      PROVE  Owned(Idle, members)
  BY <1>1, <1>3, IdleRests DEF Owned, Founded, Derives, KeysDistinct
<1>4. ASSUME Trusted
      PROVE  Governed(Idle, members, accounts)
  <2>1. RowsTold(members, accounts, {}) /\ OneRole(accounts, {}) /\ Covered(members, accounts)
    BY <1>1, <1>4 DEF RowsTold, OneRole, Covered, Trusted, Agreed, OneRoleEach
  <2> QED BY <2>1, IdleRests DEF Governed
<1>5. mode.handlers \subseteq Handlers
  BY <1>1, BackOfficeAssumption
<1> QED BY <1>1, <1>2, <1>3, <1>4, <1>5 DEF TeamInv

\* While the keys that addresses give are distinct, and one request runs at a time,
\* a team that has an owner keeps one: a demotion and a removal count the owners
\* first, and what update() takes back is the row it read; and when no request is in
\* flight, a row tells the strongest role that Keycloak grants its address, because
\* what could not be synchronised was taken back, under the conditions Trusted names
\* (update(), syncKeycloakRole(), invite(), remove() and both backfills of
\* team.service.ts).
THEOREM TeamStaysGoverned == Spec => []TeamIsGoverned
<1>1. Init => FormedInv /\ TeamInv
  BY InitFormed, InitTeam
<1>2. FormedInv /\ TeamInv /\ [Next]_vars => FormedInv' /\ TeamInv'
  <2> SUFFICES ASSUME FormedInv, TeamInv, [Next]_vars PROVE TeamInv'
    BY NextFormed
  <2>1. CASE TeamNext
    BY <2>1, TeamStep
  <2>2. CASE ~TeamNext
    BY <2>2, NotTeam, TeamSame
  <2> QED BY <2>1, <2>2
<1>3. FormedInv /\ TeamInv => TeamIsGoverned
  <2> SUFFICES ASSUME FormedInv, TeamInv, Orderly PROVE OwnersRemain /\ AccessTold
    BY DEF TeamIsGoverned
  <2>1. PICK h \in Handlers : h \in mode.handlers
    BY OnlyHandler
  <2>2. OwnersRemain
    <3> SUFFICES ASSUME KeysDistinct, Founded PROVE Owners # {}
      BY DEF OwnersRemain, Founded
    <3> QED BY <2>1 DEF TeamInv, Owned, Owners
  <2>3. AccessTold
    <3> SUFFICES ASSUME Trusted, Quiet, NEW id \in DOMAIN members
                 PROVE  Tells(members[id], accounts)
      BY DEF AccessTold
    <3>1. Governed(req[h], members, accounts) /\ req[h].at = "idle"
      BY <2>1 DEF TeamInv, Trusted, Quiet
    <3> QED BY <3>1 DEF Governed, RowsTold, Saved, Synchronises
  <2> QED BY <2>2, <2>3
<1> QED BY <1>1, <1>2, <1>3, PTL DEF Spec

-----------------------------------------------------------------------------
(***************************************************************************)
(* The resolver of brands implements BrandRegistry, for any number of      *)
(* callers and brands.                                                     *)
(***************************************************************************)

Resolving == {"query", "rows", "resolved"}

BrandCall == [at : {"idle", "saveUnit", "invalidate", "seed"} \cup Resolving,
         use : {"none", "product", "all", "roles"}, code : Brands \cup {None},
         product : Products \cup {None}, asks : SUBSET Brands, found : SUBSET Brands,
         missed : SUBSET Brands, retry : Brands \cup {None}, rows : SUBSET Brands]

\* One call: what it holds exists, and it answers a code once.
Honest(call) ==
    /\ call.found \subseteq units /\ call.rows \subseteq units
    /\ call.missed \subseteq call.asks
    /\ call.missed \cap call.found = {}
    /\ call.at \notin Resolving => call.asks = {} /\ call.found = {}
    /\ call.at = "query" => call.rows = {}
    /\ call.use = "all" => call.asks = {}
    /\ call.at \in {"saveUnit", "invalidate", "seed"} => call.code \in Brands

BrandsInv ==
    /\ units \subseteq Brands
    /\ cache # None => cache \in SUBSET units
    /\ calls \in [Callers -> BrandCall]
    /\ \A c \in Callers : Honest(calls[c])

-----------------------------------------------------------------------------
LEMMA NoCallHonest == NoCall \in BrandCall /\ Honest(NoCall)
  BY DEF NoCall, BrandCall, Honest, Resolving

\* A step that leaves the brands alone and gives one caller an honest call.
LEMMA OneCallGoes ==
  ASSUME BrandsInv, NEW c \in Callers, NEW call \in BrandCall, Honest(call), Goes(c, call),
         UNCHANGED units, cache' = None \/ cache' = cache \/ cache' \in SUBSET units
  PROVE  BrandsInv'
<1>1. calls' \in [Callers -> BrandCall] /\ \A d \in Callers : calls'[d] = IF d = c THEN call ELSE calls[d]
  BY DEF BrandsInv, Goes
<1>2. \A d \in Callers : Honest(calls[d])'
  BY <1>1 DEF BrandsInv, Honest
<1> QED BY <1>1, <1>2 DEF BrandsInv

\* Looking at a map of brands that exist: what it finds exists.
LEMMA LookHonest ==
  ASSUME BrandsInv, NEW c \in Callers, NEW call \in BrandCall, Honest(call), call.at \in Resolving,
         NEW map \in SUBSET units, Look(c, call, map), UNCHANGED units
  PROVE  BrandsInv'
<1>1. /\ FoundIn(call, map) \in SUBSET units /\ MissedIn(call, map) \in SUBSET call.asks
      /\ MissedIn(call, map) \cap FoundIn(call, map) = {}
  BY DEF Honest, Left, FoundIn, MissedIn
<1>2. units \subseteq Brands /\ call.asks \subseteq Brands
  BY DEF BrandsInv, BrandCall
<1>3. ASSUME NEW at \in {"query", "resolved"}, NEW retry \in Brands \cup {None}
      PROVE  LET n == Onward(call, at, FoundIn(call, map), MissedIn(call, map), retry, {})
             IN  n \in BrandCall /\ Honest(n)
  BY <1>1, <1>2 DEF BrandCall, Honest, Resolving, Onward
<1>4. (Left(call) \ map) \subseteq Brands
  BY <1>2 DEF Left
<1> QED BY <1>3, <1>4, OneCallGoes DEF Look

LEMMA AskingHonest ==
  ASSUME NEW use \in {"product", "all", "roles"}, NEW codes \in SUBSET Brands,
         NEW product \in Products \cup {None}, use = "all" => codes = {}
  PROVE  LET call == Asking(use, codes, product)
         IN  call \in BrandCall /\ Honest(call) /\ call.at = "query" /\ call.asks = codes
  BY DEF Asking, BrandCall, Honest, Resolving

LEMMA ResolvesHonest ==
  ASSUME BrandsInv, NEW c \in Callers, NEW call \in BrandCall, Honest(call), call.at \in Resolving, Resolves(c, call)
  PROVE  BrandsInv'
<1>1. CASE cache = None
  BY <1>1, OneCallGoes DEF Resolves, Look, Goes
<1>2. CASE cache # None
  BY <1>2, LookHonest DEF Resolves, BrandsInv
<1> QED BY <1>1, <1>2

LEMMA InitBrands == BrandsInit => BrandsInv
  BY NoCallHonest DEF BrandsInit, BrandsInv, Honest, NoCall

LEMMA BrandsStepKeeps ==
  ASSUME BrandsInv, [BrandsNext]_brands
  PROVE  BrandsInv'
<1>1. CASE UNCHANGED brands
  BY <1>1 DEF brands, BrandsInv, Honest
<1>2. CASE Restart
  BY <1>2, NoCallHonest DEF Restart, BrandsInv, Honest, NoCall
<1>3. ASSUME NEW c \in Callers, BrandsStep(c)
      PROVE  BrandsInv'
  <2>0. calls[c] \in BrandCall /\ Honest(calls[c])
    BY DEF BrandsInv
  <2>1. ASSUME NEW code \in Brands, CreateBusinessUnit(c, code)
        PROVE  BrandsInv'
    <3>1. Creating("saveUnit", code) \in BrandCall /\ Honest(Creating("saveUnit", code))
      BY DEF Creating, BrandCall, Honest, Resolving
    <3> QED BY <2>1, <3>1, OneCallGoes DEF CreateBusinessUnit
  <2>2. ASSUME NEW code \in Brands, UpdateBusinessUnit(c, code)
        PROVE  BrandsInv'
    BY <2>2 DEF UpdateBusinessUnit, BrandsInv, Honest
  <2>3. CASE SaveUnit(c)
    <3> DEFINE call == calls[c]
               next == IF call.code \in units THEN NoCall ELSE Creating("invalidate", call.code)
    <3>1. call.code \in Brands /\ units' = units \cup {call.code} /\ Goes(c, next) /\ cache' = cache
      BY <2>0, <2>3 DEF SaveUnit, Honest
    <3>2. next \in BrandCall /\ next.found = {} /\ next.rows = {} /\ next.missed = {} /\ next.asks = {}
          /\ next.code \in Brands \cup {None} /\ next.at \notin Resolving
          /\ (next.at = "idle" \/ next.code \in Brands) /\ next.use = "none"
      BY <3>1 DEF BrandCall, Creating, NoCall, Resolving
    <3>3. calls' \in [Callers -> BrandCall] /\ \A d \in Callers : calls'[d] = IF d = c THEN next ELSE calls[d]
      BY <3>1, <3>2 DEF BrandsInv, Goes
    <3>4. \A d \in Callers : Honest(calls[d])'
      BY <3>1, <3>2, <3>3 DEF BrandsInv, Honest, Resolving
    <3> QED BY <3>1, <3>3, <3>4 DEF BrandsInv
  <2>4. CASE InvalidateCache(c)
    <3>1. Creating("seed", calls[c].code) \in BrandCall /\ Honest(Creating("seed", calls[c].code))
      BY <2>0, <2>4 DEF InvalidateCache, Creating, BrandCall, Honest, Resolving
    <3> QED BY <2>4, <3>1, OneCallGoes DEF InvalidateCache
  <2>5. CASE SeedSlaPolicies(c)
    BY <2>5, NoCallHonest, OneCallGoes DEF SeedSlaPolicies
  <2>6. ASSUME NEW p \in Products, RemoveProduct(c, p) \/ \E archived \in BOOLEAN : ArchiveProduct(c, p, archived)
        PROVE  BrandsInv'
    BY <2>6 DEF RemoveProduct, ArchiveProduct, BrandsInv, Honest
  <2>7. ASSUME NEW p \in Products, NEW code \in Brands, Resolve(c, code, p)
        PROVE  BrandsInv'
    BY <2>7, AskingHonest, ResolvesHonest DEF Resolve, Resolving
  <2>8. CASE ResolveAllIds(c)
    BY <2>8, AskingHonest, ResolvesHonest DEF ResolveAllIds, Resolving
  <2>9. ASSUME NEW codes \in SUBSET Brands, ResolveAllowedUnits(c, codes)
        PROVE  BrandsInv'
    BY <2>9, AskingHonest, ResolvesHonest DEF ResolveAllowedUnits, Resolving
  <2>10. CASE RunQuery(c)
    <3> DEFINE call == Onward(calls[c], "rows", calls[c].found, calls[c].missed, calls[c].retry, units)
    <3>1. call \in BrandCall /\ Honest(call)
      BY <2>0, <2>10 DEF BrandsInv, Onward, BrandCall, Honest, Resolving, RunQuery
    <3> QED BY <2>10, <3>1, OneCallGoes DEF RunQuery
  <2>11. CASE Load(c)
    BY <2>0, <2>11, LookHonest DEF Load, Honest, Resolving
  <2>12. CASE Finish(c)
    BY <2>12, NoCallHonest, OneCallGoes DEF Finish
  <2> QED BY <1>3, <2>1, <2>2, <2>3, <2>4, <2>5, <2>6, <2>7, <2>8, <2>9, <2>10, <2>11, <2>12 DEF BrandsStep
<1> QED BY <1>1, <1>2, <1>3 DEF BrandsNext

-----------------------------------------------------------------------------
(* The mapping to BrandRegistry *)

askedOf == [c \in Callers |-> calls[c].asks]
yesOf == [c \in Callers |-> Yes(calls[c])]
noOf == [c \in Callers |-> No(calls[c])]

\* One caller goes on: the others have askedOf and been told what they had.
LEMMA CallMapped ==
  ASSUME BrandsInv, NEW c \in Callers, NEW call, Goes(c, call)
  PROVE  /\ askedOf' = [askedOf EXCEPT ![c] = call.asks]
         /\ yesOf' = [yesOf EXCEPT ![c] = Yes(call)]
         /\ noOf' = [noOf EXCEPT ![c] = No(call)]
<1>1. \A d \in Callers : calls'[d] = IF d = c THEN call ELSE calls[d]
  BY DEF BrandsInv, Goes
<1> QED BY <1>1 DEF askedOf, yesOf, noOf

LEMMA AskingNothing ==
  ASSUME NEW call \in BrandCall, Honest(call), call.at \notin Resolving
  PROVE  call.asks = {} /\ Yes(call) = {} /\ No(call) = {}
  BY DEF Honest, Yes, No, Resolving

\* Looking at a map settles what it holds, and the code it was loaded for.
LEMMA LookAnswers ==
  ASSUME BrandsInv, NEW c \in Callers, NEW call \in BrandCall, Honest(call), call.at \in Resolving,
         NEW map \in SUBSET units, Look(c, call, map)
  PROVE  /\ askedOf' = [askedOf EXCEPT ![c] = call.asks]
         /\ yesOf' = [yesOf EXCEPT ![c] = call.asks \cap (call.found \cup (Left(call) \cap map))]
         /\ noOf' = [noOf EXCEPT ![c] = MissedIn(call, map)]
<1>1. ASSUME NEW at \in {"query", "resolved"}, NEW retry
      PROVE  LET n == Onward(call, at, FoundIn(call, map), MissedIn(call, map), retry, {})
             IN  /\ n.asks = call.asks /\ No(n) = MissedIn(call, map)
                 /\ Yes(n) = call.asks \cap (call.found \cup (Left(call) \cap map))
  BY DEF Onward, Yes, No, FoundIn, Honest
<1> QED BY <1>1, CallMapped DEF Look

LEMMA AskMapped ==
  ASSUME BrandsInv, NEW c \in Callers, Free(c), NEW use \in {"product", "all", "roles"},
         NEW codes \in SUBSET Brands, NEW product \in Products \cup {None}, use = "all" => codes = {},
         Resolves(c, Asking(use, codes, product))
  PROVE  \E known \in SUBSET Brands : Registry!Ask(c, codes, known)
<1> DEFINE call == Asking(use, codes, product)
<1>1. call \in BrandCall /\ Honest(call) /\ call.at = "query" /\ call.asks = codes
  BY AskingHonest
<1>2. call.found = {} /\ call.missed = {} /\ call.retry = None
  BY DEF Asking
<1>3. askedOf[c] = {} /\ yesOf[c] = {} /\ noOf[c] = {}
  BY AskingNothing DEF BrandsInv, Free, Resolving, askedOf, yesOf, noOf
<1>4. CASE cache = None
  <2>1. Yes(call) = {} /\ No(call) = {}
    BY <1>1, <1>2 DEF Yes, No
  <2>2. /\ askedOf' = [askedOf EXCEPT ![c] = codes] /\ units' = units
        /\ yesOf' = [yesOf EXCEPT ![c] = {}] /\ noOf' = [noOf EXCEPT ![c] = {}]
    BY <1>1, <1>4, <2>1, CallMapped DEF Resolves
  <2>3. Registry!Ask(c, codes, {})
    BY <1>3, <2>2 DEF Registry!Ask, Registry!Answer, askedOf, yesOf, noOf
  <2> QED BY <2>3
<1>5. CASE cache # None
  <2>0. PICK known \in SUBSET Brands : known = codes \cap cache
    OBVIOUS
  <2>1. cache \in SUBSET units /\ known \subseteq units /\ units' = units
    BY <1>5, <2>0 DEF BrandsInv, Resolves
  <2>2. MissedIn(call, cache) = {} /\ codes \cap (call.found \cup (Left(call) \cap cache)) = codes \cap cache
    BY <1>1, <1>2, NullIsNoBrand DEF MissedIn, Left
  <2>3. /\ askedOf' = [askedOf EXCEPT ![c] = codes]
        /\ yesOf' = [yesOf EXCEPT ![c] = codes \cap cache] /\ noOf' = [noOf EXCEPT ![c] = {}]
    BY <1>1, <1>5, <2>1, <2>2, LookAnswers DEF Resolves, Resolving
  <2>4. yesOf' = [yesOf EXCEPT ![c] = @ \cup (known \cap units)] /\ noOf' = [noOf EXCEPT ![c] = @ \cup (known \ units)]
    BY <1>3, <2>0, <2>1, <2>3 DEF yesOf, noOf
  <2>5. Registry!Ask(c, codes, known)
    BY <1>3, <2>1, <2>3, <2>4 DEF Registry!Ask, Registry!Answer, askedOf, yesOf, noOf
  <2> QED BY <2>5
<1> QED BY <1>4, <1>5

LEMMA InitMapped == BrandsInit => Registry!Init
  BY DEF BrandsInit, NoCall, Yes, No, Registry!Init, Registry!Nothing

\* A caller that asks nothing before and after: at most a brand is registered.
LEMMA OtherwiseMapped ==
  ASSUME BrandsInv, BrandsInv', NEW c \in Callers, NEW call, Goes(c, call),
         calls[c].at \notin Resolving, calls'[c].at \notin Resolving, NEW codes \in SUBSET Brands,
         units' = units \cup codes
  PROVE  Registry!Register(codes)
<1>1. \A d \in Callers : d # c => calls'[d] = calls[d]
  BY DEF BrandsInv, Goes
<1>2. calls[c].asks = {} /\ Yes(calls[c]) = {} /\ No(calls[c]) = {}
  BY AskingNothing DEF BrandsInv
<1>3. calls'[c].asks = {} /\ Yes(calls'[c]) = {} /\ No(calls'[c]) = {}
  BY DEF BrandsInv, Honest, Yes, No, Resolving
<1>4. askedOf' = askedOf /\ yesOf' = yesOf /\ noOf' = noOf
  BY <1>1, <1>2, <1>3 DEF askedOf, yesOf, noOf
<1> QED BY <1>4 DEF Registry!Register, askedOf, yesOf, noOf

\* ... and when no brand is registered either, nothing happens.
LEMMA NothingMapped ==
  ASSUME BrandsInv, BrandsInv', NEW c \in Callers, NEW call, Goes(c, call),
         calls[c].at \notin Resolving, calls'[c].at \notin Resolving, units' = units
  PROVE  \E codes \in SUBSET Brands : Registry!Register(codes)
<1> DEFINE codes == {}
<1>1. codes \in SUBSET Brands /\ units' = units \cup codes
  OBVIOUS
<1> HIDE DEF codes
<1>2. Registry!Register(codes)
  BY <1>1, OtherwiseMapped
<1> QED BY <1>1, <1>2, Zenon

\* A query that has run answers for what it found, and for the code it is for.
LEMMA QueryMapped ==
  ASSUME BrandsInv, NEW c \in Callers, RunQuery(c)
  PROVE  \E known \in SUBSET Brands : Registry!Tell(c, known)
<1> DEFINE call == calls[c]
           next == Onward(call, "rows", call.found, call.missed, call.retry, units)
           known == (Left(call) \cap units) \cup ((Left(call) \cap {call.retry}) \ units)
<1>1. call \in BrandCall /\ Honest(call) /\ call.at = "query" /\ Goes(c, next) /\ units' = units
  BY DEF RunQuery, BrandsInv
<1>2. /\ askedOf[c] = call.asks /\ yesOf[c] = call.asks \cap call.found /\ noOf[c] = call.missed
  BY <1>1 DEF askedOf, yesOf, noOf, Yes, No
<1>3. /\ next.asks = call.asks
      /\ Yes(next) = (call.asks \cap call.found) \cup (Left(call) \cap units)
      /\ No(next) = call.missed \cup ((Left(call) \cap {call.retry}) \ units)
  BY DEF Onward, Yes, No, Left
<1>4. known \in SUBSET Brands /\ known \subseteq askedOf[c] \ (yesOf[c] \cup noOf[c])
  BY <1>1, <1>2 DEF BrandCall, Left
<1>5. /\ known \cap units = Left(call) \cap units
      /\ known \ units = (Left(call) \cap {call.retry}) \ units
  OBVIOUS
<1>6. askedOf' = askedOf /\ yesOf' = [yesOf EXCEPT ![c] = @ \cup (known \cap units)]
      /\ noOf' = [noOf EXCEPT ![c] = @ \cup (known \ units)]
  <2>1. askedOf' = [askedOf EXCEPT ![c] = call.asks] /\ yesOf' = [yesOf EXCEPT ![c] = Yes(next)] /\ noOf' = [noOf EXCEPT ![c] = No(next)]
    BY <1>1, <1>3, CallMapped
  <2>2. askedOf' = askedOf
    BY <2>1 DEF askedOf
  <2> QED BY <2>1, <2>2, <1>2, <1>3, <1>5 DEF yesOf, noOf
<1>7. Registry!Tell(c, known)
  BY <1>1, <1>4, <1>6 DEF Registry!Tell, Registry!Answer, askedOf, yesOf, noOf
<1> HIDE DEF known
<1> QED BY <1>4, <1>7

\* What comes back is what was answered.
LEMMA LoadMapped ==
  ASSUME BrandsInv, NEW c \in Callers, Load(c)
  PROVE  UNCHANGED <<units, askedOf, yesOf, noOf>>
<1> DEFINE call == calls[c]
<1>1. /\ call \in BrandCall /\ Honest(call) /\ call.at = "rows" /\ call.rows \in SUBSET units
      /\ Look(c, call, call.rows) /\ units' = units
  BY DEF Load, BrandsInv, Honest
<1>2. /\ askedOf' = [askedOf EXCEPT ![c] = call.asks]
      /\ yesOf' = [yesOf EXCEPT ![c] = call.asks \cap (call.found \cup (Left(call) \cap call.rows))]
      /\ noOf' = [noOf EXCEPT ![c] = MissedIn(call, call.rows)]
  BY <1>1, LookAnswers DEF Resolving
<1>3. /\ call.asks \cap (call.found \cup (Left(call) \cap call.rows)) = Yes(call)
      /\ MissedIn(call, call.rows) = No(call)
  BY <1>1 DEF Yes, No, MissedIn, Left
<1>4. askedOf' = askedOf /\ yesOf' = yesOf /\ noOf' = noOf
  BY <1>2, <1>3 DEF askedOf, yesOf, noOf
<1> QED BY <1>1, <1>4

\* A caller that is done leaves; a restart makes all of them leave.
LEMMA LeaveMapped ==
  ASSUME BrandsInv, NEW gone \in SUBSET Callers, UNCHANGED units,
         calls' = [c \in Callers |-> IF c \in gone THEN NoCall ELSE calls[c]]
  PROVE  Registry!Leave(gone)
<1>1. NoCall.asks = {} /\ Yes(NoCall) = {} /\ No(NoCall) = {}
  BY DEF NoCall, Yes, No
<1>2. \A c \in Callers : calls'[c] = IF c \in gone THEN NoCall ELSE calls[c]
  OBVIOUS
<1> QED BY <1>1, <1>2 DEF Registry!Leave

LEMMA StepMapped ==
  ASSUME BrandsInv, BrandsInv', [BrandsNext]_brands
  PROVE  [Registry!Next]_(Registry!vars)
<1>1. CASE UNCHANGED brands
  BY <1>1 DEF brands, Registry!vars, Yes, No, Left
<1>2. CASE Restart
  <2>1. Registry!Leave(Callers)
    BY <1>2, LeaveMapped DEF Restart
  <2> QED BY <2>1 DEF Registry!Next
<1>3. ASSUME NEW c \in Callers, BrandsStep(c)
      PROVE  [Registry!Next]_(Registry!vars)
  <2>1. ASSUME NEW codes \in SUBSET Brands, Registry!Register(codes)
        PROVE  [Registry!Next]_(Registry!vars)
    BY <2>1 DEF Registry!Next
  <2>2. ASSUME NEW code \in Brands, CreateBusinessUnit(c, code) \/ UpdateBusinessUnit(c, code)
        PROVE  [Registry!Next]_(Registry!vars)
    <3>1. CASE CreateBusinessUnit(c, code)
      <4>1. calls[c].at \notin Resolving /\ Goes(c, Creating("saveUnit", code)) /\ units' = units
        BY <3>1 DEF CreateBusinessUnit, Free, Resolving
      <4>2. calls'[c].at \notin Resolving
        BY <4>1 DEF Goes, Creating, Resolving, BrandsInv
      <4> QED BY <4>1, <4>2, NothingMapped DEF Registry!Next
    <3>2. CASE UpdateBusinessUnit(c, code)
      BY <3>2 DEF UpdateBusinessUnit, Registry!vars
    <3> QED BY <2>2, <3>1, <3>2
  <2>3. CASE SaveUnit(c)
    <3> DEFINE code == calls[c].code
               next == IF code \in units THEN NoCall ELSE Creating("invalidate", code)
    <3>1. calls[c].at \notin Resolving /\ Goes(c, next) /\ units' = units \cup {code} /\ code \in Brands
      BY <2>3 DEF SaveUnit, Resolving, BrandsInv, Honest
    <3>2. calls'[c].at \notin Resolving
      BY <3>1 DEF Goes, Creating, NoCall, Resolving, BrandsInv
    <3> HIDE DEF code, next
    <3> QED BY <2>1, <3>1, <3>2, OtherwiseMapped
  <2>4. CASE InvalidateCache(c)
    <3>1. calls[c].at \notin Resolving /\ Goes(c, Creating("seed", calls[c].code)) /\ units' = units
      BY <2>4 DEF InvalidateCache, Resolving
    <3>2. calls'[c].at \notin Resolving
      BY <3>1 DEF Goes, Creating, Resolving, BrandsInv
    <3> QED BY <3>1, <3>2, NothingMapped DEF Registry!Next
  <2>5. CASE SeedSlaPolicies(c)
    <3>1. calls[c].at \notin Resolving /\ Goes(c, NoCall) /\ units' = units
      BY <2>5 DEF SeedSlaPolicies, Resolving
    <3>2. calls'[c].at \notin Resolving
      BY <3>1 DEF Goes, NoCall, Resolving, BrandsInv
    <3> QED BY <3>1, <3>2, NothingMapped DEF Registry!Next
  <2>6. ASSUME NEW p \in Products, RemoveProduct(c, p) \/ \E archived \in BOOLEAN : ArchiveProduct(c, p, archived)
        PROVE  [Registry!Next]_(Registry!vars)
    BY <2>6 DEF RemoveProduct, ArchiveProduct, Registry!vars
  <2>7. ASSUME NEW codes \in SUBSET Brands, \E known \in SUBSET Brands : Registry!Ask(c, codes, known)
        PROVE  [Registry!Next]_(Registry!vars)
    BY <2>7 DEF Registry!Next
  <2>8. ASSUME NEW p \in Products, NEW code \in Brands, Resolve(c, code, p)
        PROVE  [Registry!Next]_(Registry!vars)
    BY <2>7, <2>8, AskMapped DEF Resolve, Resolves
  <2>9. CASE ResolveAllIds(c)
    BY <2>7, <2>9, AskMapped DEF ResolveAllIds, Resolves
  <2>10. ASSUME NEW codes \in SUBSET Brands, ResolveAllowedUnits(c, codes)
         PROVE  [Registry!Next]_(Registry!vars)
    BY <2>7, <2>10, AskMapped DEF ResolveAllowedUnits, Resolves
  <2>11. CASE RunQuery(c)
    BY <2>11, QueryMapped DEF Registry!Next
  <2>12. CASE Load(c)
    BY <2>12, LoadMapped DEF Registry!vars, askedOf, yesOf, noOf
  <2>13. CASE Finish(c)
    <3>1. calls' = [d \in Callers |-> IF d \in {c} THEN NoCall ELSE calls[d]] /\ units' = units
      BY <2>13 DEF Finish, Goes, BrandsInv
    <3>2. Registry!Leave({c})
      BY <3>1, LeaveMapped
    <3> QED BY <3>2 DEF Registry!Next
  <2> QED BY <1>3, <2>2, <2>3, <2>4, <2>5, <2>6, <2>8, <2>9, <2>10, <2>11, <2>12, <2>13 DEF BrandsStep
<1> QED BY <1>1, <1>2, <1>3 DEF BrandsNext

\* The other parts leave the brands alone.
LEMMA BrandsAlone == FormedInv /\ [Next]_vars => [BrandsNext]_brands
<1>1. ASSUME FormedInv, NEW c \in mode.callers, BrandsStep(c)
      PROVE  BrandsNext
  BY <1>1, BackOfficeAssumption DEF FormedInv, BrandsNext
<1> QED BY <1>1 DEF Next, vars, BrandsNext

-----------------------------------------------------------------------------
\* What is cached, loaded or found exists: no caller is told of a brand that
\* is not there, whatever else the service does meanwhile.
THEOREM BrandsExist == Spec => []BrandsInv
<1>1. Init => BrandsInv
  BY InitBrands DEF Init
<1>2. FormedInv /\ BrandsInv /\ [Next]_vars => BrandsInv'
  BY BrandsAlone, BrandsStepKeeps
<1> QED BY <1>1, <1>2, InitFormed, NextFormed, PTL DEF Spec

\* Whatever loads, invalidations, creations and restarts overlap, each code a
\* call asks about is answered by the truth at some moment of the call: the
\* resolver implements BrandRegistry.
THEOREM TrulyResolved == Spec => ResolvesTruly
<1>1. Init => Registry!Init
  BY InitMapped DEF Init
<1>2. FormedInv /\ BrandsInv /\ BrandsInv' /\ [Next]_vars => [Registry!Next]_(Registry!vars)
  BY BrandsAlone, StepMapped
<1> QED BY <1>1, <1>2, BrandsExist, InitFormed, NextFormed, PTL DEF Spec, ResolvesTruly, Registry!Spec
=============================================================================
