----------------------------- MODULE Deliveries -----------------------------
(***************************************************************************)
(* What must happen once although it may be asked for again: a command     *)
(* under an idempotency key (idempotency.service.ts), a broadcast          *)
(* (broadcast.service.ts), the reminder of a task due soon                 *)
(* (studio-due-soon.scheduler.ts); and the notifications and devices       *)
(* messages go to (notifications.service.ts, push.service.ts).             *)
(***************************************************************************)
EXTENDS Requests

CONSTANTS
    Keys,           \* idempotency keys of a client
    Bodies,         \* what is asked under them
    Recipients,     \* of a broadcast, and the team
    Tasks,          \* work items that are due soon
    Devices,        \* endpoints of browsers
    LastDay,        \* bound on the days
    MaxSent         \* bound on how often one thing is sent

VARIABLES
    day,            \* external: today
    keys,           \* api_idempotency_keys: key -> [hash, day]
    broadcast,      \* a row of broadcasts: [status, count], or None
    dedups,         \* studio_notification_dedup: <<task, day>>, unique
    inbox,          \* notifications: id -> [to, read, cleared]
    devices,        \* push_subscriptions: endpoint -> member
    sent            \* history: what was done or sent, how often

delivered == <<day, keys, broadcast, dedups, inbox, devices, sent>>

Sent(key) == IF key \in DOMAIN sent THEN sent[key] ELSE 0
Sends(key) == Sent(key) < MaxSent /\ sent' = With(sent, key, Sent(key) + 1)

DeliveriesInit ==
    /\ day = 0 /\ keys = << >> /\ dedups = {} /\ sent = << >> /\ inbox = << >> /\ devices = << >>
    /\ broadcast = IF mode.broadcast = None THEN None ELSE [status |-> "draft", count |-> 0]

DayPasses ==
    /\ mode.calls \cap {"command", "due"} # {} /\ day < LastDay /\ day' = day + 1
    /\ UNCHANGED <<mode, req, keys, broadcast, dedups, inbox, devices, sent>>

\* run(): the key is looked up; a body that differs is refused, one that agrees
\* is answered from the row.
RunCommand(h, key, body) ==
    /\ MayStart(h) /\ "command" \in mode.calls
    /\ IF key \in DOMAIN keys THEN UNCHANGED req
       ELSE req' = [req EXCEPT ![h] = [at |-> "execute", key |-> key, body |-> body]]
    /\ UNCHANGED <<mode, delivered>>

\* What it runs may fail, which leaves the key unused.
ExecuteCommand(h) ==
    /\ At(h, "execute")
    /\ \/ Sends(<<"command", req[h].key, day>>) /\ Awaits(h, [req[h] EXCEPT !.at = "store"])
       \/ "fails" \in mode.faults /\ Ends(h) /\ UNCHANGED sent
    /\ UNCHANGED <<day, keys, broadcast, dedups, inbox, devices>>

\* Unique(client, key): the second of two that overlapped fails here, its command
\* done.
StoreKey(h) ==
    /\ At(h, "store") /\ Ends(h)
    /\ keys' = IF req[h].key \in DOMAIN keys THEN keys
                  ELSE With(keys, req[h].key, [hash |-> req[h].body, day |-> day])
    /\ UNCHANGED <<day, broadcast, dedups, inbox, devices, sent>>

\* purgeExpired(), a day after.
Purge ==
    /\ "command" \in mode.calls
    /\ keys' = Rows(keys, {key \in DOMAIN keys : keys[key].day >= day - 1})
    /\ UNCHANGED <<mode, req, day, broadcast, dedups, inbox, devices, sent>>

\* send(): what is sent already is left alone; in-app delivery is the row.
SendBroadcast(h) ==
    /\ MayStart(h) /\ "broadcast" \in mode.calls /\ broadcast # None /\ broadcast.status # "sent"
    /\ Awaits(h, IF mode.broadcast = "in-app"
                    THEN [at |-> "mark", left |-> {}, reached |-> Recipients, failed |-> {}]
                 ELSE [at |-> "publish", left |-> Recipients, reached |-> {}, failed |-> {}])
    /\ UNCHANGED delivered

PublishTo(h, to) ==
    /\ At(h, "publish") /\ to \in req[h].left
    /\ LET rest == req[h].left \ {to}
           Goes(reached, failed) ==
               Awaits(h, [at |-> IF rest = {} THEN "mark" ELSE "publish", left |-> rest,
                          reached |-> reached, failed |-> failed])
       IN  \/ Sends(<<"broadcast", to>>) /\ Goes(req[h].reached \cup {to}, req[h].failed)
           \/ "publish" \in mode.faults /\ Goes(req[h].reached, req[h].failed \cup {to}) /\ UNCHANGED sent
    /\ UNCHANGED <<day, keys, broadcast, dedups, inbox, devices>>

\* Mutant: a partial dispatch may be sent again.
MarkUnlessPartial(h) ==
    /\ At(h, "mark") /\ Ends(h)
    /\ broadcast' = [status |-> IF req[h].failed # {} THEN "failed" ELSE "sent",
                     count |-> Cardinality(req[h].reached)]
    /\ UNCHANGED <<day, keys, dedups, inbox, devices, sent>>

\* save(): the row is written again if it was removed meanwhile.
MarkSent(h) ==
    /\ At(h, "mark") /\ Ends(h)
    /\ broadcast' = [status |-> IF req[h].reached = {} THEN "failed" ELSE "sent",
                     count |-> Cardinality(req[h].reached)]
    /\ UNCHANGED <<day, keys, dedups, inbox, devices, sent>>

RemoveBroadcast ==
    /\ "broadcast" \in mode.calls /\ broadcast # None /\ broadcast' = None
    /\ UNCHANGED <<mode, req, day, keys, dedups, inbox, devices, sent>>

\* run() of the scheduler, whose date is taken once.
RemindDueSoon(h) ==
    /\ MayStart(h) /\ "due" \in mode.calls
    /\ Awaits(h, [at |-> "dedup", left |-> Tasks, today |-> day])
    /\ UNCHANGED delivered

\* The row is saved before the mail, and a task that has one is passed over.
SaveDedup(h, task) ==
    /\ At(h, "dedup") /\ task \in req[h].left
    /\ LET rest == req[h].left \ {task}
           key == <<task, req[h].today>>
       IN  IF key \in dedups
           THEN Awaits(h, IF rest = {} THEN Idle ELSE [req[h] EXCEPT !.left = rest]) /\ UNCHANGED dedups
           ELSE dedups' = dedups \cup {key} /\ Awaits(h, [at |-> "mail", task |-> task, left |-> rest, today |-> req[h].today])
    /\ UNCHANGED <<day, keys, broadcast, inbox, devices, sent>>

\* taskDueSoon(): nothing is sent while the bus is down.
MailDueSoon(h) ==
    /\ At(h, "mail")
    /\ Awaits(h, IF req[h].left = {} THEN Idle
                    ELSE [at |-> "dedup", left |-> req[h].left, today |-> req[h].today])
    /\ \/ Sends(<<"due", req[h].task, req[h].today>>)
       \/ "publish" \in mode.faults /\ UNCHANGED sent
    /\ UNCHANGED <<day, keys, broadcast, dedups, inbox, devices>>

\* createForRecipients(), then the push to each device: the rows are written in
\* one save, the devices read after it.
Notify(h, ids) ==
    /\ MayStart(h) /\ "notify" \in mode.calls
    /\ \A id \in DOMAIN ids : Unused(id, inbox)
    /\ inbox' = [id \in DOMAIN inbox \cup DOMAIN ids |->
                   IF id \in DOMAIN ids THEN [to |-> ids[id], read |-> FALSE, cleared |-> FALSE]
                      ELSE inbox[id]]
    /\ Awaits(h, [at |-> "push", to |-> {ids[id] : id \in DOMAIN ids}])
    /\ UNCHANGED <<day, keys, broadcast, dedups, devices, sent>>

ReadDevices(h) ==
    /\ At(h, "push")
    /\ LET found == {d \in DOMAIN devices : devices[d] \in req[h].to}
       IN  Awaits(h, IF found = {} THEN Idle
                        ELSE [at |-> "dispatch", left |-> [d \in found |-> devices[d]]])
    /\ UNCHANGED delivered

\* dispatch(): a device the push service no longer knows is pruned by its id.
Dispatch(h, d) ==
    /\ At(h, "dispatch") /\ d \in DOMAIN req[h].left
    /\ Awaits(h, IF DOMAIN req[h].left = {d} THEN Idle ELSE [req[h] EXCEPT !.left = Without(@, {d})])
    /\ devices' \in {devices} \cup (IF "gone" \in mode.faults THEN {Without(devices, {d})} ELSE {})
    /\ UNCHANGED <<day, keys, broadcast, dedups, inbox, sent>>

Subscribe(member, d) ==
    /\ "notify" \in mode.calls /\ devices' = With(devices, d, member)
    /\ UNCHANGED <<mode, req, day, keys, broadcast, dedups, inbox, sent>>

Unsubscribe(member, d) ==
    /\ "notify" \in mode.calls /\ d \in DOMAIN devices /\ devices[d] = member
    /\ devices' = Without(devices, {d})
    /\ UNCHANGED <<mode, req, day, keys, broadcast, dedups, inbox, sent>>

\* markRead() and clear() of one's own notification, read before it is saved.
MarkRead(h, id, member, field) ==
    /\ MayStart(h) /\ "notify" \in mode.calls
    /\ id \in DOMAIN inbox /\ inbox[id].to = member /\ ~inbox[id][field]
    /\ Awaits(h, [at |-> "stamp", row |-> [inbox[id] EXCEPT ![field] = TRUE], of |-> id])
    /\ UNCHANGED delivered

Stamp(h) ==
    /\ At(h, "stamp") /\ Ends(h)
    /\ inbox' = With(inbox, req[h].of, req[h].row)
    /\ UNCHANGED <<day, keys, broadcast, dedups, devices, sent>>

MarkAllRead(member) ==
    /\ "notify" \in mode.calls
    /\ inbox' = [id \in DOMAIN inbox |->
                   IF inbox[id].to = member /\ ~inbox[id].cleared THEN [inbox[id] EXCEPT !.read = TRUE]
                      ELSE inbox[id]]
    /\ UNCHANGED <<mode, req, day, keys, broadcast, dedups, devices, sent>>

\* The process stops; the tables stay.
Stops ==
    /\ "crash" \in mode.faults /\ req' = [h \in Handlers |-> Idle]
    /\ UNCHANGED <<mode, delivered>>

DeliveriesStep ==
    \/ DayPasses \/ Purge \/ RemoveBroadcast \/ Stops
    \/ \E h \in Handlers :
         \/ \E key \in Keys, body \in Bodies : RunCommand(h, key, body)
         \/ ExecuteCommand(h) \/ StoreKey(h)
         \/ SendBroadcast(h) \/ (\E to \in Recipients : PublishTo(h, to)) \/ MarkSent(h)
         \/ RemindDueSoon(h) \/ (\E task \in Tasks : SaveDedup(h, task)) \/ MailDueSoon(h)
         \/ \E ids \in mode.notices : Notify(h, ids)
         \/ ReadDevices(h) \/ (\E d \in Devices : Dispatch(h, d)) \/ Stamp(h)
         \/ \E id \in DOMAIN inbox, member \in Recipients, field \in {"read", "cleared"} : MarkRead(h, id, member, field)
    \/ \E member \in Recipients :
         MarkAllRead(member) \/ \E d \in Devices : Subscribe(member, d) \/ Unsubscribe(member, d)

\* What is asked again happens once: a reminder once a day, however runs of the
\* scheduler overlap, cross midnight or stop; where requests do not overlap and
\* the process does not stop between the deed and its row, a broadcast once per
\* recipient, however often it is sent and whatever fails on the way, and a
\* command once per key until the key is purged (run(), send(), purgeExpired()).
HappensOnce ==
    \A key \in DOMAIN sent :
      /\ key[1] = "due" => sent[key] = 1
      /\ (Orderly /\ ~Interrupted) =>
           /\ sent[key] = 1
           /\ key[1] = "command" => <<"command", key[2], key[3] + 1>> \notin DOMAIN sent
=============================================================================
