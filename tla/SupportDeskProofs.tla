-------------------------- MODULE SupportDeskProofs --------------------------
(***************************************************************************)
(* An SLA clock alerts at most once, for any number of tickets, sweeps and *)
(* requests under way, whatever fails: the row the unique index lets in    *)
(* only once is written before the alert, and is never removed.  What is   *)
(* settled stands while requests do not overlap: the row a lone request    *)
(* saves is the row that is there, changed.  Then a clock reads what the   *)
(* ticket has waited: the events that reach the log leave what it reads    *)
(* alone, and a minute adds one where the last of them runs.               *)
(***************************************************************************)
EXTENDS SupportDesk, FiniteSetTheorems, WellFoundedInduction, TLAPS

IsLog(log) == \E S : log \in Seq(S)

LogOK == IsLog(events)

SweepsOK == sweep = [s \in Sweeps |-> sweep[s]]

NotifiedOK == notified \in [Tickets \X Clocks -> Nat]

Alerting(s) == <<First(sweep[s].todo).ticket, First(sweep[s].todo).clock>>

\* An alert sent, or about to be, has its event in the log.
AlertedAreRecorded ==
    \A tc \in Tickets \X Clocks :
        /\ notified[tc] <= 1
        /\ notified[tc] # 0 => Recorded(tc[1], "approaching", tc[2])

\* What a sweep is about to send has not been sent, and no other is about to.
AlertsAreFirst ==
    \A s \in Sweeps : sweep[s].at = "alert" =>
        /\ Recorded(Alerting(s)[1], "approaching", Alerting(s)[2])
        /\ Alerting(s) \in Tickets \X Clocks => notified[Alerting(s)] = 0
        /\ \A t \in Sweeps : sweep[t].at = "alert" /\ Alerting(t) = Alerting(s) => t = s

IInv == LogOK /\ SweepsOK /\ NotifiedOK /\ AlertedAreRecorded /\ AlertsAreFirst

-----------------------------------------------------------------------------
\* Appending to the log keeps what is in it and adds the new event.
LEMMA AppendLog ==
    ASSUME NEW log, IsLog(log), NEW e
    PROVE  /\ IsLog(Append(log, e))
           /\ \A i \in DOMAIN log : i \in DOMAIN Append(log, e) /\ Append(log, e)[i] = log[i]
           /\ \E i \in DOMAIN Append(log, e) : Append(log, e)[i] = e
  <1>1. PICK S : log \in Seq(S)
    BY DEF IsLog
  <1>2. log \in Seq(S \cup {e})
    BY <1>1
  <1>3. Append(log, e) \in Seq(S \cup {e})
    BY <1>2
  <1>4. /\ Len(log) \in Nat /\ DOMAIN log = 1..Len(log)
        /\ DOMAIN Append(log, e) = 1..(Len(log) + 1)
        /\ Append(log, e)[Len(log) + 1] = e
        /\ \A i \in 1..Len(log) : Append(log, e)[i] = log[i]
    BY <1>2
  <1> QED
    BY <1>3, <1>4 DEF IsLog

\* What has been recorded stays recorded when the log grows.
LEMMA RecordedStays ==
    ASSUME LogOK, NEW e, events' = Append(events, e), NEW id, NEW action, NEW clock,
           Recorded(id, action, clock)
    PROVE  Recorded(id, action, clock)'
  BY AppendLog DEF LogOK, Recorded

\* Steps of no sweep: the log grows or stays, alerts and sweeps stay.
LEMMA LogGrows ==
    ASSUME IInv, UNCHANGED <<sweep, notified>>,
           UNCHANGED events \/ \E e : events' = Append(events, e)
    PROVE  IInv'
  <1>1. CASE UNCHANGED events
    BY <1>1 DEF IInv, LogOK, SweepsOK, NotifiedOK, AlertedAreRecorded, AlertsAreFirst, Alerting, Recorded
  <1>2. CASE \E e : events' = Append(events, e)
    <2> PICK e : events' = Append(events, e)
      BY <1>2
    <2>1. LogOK'
      BY AppendLog DEF IInv, LogOK
    <2>2. \A id, action, clock : Recorded(id, action, clock) => Recorded(id, action, clock)'
      BY RecordedStays DEF IInv
    <2>3. AlertedAreRecorded'
      BY <2>2 DEF IInv, AlertedAreRecorded
    <2>4. AlertsAreFirst'
      BY <2>2 DEF IInv, AlertsAreFirst, Alerting
    <2> QED
      BY <2>1, <2>3, <2>4 DEF IInv, SweepsOK, NotifiedOK
  <1> QED
    BY <1>1, <1>2

\* A sweep that moves on without alerting, the log unchanged.
LEMMA SweepMovesOn ==
    ASSUME IInv, NEW s \in Sweeps, NEW r, r.at # "alert", sweep' = [sweep EXCEPT ![s] = r],
           UNCHANGED <<events, notified>>
    PROVE  IInv'
  <1>1. \A t \in Sweeps : sweep'[t] = IF t = s THEN r ELSE sweep[t]
    BY DEF IInv, SweepsOK
  <1>2. SweepsOK'
    BY DEF IInv, SweepsOK
  <1>3. AlertsAreFirst'
    BY <1>1 DEF IInv, AlertsAreFirst, Alerting, Recorded
  <1> QED
    BY <1>2, <1>3 DEF IInv, LogOK, NotifiedOK, AlertedAreRecorded, Recorded

\* recordOnce() and the alert that may follow.
LEMMA RecordOnceKeeps ==
    ASSUME IInv, NEW s \in Sweeps, RecordOnce(s)
    PROVE  IInv'
  <1> DEFINE first == First(sweep[s].todo)
             known == AlreadyRecorded(first.ticket, first.verdict, first.clock)
             e == Event(first.ticket, first.verdict, None, first.clock)
  <1>0. UNCHANGED notified
    BY DEF RecordOnce
  <1>1. CASE known \/ first.verdict # "approaching"
    <2>1. sweep' = [sweep EXCEPT ![s] = ToRecord(sweep[s].todo \ {First(sweep[s].todo)})]
      BY <1>1 DEF RecordOnce, SweepStep
    <2>2. ToRecord(sweep[s].todo \ {First(sweep[s].todo)}).at # "alert"
      BY DEF ToRecord, Resting
    <2>3. CASE known
      BY <1>0, <2>1, <2>2, <2>3, SweepMovesOn DEF RecordOnce
    <2>4. CASE ~known
      <3>1. events' = Append(events, e)
        BY <2>4 DEF RecordOnce
      <3>2. \A id, action, clock : Recorded(id, action, clock) => Recorded(id, action, clock)'
        BY <3>1, RecordedStays DEF IInv
      <3>3. LogOK'
        BY <3>1, AppendLog DEF IInv, LogOK
      <3>4. \A t \in Sweeps : sweep'[t] = IF t = s THEN ToRecord(sweep[s].todo \ {First(sweep[s].todo)}) ELSE sweep[t]
        BY <2>1 DEF IInv, SweepsOK
      <3>5. SweepsOK'
        BY <2>1 DEF IInv, SweepsOK
      <3>6. AlertedAreRecorded'
        BY <1>0, <3>2 DEF IInv, AlertedAreRecorded
      <3>7. AlertsAreFirst'
        BY <1>0, <2>2, <3>2, <3>4 DEF IInv, AlertsAreFirst, Alerting
      <3> QED
        BY <1>0, <3>3, <3>5, <3>6, <3>7 DEF IInv, NotifiedOK
    <2> QED
      BY <2>3, <2>4
  <1>2. CASE ~known /\ first.verdict = "approaching"
    <2>1. sweep' = [sweep EXCEPT ![s] = [at |-> "alert", todo |-> sweep[s].todo]]
      BY <1>2 DEF RecordOnce, SweepStep
    <2>2. events' = Append(events, e)
      BY <1>2 DEF RecordOnce
    <2>3. \A id, action, clock : Recorded(id, action, clock) => Recorded(id, action, clock)'
      BY <2>2, RecordedStays DEF IInv
    <2>4. LogOK'
      BY <2>2, AppendLog DEF IInv, LogOK
    <2>5. \A t \in Sweeps :
             sweep'[t] = IF t = s THEN [at |-> "alert", todo |-> sweep[s].todo] ELSE sweep[t]
      BY <2>1 DEF IInv, SweepsOK
    <2>6. SweepsOK'
      BY <2>1 DEF IInv, SweepsOK
    <2>7. AlertedAreRecorded'
      BY <1>0, <2>3 DEF IInv, AlertedAreRecorded
    <2>8. /\ \A t \in Sweeps : Alerting(t)' = Alerting(t)
          /\ Alerting(s) = <<first.ticket, first.clock>>
      BY <2>5 DEF Alerting
    <2>9. ~Recorded(first.ticket, "approaching", first.clock)
      BY <1>2 DEF AlreadyRecorded
    <2>10. ASSUME NEW id, NEW clock, id = first.ticket, clock = first.clock
           PROVE  Recorded(id, "approaching", clock)'
      <3>1. PICK i \in DOMAIN events' : events'[i] = e
        BY <2>2, AppendLog DEF IInv, LogOK
      <3>2. e.ticket = first.ticket /\ e.action = "approaching" /\ e.meta = first.clock
        BY <1>2 DEF Event
      <3> QED
        BY <2>10, <3>1, <3>2 DEF Recorded
    <2>11. Alerting(s) \in Tickets \X Clocks => notified[Alerting(s)] = 0
      BY <2>8, <2>9 DEF IInv, AlertedAreRecorded
    <2>12. \A t \in Sweeps : sweep[t].at = "alert" => Alerting(t) # Alerting(s)
      BY <2>8, <2>9 DEF IInv, AlertsAreFirst
    <2>13. AlertsAreFirst'
      <3>1. \A id, clock : <<id, clock>> = Alerting(s) => Recorded(id, "approaching", clock)'
        BY <2>8, <2>10
      <3>2. ASSUME NEW t \in Sweeps, sweep'[t].at = "alert", NEW id, NEW clock,
                   <<id, clock>> = Alerting(t)
            PROVE  Recorded(id, "approaching", clock)'
        <4>1. CASE t = s
          BY <3>1, <3>2, <4>1
        <4>2. CASE t # s
          <5>1. Recorded(id, "approaching", clock)
            BY <2>5, <3>2, <4>2 DEF IInv, AlertsAreFirst
          <5> QED
            BY <2>3, <5>1
        <4> QED
          BY <4>1, <4>2
      <3>3. ASSUME NEW t \in Sweeps, sweep'[t].at = "alert"
            PROVE  /\ Alerting(t) \in Tickets \X Clocks => notified[Alerting(t)] = 0
                   /\ \A u \in Sweeps : sweep'[u].at = "alert" /\ Alerting(u) = Alerting(t) => u = t
        BY <2>5, <2>11, <2>12, <3>3 DEF IInv, AlertsAreFirst
      <3>4. \A t \in Sweeps : Alerting(t) = <<Alerting(t)[1], Alerting(t)[2]>>
        BY DEF Alerting
      <3> QED
        BY <1>0, <2>8, <3>2, <3>3, <3>4 DEF AlertsAreFirst
    <2> QED
      BY <1>0, <2>4, <2>6, <2>7, <2>13 DEF IInv, NotifiedOK
  <1> QED
    BY <1>1, <1>2

\* The alert itself, sent once for what only this sweep was about to send.
LEMMA AlertKeeps ==
    ASSUME IInv, NEW s \in Sweeps, Alert(s)
    PROVE  IInv'
  <1>1. /\ UNCHANGED events
        /\ sweep' = [sweep EXCEPT ![s] = ToRecord(sweep[s].todo \ {First(sweep[s].todo)})]
        /\ sweep[s].at = "alert"
        /\ \/ UNCHANGED notified
           \/ notified' = [notified EXCEPT ![Alerting(s)] = @ + 1]
    BY DEF Alert, SweepStep, Alerting
  <1>2. ToRecord(sweep[s].todo \ {First(sweep[s].todo)}).at # "alert"
    BY DEF ToRecord, Resting
  <1>3. CASE UNCHANGED notified
    BY <1>1, <1>2, <1>3, SweepMovesOn
  <1>4. CASE notified' = [notified EXCEPT ![Alerting(s)] = @ + 1]
    <2>1. \A t \in Sweeps : sweep'[t] = IF t = s THEN ToRecord(sweep[s].todo \ {First(sweep[s].todo)}) ELSE sweep[t]
      BY <1>1 DEF IInv, SweepsOK
    <2>2. SweepsOK'
      BY <1>1 DEF IInv, SweepsOK
    <2>3. \A tc \in Tickets \X Clocks :
             notified'[tc] = IF tc = Alerting(s) THEN notified[tc] + 1 ELSE notified[tc]
      BY <1>4 DEF IInv, NotifiedOK
    <2>4. NotifiedOK'
      <3>1. DOMAIN notified' = Tickets \X Clocks
        BY <1>4 DEF IInv, NotifiedOK
      <3>2. notified' = [tc \in Tickets \X Clocks |-> notified'[tc]]
        BY <1>4, <3>1 DEF IInv, NotifiedOK
      <3>3. \A tc \in Tickets \X Clocks : notified'[tc] \in Nat
        BY <2>3 DEF IInv, NotifiedOK
      <3> QED
        BY <3>2, <3>3 DEF NotifiedOK
    <2>5. \A id, action, clock : Recorded(id, action, clock)' <=> Recorded(id, action, clock)
      BY <1>1 DEF Recorded
    <2>6. AlertedAreRecorded'
      BY <1>1, <2>3, <2>5 DEF IInv, NotifiedOK, AlertedAreRecorded, AlertsAreFirst
    <2>7. \A t \in Sweeps : t # s => Alerting(t)' = Alerting(t)
      BY <2>1 DEF Alerting
    <2>8. \A t \in Sweeps : t # s /\ sweep[t].at = "alert" => Alerting(t) # Alerting(s)
      BY <1>1 DEF IInv, AlertsAreFirst
    <2>9. ASSUME NEW t \in Sweeps, sweep'[t].at = "alert"
          PROVE  /\ t # s /\ sweep[t].at = "alert"
                 /\ Recorded(Alerting(t)[1], "approaching", Alerting(t)[2])
                 /\ Alerting(t) \in Tickets \X Clocks => notified'[Alerting(t)] = 0
      BY <1>2, <2>1, <2>3, <2>8, <2>9 DEF IInv, AlertsAreFirst
    <2>10. AlertsAreFirst'
      BY <2>5, <2>7, <2>9 DEF IInv, AlertsAreFirst
    <2> QED
      BY <1>1, <2>2, <2>4, <2>6, <2>10 DEF IInv, LogOK
  <1> QED
    BY <1>1, <1>3, <1>4

\* A restart forgets the sweeps, and with them the alerts they had in hand.
LEMMA RestartKeeps ==
    ASSUME IInv, Restart
    PROVE  IInv'
  <1>1. sweep' = [s \in Sweeps |-> Resting] /\ UNCHANGED <<events, notified>>
    BY DEF Restart
  <1>2. \A s \in Sweeps : sweep'[s].at # "alert"
    BY <1>1 DEF Resting
  <1> QED
    BY <1>1, <1>2 DEF IInv, LogOK, SweepsOK, NotifiedOK, AlertedAreRecorded, AlertsAreFirst, Recorded

LEMMA InitHolds == Init => IInv
  <1> SUFFICES ASSUME Init PROVE IInv
    OBVIOUS
  <1>1. LogOK
    <2>1. events \in Seq({})
      BY DEF Init
    <2> QED
      BY <2>1 DEF LogOK, IsLog
  <1> QED
    BY <1>1 DEF Init, IInv, SweepsOK, NotifiedOK, AlertedAreRecorded, AlertsAreFirst, Resting

LEMMA StepKeeps == IInv /\ [Next]_vars => IInv'
  <1> SUFFICES ASSUME IInv, [Next]_vars PROVE IInv'
    OBVIOUS
  <1>1. CASE UNCHANGED vars
    BY <1>1, LogGrows DEF vars
  <1>2. CASE Desk
    <2>1. UNCHANGED <<sweep, notified>>
      BY <1>2 DEF Desk, outside
    <2>2. CASE RecordInserted
      BY <2>1, <2>2, LogGrows DEF RecordInserted
    <2>3. ASSUME NEW h \in Handlers, Request(h)
          PROVE  UNCHANGED events
      <3>1. \A id, row, action, to, meta : Begins(h, id, row, action, to, meta) => UNCHANGED events
        BY DEF Begins
      <3>2. \A priority, status, assignee : Create(h, priority, status, assignee) => UNCHANGED events
        BY <3>1 DEF Create
      <3>3. \A id, visibility : AddReply(h, id, visibility) => UNCHANGED events
        BY <3>1 DEF AddReply
      <3>4. \A id, status, reason, code, notes :
               SetStatus(h, id, status, reason, code, notes) => UNCHANGED events
        BY <3>1 DEF SetStatus
      <3>5. \A id, assignee : Assign(h, id, assignee) => UNCHANGED events
        BY <3>1 DEF Assign
      <3>6. \A id, priority : Update(h, id, priority) => UNCHANGED events
        BY <3>1 DEF Update
      <3> QED
        BY <2>3, <3>2, <3>3, <3>4, <3>5, <3>6 DEF Request
    <2>4. ASSUME NEW h \in Handlers, Save(h) \/ Record(h)
          PROVE  UNCHANGED events
      BY <2>4 DEF Save, Record
    <2> QED
      BY <1>2, <2>1, <2>2, <2>3, <2>4, LogGrows DEF Desk
  <1>3. CASE \/ EventLost \/ (\E m \in Members : MemberLeaves(m))
             \/ (\E priority \in Priorities : Policy(priority))
    <2>1. UNCHANGED <<sweep, notified, events>>
      BY <1>3 DEF EventLost, RecordLost, MemberLeaves, Policy, CreatePolicy, UpdatePolicy,
                  RemovePolicy, PolicyStep, desk
    <2> QED
      BY <2>1, LogGrows
  <1>4. CASE \/ \E p \in DOMAIN Requests : Publish(p) \/ \E s \in Sources : Deliver(s, p)
             \/ \E s \in Sources : ConsumerStep(s) \/ DeliveryFails(s)
    <2>1. UNCHANGED <<sweep, notified, events>>
      BY <1>4 DEF Publish, Deliver, ConsumerStep, Bind, CreateFromRequest, RecordCreation,
                  Acknowledge, DeliveryFails, Elsewhere, desk
    <2> QED
      BY <2>1, LogGrows
  <1>10. CASE BootFails \/ \E s \in Sources : BindFails(s)
    <2>1. UNCHANGED <<sweep, notified, events>>
      BY <1>10 DEF BootFails, BindFails, Elsewhere, desk
    <2> QED
      BY <2>1, LogGrows
  <1>5. ASSUME NEW s \in Sweeps, FindOpen(s)
        PROVE  IInv'
    <2> DEFINE r == IF OpenTickets = {} THEN Resting
                    ELSE [at |-> "read", rows |-> [id \in OpenTickets |-> tickets[id]]]
    <2>1. r.at # "alert"
      BY DEF Resting
    <2>2. sweep' = [sweep EXCEPT ![s] = r] /\ UNCHANGED <<events, notified>>
      BY <1>5 DEF FindOpen, SweepStep
    <2> HIDE DEF r
    <2> QED
      BY <2>1, <2>2, SweepMovesOn
  <1>6. ASSUME NEW s \in Sweeps, ReadEvents(s)
        PROVE  IInv'
    <2>1. PICK todo : sweep' = [sweep EXCEPT ![s] = ToRecord(todo)] /\ UNCHANGED <<events, notified>>
      BY <1>6 DEF ReadEvents, SweepStep
    <2>2. ToRecord(todo).at # "alert"
      BY DEF ToRecord, Resting
    <2> QED
      BY <2>1, <2>2, SweepMovesOn
  <1>7. ASSUME NEW s \in Sweeps, RecordRefused(s)
        PROVE  IInv'
    <2>1. ToRecord(sweep[s].todo \ {First(sweep[s].todo)}).at # "alert"
      BY DEF ToRecord, Resting
    <2> QED
      BY <1>7, <2>1, SweepMovesOn DEF RecordRefused, SweepStep
  <1>8. ASSUME NEW s \in Sweeps, SweepFails(s)
        PROVE  IInv'
    <2>1. Resting.at # "alert"
      BY DEF Resting
    <2> QED
      BY <1>8, <2>1, SweepMovesOn DEF SweepFails, SweepStep
  <1>9. CASE NextMinute
    <2>1. UNCHANGED <<events, notified>>
      BY <1>9 DEF NextMinute, desk
    <2>2. CASE UNCHANGED sweep
      BY <2>1, <2>2, LogGrows
    <2>3. CASE \E s \in Sweeps : sweep' = [sweep EXCEPT ![s] = [at |-> "find"]]
      <3> PICK s \in Sweeps : sweep' = [sweep EXCEPT ![s] = [at |-> "find"]]
        BY <2>3
      <3>1. [at |-> "find"].at # "alert"
        OBVIOUS
      <3> QED
        BY <2>1, <3>1, SweepMovesOn
    <2> QED
      BY <1>9, <2>2, <2>3 DEF NextMinute
  <1> QED
    BY <1>1, <1>2, <1>3, <1>4, <1>5, <1>6, <1>7, <1>8, <1>9, <1>10, RecordOnceKeeps, AlertKeeps, RestartKeeps
       DEF Next

\* "Alerts once when a clock crosses 80 % of target (never re-alerting)", as
\* TicketsSlaBreachScheduler promises: for all tickets, overlapping sweeps,
\* failures and restarts.
THEOREM AlertsOnce == Spec => []AlertedOnce
  <1>1. IInv => AlertedOnce
    BY DEF IInv, NotifiedOK, AlertedAreRecorded, AlertedOnce
  <1> QED
    BY <1>1, InitHolds, StepKeeps, PTL DEF Spec

-----------------------------------------------------------------------------
(***************************************************************************)
(* What the tables hold: rows are well formed whichever request saved      *)
(* them, the log and everything on its way to it speak of tickets there    *)
(* are, and a lone request saves the row it read, changed.                 *)
(***************************************************************************)
FullRow(row) ==
    /\ row \in TicketRows
    /\ row.reason # None => row.status = "pending"
    /\ row.code # None => row.status \in Ended

RowsOK(table) ==
    /\ \E n \in Nat : DOMAIN table = 1 .. n
    /\ DOMAIN table \subseteq Tickets
    /\ table = [id \in DOMAIN table |-> table[id]]
    /\ \A id \in DOMAIN table : FullRow(table[id])

LogKnown(log, ids) == IsLog(log) /\ \A i \in DOMAIN log : log[i].ticket \in ids

IsEvent(e) ==
    e = [ticket |-> e.ticket, action |-> e.action, to |-> e.to, meta |-> e.meta, at |-> e.at]

Lone(m) == Cardinality(m.handlers) = 1

\* A request about to save, or to record what it saved.
HandOK(h, r, m, table) ==
    /\ r.at = "save" =>
          /\ h \in m.handlers /\ FullRow(r.row) /\ IsEvent(r.event)
          /\ r.id # None => /\ r.id \in DOMAIN table
                            /\ Lone(m) => ClosedStands(table[r.id], r.row)
    /\ r.at = "record" => IsEvent(r.event) /\ r.event.ticket \in DOMAIN table

WorkerOK(w, ids) ==
    /\ w.at \in {"create", "record"} => w.request \in DOMAIN Requests
    /\ w.at = "record" => w.ticket \in ids

VerdictOK(v, ids) == v.ticket \in ids /\ v.clock \in Clocks

SweepOK(w, ids) ==
    /\ w.at = "read" => DOMAIN w.rows \subseteq ids
    /\ w.at \in {"record", "alert"} => w.todo # {} /\ \A v \in w.todo : VerdictOK(v, ids)

HandsOK(table) ==
    /\ req = [h \in Handlers |-> req[h]]
    /\ \A h \in Handlers : HandOK(h, req[h], mode, table)

WorkersOK(ids) ==
    /\ worker = [s \in Sources |-> worker[s]]
    /\ \A s \in Sources : WorkerOK(worker[s], ids)

SweepingOK(ids) ==
    /\ sweep = [s \in Sweeps |-> sweep[s]]
    /\ \A s \in Sweeps : SweepOK(sweep[s], ids)

LogsOK(ids) == LogKnown(events, ids) /\ LogKnown(recording, ids)

BooksOK ==
    /\ mode \in Modes
    /\ policies \in [DOMAIN policies -> PolicyRows] /\ DOMAIN policies \subseteq Priorities
    /\ published \subseteq DOMAIN Requests /\ stream \subseteq published

DeskInv ==
    /\ BooksOK /\ RowsOK(tickets)
    /\ LogsOK(DOMAIN tickets) /\ HandsOK(tickets)
    /\ WorkersOK(DOMAIN tickets) /\ SweepingOK(DOMAIN tickets)

-----------------------------------------------------------------------------
LEMMA ModesKnown ==
    ASSUME NEW m \in Modes
    PROVE  /\ m.handlers \subseteq Handlers /\ m.ids \subseteq Tickets
           /\ m.requests \subseteq DOMAIN Requests
           /\ m.policies \in [DOMAIN m.policies -> PolicyRows] /\ DOMAIN m.policies \subseteq Priorities
           /\ m.fresh \subseteq Priorities /\ m.priorities \subseteq Priorities /\ m.managed \subseteq Priorities
           /\ m.created \subseteq Statuses /\ m.statuses \subseteq Statuses
           /\ m.assignees \subseteq Members \cup {Unassigned}
           /\ m.reasons \subseteq Reasons \cup {None} /\ m.codes \subseteq Codes \cup {None}
           /\ m.notes \subseteq BOOLEAN \cup {None}
  BY SupportAssumption

LEMMA OnlyOne ==
    ASSUME NEW m \in Modes, Lone(m), NEW h \in m.handlers, NEW g \in m.handlers
    PROVE  g = h
  <1>1. IsFiniteSet(m.handlers)
    BY SupportAssumption, ModesKnown, FS_Subset
  <1> QED
    BY <1>1, FS_Singleton DEF Lone

\* What a ticket is made of when it is created.
LEMMA NewTicketFull ==
    ASSUME NEW priority \in Priorities, NEW status \in Statuses, NEW assignee \in Members \cup {Unassigned},
           NEW request \in DOMAIN Requests \cup {None}
    PROVE  FullRow(NewTicket(priority, status, assignee, request))
  BY DEF FullRow, NewTicket, TicketRows

\* A reply, an assignment and a priority are all a closed ticket takes.
LEMMA RepliedFull ==
    ASSUME NEW was, FullRow(was)
    PROVE  /\ FullRow([was EXCEPT !.replies = @ + 1])
           /\ ClosedStands(was, [was EXCEPT !.replies = @ + 1])
  <1> DEFINE next == [was EXCEPT !.replies = @ + 1]
  <1>1. /\ was.replies \in Nat /\ next.replies \in Nat /\ next.replies >= was.replies
        /\ next \in TicketRows /\ next.status = was.status /\ next.reason = was.reason
        /\ next.code = was.code
    BY DEF FullRow, TicketRows
  <1>2. [was EXCEPT !.replies = 0, !.assignee = None, !.priority = None]
           = [next EXCEPT !.replies = 0, !.assignee = None, !.priority = None]
    BY DEF FullRow, TicketRows
  <1> HIDE DEF next
  <1>3. FullRow(next) /\ ClosedStands(was, next)
    BY <1>1, <1>2 DEF FullRow, ClosedStands
  <1> QED
    BY <1>3 DEF next

LEMMA AssignedFull ==
    ASSUME NEW was, FullRow(was), NEW assignee \in Members \cup {Unassigned}
    PROVE  /\ FullRow([was EXCEPT !.assignee = assignee])
           /\ ClosedStands(was, [was EXCEPT !.assignee = assignee])
  <1> DEFINE next == [was EXCEPT !.assignee = assignee]
  <1>1. /\ was.replies \in Nat /\ next.replies \in Nat /\ next.replies >= was.replies
        /\ next \in TicketRows /\ next.status = was.status /\ next.reason = was.reason
        /\ next.code = was.code
    BY DEF FullRow, TicketRows
  <1>2. [was EXCEPT !.replies = 0, !.assignee = None, !.priority = None]
           = [next EXCEPT !.replies = 0, !.assignee = None, !.priority = None]
    BY DEF FullRow, TicketRows
  <1> HIDE DEF next
  <1>3. FullRow(next) /\ ClosedStands(was, next)
    BY <1>1, <1>2 DEF FullRow, ClosedStands
  <1> QED
    BY <1>3 DEF next

LEMMA UpdatedFull ==
    ASSUME NEW was, FullRow(was), NEW priority \in Priorities
    PROVE  /\ FullRow([was EXCEPT !.priority = priority])
           /\ ClosedStands(was, [was EXCEPT !.priority = priority])
  <1> DEFINE next == [was EXCEPT !.priority = priority]
  <1>1. /\ was.replies \in Nat /\ next.replies \in Nat /\ next.replies >= was.replies
        /\ next \in TicketRows /\ next.status = was.status /\ next.reason = was.reason
        /\ next.code = was.code
    BY DEF FullRow, TicketRows
  <1>2. [was EXCEPT !.replies = 0, !.assignee = None, !.priority = None]
           = [next EXCEPT !.replies = 0, !.assignee = None, !.priority = None]
    BY DEF FullRow, TicketRows
  <1> HIDE DEF next
  <1>3. FullRow(next) /\ ClosedStands(was, next)
    BY <1>1, <1>2 DEF FullRow, ClosedStands
  <1> QED
    BY <1>3 DEF next

\* A status names what is waited for only while it waits, and why it ended
\* only once it has; a closed ticket is not given one.
LEMMA MovedFull ==
    ASSUME NEW was, FullRow(was), Changeable(was), NEW status \in Statuses,
           NEW reason \in Reasons \cup {None}, NEW code \in Codes \cup {None},
           NEW notes \in BOOLEAN \cup {None}, None \notin BOOLEAN
    PROVE  LET next == [was EXCEPT !.status = status,
                                   !.reason = IF status = "pending" THEN reason ELSE None,
                                   !.code = NextCode(was, status, code),
                                   !.notes = NextNotes(was, status, notes)]
           IN  FullRow(next) /\ ClosedStands(was, next)
  <1> DEFINE shown == IF status = "pending" THEN reason ELSE None
             next == [was EXCEPT !.status = status, !.reason = shown,
                                 !.code = NextCode(was, status, code), !.notes = NextNotes(was, status, notes)]
  <1>1. /\ shown \in Reasons \cup {None}
        /\ shown # None => status = "pending"
    OBVIOUS
  <1>2. /\ NextCode(was, status, code) \in Codes \cup {None}
        /\ NextCode(was, status, code) # None => status \in Ended
    BY DEF NextCode, FullRow, TicketRows
  <1>3. NextNotes(was, status, notes) \in BOOLEAN
    BY DEF NextNotes, FullRow, TicketRows
  <1> HIDE DEF shown
  <1>4. FullRow(next)
    BY <1>1, <1>2, <1>3 DEF FullRow, TicketRows
  <1>5. was.status # "closed" /\ next.replies = was.replies /\ was.replies \in Nat
    BY DEF FullRow, TicketRows, Changeable
  <1>6. ClosedStands(was, next)
    BY <1>5 DEF ClosedStands
  <1> QED
    BY <1>4, <1>6 DEF shown

-----------------------------------------------------------------------------
\* Only the requests in hand have moved.
LEMMA HandsMove ==
    ASSUME DeskInv, UNCHANGED <<tickets, events, recording>>, UNCHANGED outside, HandsOK(tickets)'
    PROVE  DeskInv'
  BY DEF DeskInv, outside, BooksOK, LogsOK, WorkersOK, SweepingOK

LEMMA BeginsKeeps ==
    ASSUME DeskInv, NEW h \in Handlers, NEW id, NEW row, NEW action, NEW to, NEW meta,
           Begins(h, id, row, action, to, meta), UNCHANGED outside, FullRow(row),
           id # None => id \in DOMAIN tickets /\ ClosedStands(tickets[id], row)
    PROVE  DeskInv'
  <1> DEFINE r == [at |-> "save", id |-> id, row |-> row, event |-> Event(id, action, to, meta)]
  <1>1. /\ UNCHANGED <<tickets, events, recording, mode>> /\ h \in mode.handlers
        /\ req' = [req EXCEPT ![h] = r]
    BY DEF Begins, outside
  <1>2. IsEvent(Event(id, action, to, meta))
    BY DEF IsEvent, Event
  <1>3. HandOK(h, r, mode, tickets)
    BY <1>1, <1>2 DEF HandOK
  <1> HIDE DEF r
  <1>4. HandsOK(tickets)'
    BY <1>1, <1>3 DEF DeskInv, HandsOK
  <1> QED
    BY <1>1, <1>4, HandsMove

LEMMA RequestKeeps ==
    ASSUME DeskInv, NEW h \in Handlers, Request(h), UNCHANGED outside
    PROVE  DeskInv'
  <1>0. mode \in Modes /\ \A id \in DOMAIN tickets : FullRow(tickets[id])
    BY DEF DeskInv, BooksOK, RowsOK
  <1>1. ASSUME NEW priority \in mode.fresh, NEW status \in mode.created, NEW assignee \in mode.assignees,
               Create(h, priority, status, assignee)
        PROVE  DeskInv'
    <2> DEFINE row == NewTicket(priority, status, assignee, None)
    <2>1. FullRow(row)
      BY <1>0, ModesKnown, NewTicketFull
    <2>2. Begins(h, None, row, "created", status, None)
      BY <1>1 DEF Create
    <2> HIDE DEF row
    <2> QED
      BY <2>1, <2>2, BeginsKeeps
  <1>2. ASSUME NEW id, NEW visibility, AddReply(h, id, visibility)
        PROVE  DeskInv'
    <2> DEFINE row == [tickets[id] EXCEPT !.replies = @ + 1]
    <2>1. id \in DOMAIN tickets /\ Begins(h, id, row, "replied", None, visibility)
      BY <1>2 DEF AddReply
    <2>2. FullRow(row) /\ ClosedStands(tickets[id], row)
      BY <1>0, <2>1, RepliedFull
    <2> HIDE DEF row
    <2> QED
      BY <2>1, <2>2, BeginsKeeps
  <1>3. ASSUME NEW id, NEW status \in mode.statuses, NEW reason \in mode.reasons, NEW code \in mode.codes,
               NEW notes \in mode.notes, SetStatus(h, id, status, reason, code, notes)
        PROVE  DeskInv'
    <2> DEFINE row == [tickets[id] EXCEPT !.status = status,
                                          !.reason = IF status = "pending" THEN reason ELSE None,
                                          !.code = NextCode(tickets[id], status, code),
                                          !.notes = NextNotes(tickets[id], status, notes)]
    <2>1. /\ id \in DOMAIN tickets /\ Changeable(tickets[id])
          /\ Begins(h, id, row, "status_changed", status, row.reason)
      BY <1>3 DEF SetStatus
    <2>2. FullRow(row) /\ ClosedStands(tickets[id], row)
      BY <1>0, <2>1, ModesKnown, MovedFull, SupportAssumption
    <2>3. PICK meta : Begins(h, id, row, "status_changed", status, meta)
      BY <2>1
    <2> HIDE DEF row
    <2> QED
      BY <2>1, <2>2, <2>3, BeginsKeeps
  <1>4. ASSUME NEW id, NEW assignee \in mode.assignees, Assign(h, id, assignee)
        PROVE  DeskInv'
    <2> DEFINE row == [tickets[id] EXCEPT !.assignee = assignee]
    <2>1. id \in DOMAIN tickets /\ Begins(h, id, row, "assigned", None, None)
      BY <1>4 DEF Assign
    <2>2. FullRow(row) /\ ClosedStands(tickets[id], row)
      BY <1>0, <2>1, ModesKnown, AssignedFull
    <2> HIDE DEF row
    <2> QED
      BY <2>1, <2>2, BeginsKeeps
  <1>5. ASSUME NEW id, NEW priority \in mode.priorities, Update(h, id, priority)
        PROVE  DeskInv'
    <2> DEFINE row == [tickets[id] EXCEPT !.priority = priority]
    <2>1. id \in DOMAIN tickets /\ Begins(h, id, row, "updated", None, None)
      BY <1>5 DEF Update
    <2>2. FullRow(row) /\ ClosedStands(tickets[id], row)
      BY <1>0, <2>1, ModesKnown, UpdatedFull
    <2> HIDE DEF row
    <2> QED
      BY <2>1, <2>2, BeginsKeeps
  <1> QED
    BY <1>1, <1>2, <1>3, <1>4, <1>5 DEF Request

-----------------------------------------------------------------------------
\* What a save makes of the table: a row more, or another row for one ticket.
Saves(id, row) ==
    /\ FullRow(row) /\ id \in mode.ids
    /\ id \in DOMAIN tickets \/ id = NextId
    /\ SaveRow(id, row)

LEMMA NextIdIsNew ==
    ASSUME RowsOK(tickets)
    PROVE  /\ NextId \notin DOMAIN tickets
           /\ \E n \in Nat : DOMAIN tickets \cup {NextId} = 1 .. n
  <1>1. PICK n \in Nat : DOMAIN tickets = 1 .. n
    BY DEF RowsOK
  <1>2. Cardinality(1 .. n) = n
    BY FS_Interval
  <1>3. NextId = n + 1
    BY <1>1, <1>2 DEF NextId
  <1>4. DOMAIN tickets \cup {NextId} = 1 .. (n + 1)
    BY <1>1, <1>3
  <1> QED
    BY <1>1, <1>3, <1>4

LEMMA SavesKeep ==
    ASSUME DeskInv, NEW id, NEW row, Saves(id, row)
    PROVE  /\ RowsOK(tickets')
           /\ DOMAIN tickets' = DOMAIN tickets \cup {id}
           /\ tickets'[id] = row
           /\ \A i \in DOMAIN tickets : i # id => tickets'[i] = tickets[i]
  <1>1. tickets' = [i \in DOMAIN tickets \cup {id} |-> IF i = id THEN row ELSE tickets[i]]
    BY DEF Saves, SaveRow
  <1>2. /\ DOMAIN tickets' = DOMAIN tickets \cup {id} /\ tickets'[id] = row
        /\ \A i \in DOMAIN tickets : i # id => tickets'[i] = tickets[i]
    BY <1>1
  <1>3. \E n \in Nat : DOMAIN tickets' = 1 .. n
    <2>1. CASE id \in DOMAIN tickets
      <3>1. DOMAIN tickets' = DOMAIN tickets
        BY <1>2, <2>1
      <3> QED
        BY <3>1 DEF DeskInv, RowsOK
    <2>2. CASE id = NextId
      BY <1>2, <2>2, NextIdIsNew DEF DeskInv
    <2> QED
      BY <2>1, <2>2 DEF Saves
  <1>4. id \in Tickets
    BY ModesKnown DEF Saves, DeskInv, BooksOK
  <1>5. \A i \in DOMAIN tickets' : FullRow(tickets'[i])
    BY <1>2 DEF DeskInv, RowsOK, Saves
  <1>6. tickets' = [i \in DOMAIN tickets' |-> tickets'[i]]
    BY <1>1
  <1> QED
    BY <1>2, <1>3, <1>4, <1>5, <1>6 DEF DeskInv, RowsOK

\* What is known stays known when the table grows.
LEMMA MoreKnown ==
    ASSUME NEW ids, NEW more, ids \subseteq more
    PROVE  /\ \A log : LogKnown(log, ids) => LogKnown(log, more)
           /\ \A w : WorkerOK(w, ids) => WorkerOK(w, more)
           /\ \A w : SweepOK(w, ids) => SweepOK(w, more)
  <1>1. \A log : LogKnown(log, ids) => LogKnown(log, more)
    BY DEF LogKnown
  <1>2. \A w : WorkerOK(w, ids) => WorkerOK(w, more)
    BY DEF WorkerOK
  <1>3. \A w : SweepOK(w, ids) => SweepOK(w, more)
    BY DEF SweepOK, VerdictOK
  <1> QED
    BY <1>1, <1>2, <1>3

\* A request in hand stands when another row is saved than the one it read.
LEMMA OtherSaved ==
    ASSUME DeskInv, NEW id, NEW row, Saves(id, row), NEW h, NEW r, HandOK(h, r, mode, tickets),
           r.at = "save" /\ Lone(mode) => r.id # id \/ id \notin DOMAIN tickets
    PROVE  HandOK(h, r, mode, tickets')
  BY SavesKeep DEF HandOK

LEMMA SaveKeeps ==
    ASSUME DeskInv, NEW h \in Handlers, Save(h), UNCHANGED outside
    PROVE  /\ DeskInv'
           /\ Orderly => \A id \in DOMAIN tickets : ClosedStands(tickets[id], tickets'[id])
  <1> DEFINE id == SavedId(req[h].id)
             row == req[h].row
             e == [req[h].event EXCEPT !.ticket = id]
             r == [at |-> "record", event |-> e]
  <1>1. /\ req[h].at = "save" /\ SaveRow(id, row) /\ req' = [req EXCEPT ![h] = r]
        /\ UNCHANGED <<events, recording>>
    BY DEF Save
  <1>2. HandOK(h, req[h], mode, tickets)
    BY DEF DeskInv, HandsOK
  <1>3. Saves(id, row)
    BY <1>1, <1>2 DEF Saves, SavedId, SaveRow, HandOK
  <1>4. IsEvent(e) /\ e.ticket = id
    BY <1>1, <1>2 DEF HandOK, IsEvent
  <1>5. RowsOK(tickets') /\ DOMAIN tickets' = DOMAIN tickets \cup {id} /\ tickets'[id] = row
        /\ \A i \in DOMAIN tickets : i # id => tickets'[i] = tickets[i]
    BY <1>3, SavesKeep
  <1>6. NextId \notin DOMAIN tickets
    BY NextIdIsNew DEF DeskInv
  <1>7. HandOK(h, r, mode, tickets')
    <2>1. IsEvent(e) /\ e.ticket \in DOMAIN tickets'
      BY <1>4, <1>5
    <2> HIDE DEF e
    <2> QED
      BY <2>1 DEF HandOK
  <1>8. ASSUME NEW g \in Handlers, g # h
        PROVE  HandOK(g, req[g], mode, tickets')
    <2>1. HandOK(g, req[g], mode, tickets)
      BY DEF DeskInv, HandsOK
    <2>2. req[g].at = "save" => ~Lone(mode)
      <3>1. SUFFICES ASSUME req[g].at = "save", Lone(mode) PROVE FALSE
        OBVIOUS
      <3>2. g \in mode.handlers /\ h \in mode.handlers /\ mode \in Modes
        BY <1>1, <1>2, <2>1, <3>1 DEF HandOK, DeskInv, BooksOK
      <3> QED
        BY <1>8, <3>1, <3>2, OnlyOne
    <2> HIDE DEF id, row
    <2> QED
      BY <1>3, <2>1, <2>2, OtherSaved
  <1>9. HandsOK(tickets)'
    <2> HIDE DEF r
    <2>1. /\ req' = [g \in Handlers |-> req'[g]]
          /\ \A g \in Handlers : req'[g] = IF g = h THEN r ELSE req[g]
      BY <1>1 DEF DeskInv, HandsOK
    <2>2. mode' = mode
      BY DEF outside
    <2>3. \A g \in Handlers : HandOK(g, req'[g], mode', tickets')
      BY <1>7, <1>8, <2>1, <2>2
    <2> QED
      BY <2>1, <2>3 DEF HandsOK
  <1>10. DOMAIN tickets \subseteq DOMAIN tickets'
    BY <1>5
  <1>11. LogsOK(DOMAIN tickets)'
    BY <1>1, <1>10, MoreKnown DEF LogsOK, DeskInv
  <1>12. WorkersOK(DOMAIN tickets)'
    <2>1. UNCHANGED worker
      BY DEF outside
    <2> QED
      BY <2>1, <1>10, MoreKnown DEF WorkersOK, DeskInv
  <1>13. SweepingOK(DOMAIN tickets)'
    <2>1. UNCHANGED sweep
      BY DEF outside
    <2> QED
      BY <2>1, <1>10, MoreKnown DEF SweepingOK, DeskInv
  <1>14. BooksOK'
    BY DEF outside, DeskInv, BooksOK
  <1>15. DeskInv'
    BY <1>5, <1>9, <1>11, <1>12, <1>13, <1>14 DEF DeskInv
  <1>16. ASSUME Orderly, NEW i \in DOMAIN tickets
         PROVE  ClosedStands(tickets[i], tickets'[i])
    <2>1. FullRow(tickets[i])
      BY DEF DeskInv, RowsOK
    <2>2. ClosedStands(tickets[i], tickets[i])
      BY <2>1 DEF ClosedStands, FullRow, TicketRows
    <2>3. CASE i # id
      BY <1>5, <2>2, <2>3
    <2>4. CASE i = id
      <3>1. req[h].id # None /\ req[h].id = i
        BY <1>6, <2>4 DEF SavedId
      <3> QED
        BY <1>1, <1>2, <1>5, <1>16, <2>4, <3>1 DEF HandOK, Orderly, Lone
    <2> QED
      BY <2>3, <2>4
  <1> QED
    BY <1>15, <1>16

\* The rest of the model leaves the rows of the tickets there are alone.
Untouched == \A id \in DOMAIN tickets : tickets'[id] = tickets[id]

LEMMA UntouchedStands ==
    ASSUME DeskInv, Untouched
    PROVE  \A id \in DOMAIN tickets : ClosedStands(tickets[id], tickets'[id])
  <1> SUFFICES ASSUME NEW id \in DOMAIN tickets PROVE ClosedStands(tickets[id], tickets[id])
    BY DEF Untouched
  <1>1. FullRow(tickets[id])
    BY DEF DeskInv, RowsOK
  <1> QED
    BY <1>1 DEF ClosedStands, FullRow, TicketRows

LEMMA AppendKnown ==
    ASSUME NEW log, NEW ids, LogKnown(log, ids), NEW e, e.ticket \in ids
    PROVE  LogKnown(Append(log, e), ids)
  <1>1. PICK S : log \in Seq(S)
    BY DEF LogKnown, IsLog
  <1>2. log \in Seq(S \cup {e})
    BY <1>1
  <1>3. /\ Append(log, e) \in Seq(S \cup {e})
        /\ DOMAIN Append(log, e) = 1 .. (Len(log) + 1)
        /\ Append(log, e)[Len(log) + 1] = e
        /\ \A i \in 1 .. Len(log) : Append(log, e)[i] = log[i]
        /\ Len(log) \in Nat /\ DOMAIN log = 1 .. Len(log)
    BY <1>2
  <1>4. \A i \in DOMAIN Append(log, e) : Append(log, e)[i].ticket \in ids
    BY <1>3 DEF LogKnown
  <1> QED
    BY <1>3, <1>4 DEF LogKnown, IsLog

LEMMA TailKnown ==
    ASSUME NEW log, NEW ids, LogKnown(log, ids), log # <<>>
    PROVE  LogKnown(Tail(log), ids) /\ Head(log).ticket \in ids
  <1>1. PICK S : log \in Seq(S)
    BY DEF LogKnown, IsLog
  <1>2. /\ Tail(log) \in Seq(S) /\ DOMAIN Tail(log) = 1 .. (Len(log) - 1)
        /\ \A i \in 1 .. (Len(log) - 1) : Tail(log)[i] = log[i + 1]
        /\ Len(log) \in Nat /\ Len(log) > 0 /\ DOMAIN log = 1 .. Len(log)
        /\ Head(log) = log[1]
    BY <1>1
  <1>3. \A i \in DOMAIN Tail(log) : i + 1 \in DOMAIN log
    BY <1>2
  <1> QED
    BY <1>2, <1>3 DEF LogKnown, IsLog

LEMMA RecordKeeps ==
    ASSUME DeskInv, NEW h \in Handlers, Record(h), UNCHANGED outside
    PROVE  DeskInv' /\ Untouched
  <1> DEFINE e == [req[h].event EXCEPT !.at = minute]
  <1>1. /\ UNCHANGED <<tickets, events, mode>> /\ req[h].at = "record"
        /\ recording' = Append(recording, e) /\ req' = [req EXCEPT ![h] = Idle]
    BY DEF Record, Call, outside
  <1>2. HandOK(h, req[h], mode, tickets)
    BY DEF DeskInv, HandsOK
  <1>3. e.ticket \in DOMAIN tickets
    BY <1>1, <1>2 DEF HandOK, IsEvent
  <1> HIDE DEF e
  <1>4. LogKnown(recording', DOMAIN tickets)
    BY <1>1, <1>3, AppendKnown DEF DeskInv, LogsOK
  <1>5. HandsOK(tickets)'
    BY <1>1 DEF DeskInv, HandsOK, HandOK, Idle
  <1> QED
    BY <1>1, <1>4, <1>5 DEF DeskInv, outside, BooksOK, LogsOK, WorkersOK, SweepingOK, Untouched

LEMMA InsertedKeeps ==
    ASSUME DeskInv, RecordInserted, UNCHANGED outside
    PROVE  DeskInv' /\ Untouched
  <1>1. /\ UNCHANGED <<tickets, req>> /\ recording # <<>>
        /\ events' = Append(events, Head(recording)) /\ recording' = Tail(recording)
    BY DEF RecordInserted
  <1>2. LogKnown(recording', DOMAIN tickets) /\ Head(recording).ticket \in DOMAIN tickets
    BY <1>1, TailKnown DEF DeskInv, LogsOK
  <1>3. LogKnown(events', DOMAIN tickets)
    BY <1>1, <1>2, AppendKnown DEF DeskInv, LogsOK
  <1> QED
    BY <1>1, <1>2, <1>3 DEF DeskInv, outside, BooksOK, LogsOK, HandsOK, WorkersOK, SweepingOK, Untouched

LEMMA LostKeeps ==
    ASSUME DeskInv, EventLost
    PROVE  DeskInv' /\ Untouched
  <1>1. /\ UNCHANGED <<tickets, req, events, mode, policies, published, stream, worker, sweep>>
        /\ recording # <<>> /\ recording' = Tail(recording)
    BY DEF EventLost, RecordLost
  <1>2. LogKnown(recording', DOMAIN tickets)
    BY <1>1, TailKnown DEF DeskInv, LogsOK
  <1> QED
    BY <1>1, <1>2 DEF DeskInv, BooksOK, LogsOK, HandsOK, WorkersOK, SweepingOK, Untouched

-----------------------------------------------------------------------------
\* Steps that leave the requests of people alone, and the rows.
LEMMA AsideKeeps ==
    ASSUME DeskInv, UNCHANGED desk, UNCHANGED mode, BooksOK',
           WorkersOK(DOMAIN tickets)', SweepingOK(DOMAIN tickets)'
    PROVE  DeskInv' /\ Untouched
  BY DEF DeskInv, desk, LogsOK, HandsOK, Untouched

LEMMA PolicyKeeps ==
    ASSUME DeskInv, NEW priority \in Priorities, Policy(priority)
    PROVE  DeskInv' /\ Untouched
  <1>1. ASSUME NEW p, PolicyStep(p), p \in [DOMAIN p -> PolicyRows], DOMAIN p \subseteq Priorities
        PROVE  DeskInv' /\ Untouched
    <2>1. BooksOK'
      BY <1>1 DEF PolicyStep, DeskInv, BooksOK
    <2>2. WorkersOK(DOMAIN tickets)' /\ SweepingOK(DOMAIN tickets)'
      BY <1>1 DEF PolicyStep, desk, DeskInv, WorkersOK, SweepingOK
    <2> QED
      BY <1>1, <2>1, <2>2, AsideKeeps DEF PolicyStep
  <1>2. policies \in [DOMAIN policies -> PolicyRows] /\ DOMAIN policies \subseteq Priorities
    BY DEF DeskInv, BooksOK
  <1>3. ASSUME NEW row \in PolicyRows, CreatePolicy(priority, row)
        PROVE  DeskInv' /\ Untouched
    <2> DEFINE p == [q \in DOMAIN policies \cup {priority} |-> IF q = priority THEN row ELSE policies[q]]
    <2>1. p \in [DOMAIN p -> PolicyRows] /\ DOMAIN p \subseteq Priorities
      BY <1>2
    <2>2. PolicyStep(p)
      BY <1>3 DEF CreatePolicy
    <2> HIDE DEF p
    <2> QED
      BY <1>1, <2>1, <2>2
  <1>4. ASSUME NEW clock \in Clocks, NEW target \in Targets \cup {None}, UpdatePolicy(priority, clock, target)
        PROVE  DeskInv' /\ Untouched
    <2> DEFINE p == [policies EXCEPT ![priority][clock] = target]
    <2>1. p \in [DOMAIN p -> PolicyRows] /\ DOMAIN p \subseteq Priorities
      BY <1>2 DEF PolicyRows
    <2>2. PolicyStep(p)
      BY <1>4 DEF UpdatePolicy
    <2> HIDE DEF p
    <2> QED
      BY <1>1, <2>1, <2>2
  <1>5. ASSUME RemovePolicy(priority)
        PROVE  DeskInv' /\ Untouched
    <2> DEFINE p == [q \in DOMAIN policies \ {priority} |-> policies[q]]
    <2>1. p \in [DOMAIN p -> PolicyRows] /\ DOMAIN p \subseteq Priorities
      BY <1>2
    <2>2. PolicyStep(p)
      BY <1>5 DEF RemovePolicy
    <2> HIDE DEF p
    <2> QED
      BY <1>1, <2>1, <2>2
  <1> QED
    BY <1>3, <1>4, <1>5 DEF Policy

\* A consumer moves on, the tables as they were.
LEMMA WorkerMoves ==
    ASSUME DeskInv, UNCHANGED desk, Elsewhere, published' \subseteq DOMAIN Requests, stream' \subseteq published',
           worker' = [s \in Sources |-> worker'[s]],
           \A s \in Sources : WorkerOK(worker'[s], DOMAIN tickets)
    PROVE  DeskInv' /\ Untouched
  <1>1. BooksOK'
    BY DEF DeskInv, BooksOK, Elsewhere
  <1>2. WorkersOK(DOMAIN tickets)' /\ SweepingOK(DOMAIN tickets)'
    BY DEF DeskInv, desk, WorkersOK, SweepingOK, Elsewhere
  <1> QED
    BY <1>1, <1>2, AsideKeeps DEF Elsewhere

LEMMA StartedOK ==
    /\ Started = [s \in Sources |-> Started[s]]
    /\ \A ids : \A s \in Sources : WorkerOK(Started[s], ids)
  BY DEF Started, WorkerOK, Resting, Booting

LEMMA OneWorkerMoves ==
    ASSUME DeskInv, UNCHANGED desk, Elsewhere, published' \subseteq DOMAIN Requests, stream' \subseteq published',
           NEW s \in Sources, NEW w, WorkerOK(w, DOMAIN tickets), worker' = [worker EXCEPT ![s] = w]
    PROVE  DeskInv' /\ Untouched
  <1>1. /\ worker = [t \in Sources |-> worker[t]]
        /\ \A t \in Sources : WorkerOK(worker[t], DOMAIN tickets)
    BY DEF DeskInv, WorkersOK
  <1>2. worker' = [t \in Sources |-> worker'[t]]
    BY <1>1
  <1>3. \A t \in Sources : worker'[t] = IF t = s THEN w ELSE worker[t]
    BY <1>1
  <1> QED
    BY <1>1, <1>2, <1>3, WorkerMoves

LEMMA ConsumerKeeps ==
    ASSUME DeskInv, NEW s \in Sources,
           Bind(s) \/ BindFails(s) \/ Acknowledge(s) \/ DeliveryFails(s)
    PROVE  DeskInv' /\ Untouched
  <1>1. UNCHANGED desk /\ Elsewhere /\ published' = published /\ stream' \subseteq stream
    BY DEF Bind, BindFails, Acknowledge, DeliveryFails
  <1>2. published' \subseteq DOMAIN Requests /\ stream' \subseteq published'
    BY <1>1 DEF DeskInv, BooksOK
  <1>3. \E w \in {Resting, Deaf} : worker' = [worker EXCEPT ![s] = w]
    BY DEF Bind, BindFails, Acknowledge, DeliveryFails
  <1>4. \A w \in {Resting, Deaf} : WorkerOK(w, DOMAIN tickets)
    BY DEF WorkerOK, Resting, Deaf
  <1> QED
    BY <1>1, <1>2, <1>3, <1>4, OneWorkerMoves

LEMMA BootFailsKeeps ==
    ASSUME DeskInv, BootFails
    PROVE  DeskInv' /\ Untouched
  <1>1. UNCHANGED desk /\ Elsewhere /\ UNCHANGED <<published, stream>> /\ worker' = [s \in Sources |-> Deaf]
    BY DEF BootFails
  <1>2. WorkerOK(Deaf, DOMAIN tickets)
    BY DEF WorkerOK, Deaf
  <1> QED
    BY <1>1, <1>2, WorkerMoves DEF DeskInv, BooksOK

LEMMA PublishKeeps ==
    ASSUME DeskInv, NEW p, Publish(p)
    PROVE  DeskInv' /\ Untouched
  <1>1. UNCHANGED desk /\ Elsewhere /\ UNCHANGED worker
    BY DEF Publish
  <1>2. published' \subseteq DOMAIN Requests /\ stream' \subseteq published'
    BY ModesKnown DEF Publish, DeskInv, BooksOK
  <1> QED
    BY <1>1, <1>2, WorkerMoves DEF DeskInv, WorkersOK

LEMMA DeliverKeeps ==
    ASSUME DeskInv, NEW s \in Sources, NEW p, Deliver(s, p)
    PROVE  DeskInv' /\ Untouched
  <1> DEFINE w == [at |-> IF Requests[p].complete THEN "create" ELSE "acknowledge", request |-> p]
  <1>1. UNCHANGED desk /\ Elsewhere /\ UNCHANGED <<published, stream>> /\ worker' = [worker EXCEPT ![s] = w]
        /\ p \in stream
    BY DEF Deliver
  <1>2. p \in DOMAIN Requests
    BY <1>1 DEF DeskInv, BooksOK
  <1>3. WorkerOK(w, DOMAIN tickets)
    BY <1>2 DEF WorkerOK
  <1> HIDE DEF w
  <1> QED
    BY <1>1, <1>3, OneWorkerMoves DEF DeskInv, BooksOK

\* The ticket of a request gets an id no ticket had.
LEMMA CreateFromRequestKeeps ==
    ASSUME DeskInv, NEW s \in Sources, CreateFromRequest(s)
    PROVE  DeskInv' /\ Untouched
  <1> DEFINE p == worker[s].request
             w == [at |-> "record", request |-> p, ticket |-> NextId]
  <1>1. /\ worker[s].at = "create" /\ worker' = [worker EXCEPT ![s] = w]
        /\ UNCHANGED <<events, recording, req, published, stream>> /\ Elsewhere
    BY DEF CreateFromRequest
  <1>2. PICK priority \in mode.fresh : SaveRow(NextId, NewTicket(priority, "open", Unassigned, p))
    BY DEF CreateFromRequest
  <1>3. p \in DOMAIN Requests
    BY <1>1 DEF DeskInv, WorkersOK, WorkerOK
  <1> DEFINE row == NewTicket(priority, "open", Unassigned, p)
  <1>4. FullRow(row)
    BY <1>3, ModesKnown, NewTicketFull DEF DeskInv, BooksOK, Statuses
  <1>5. SaveRow(NextId, row)
    BY <1>2
  <1> HIDE DEF row
  <1>6. Saves(NextId, row)
    BY <1>4, <1>5 DEF Saves, SaveRow
  <1>7. NextId \notin DOMAIN tickets
    BY NextIdIsNew DEF DeskInv
  <1>8. /\ RowsOK(tickets)' /\ DOMAIN tickets' = DOMAIN tickets \cup {NextId}
        /\ \A i \in DOMAIN tickets : tickets'[i] = tickets[i]
    BY <1>6, <1>7, SavesKeep
  <1>9. WorkerOK(w, DOMAIN tickets')
    BY <1>3, <1>8 DEF WorkerOK
  <1> HIDE DEF w
  <1>10. WorkersOK(DOMAIN tickets)'
    <2>1. DOMAIN tickets \subseteq DOMAIN tickets'
      BY <1>8
    <2>2. \A t \in Sources : WorkerOK(worker[t], DOMAIN tickets')
      BY <2>1, MoreKnown DEF DeskInv, WorkersOK
    <2>3. worker' = [t \in Sources |-> worker'[t]] /\ \A t \in Sources : worker'[t] = IF t = s THEN w ELSE worker[t]
      BY <1>1 DEF DeskInv, WorkersOK
    <2> QED
      BY <1>9, <2>2, <2>3 DEF WorkersOK
  <1>11. SweepingOK(DOMAIN tickets)' /\ LogsOK(DOMAIN tickets)'
    <2>1. DOMAIN tickets \subseteq DOMAIN tickets' /\ UNCHANGED <<sweep, events, recording>>
      BY <1>1, <1>8 DEF Elsewhere
    <2> QED
      BY <2>1, MoreKnown DEF DeskInv, SweepingOK, LogsOK
  <1>12. HandsOK(tickets)'
    <2>1. UNCHANGED <<req, mode>>
      BY <1>1 DEF Elsewhere
    <2>2. \A h \in Handlers : HandOK(h, req[h], mode, tickets')
      BY <1>6, <1>7, OtherSaved DEF DeskInv, HandsOK
    <2> QED
      BY <2>1, <2>2 DEF DeskInv, HandsOK
  <1>13. BooksOK'
    BY <1>1 DEF DeskInv, BooksOK, Elsewhere
  <1> QED
    BY <1>8, <1>10, <1>11, <1>12, <1>13 DEF DeskInv, Untouched

LEMMA RecordCreationKeeps ==
    ASSUME DeskInv, NEW s \in Sources, RecordCreation(s)
    PROVE  DeskInv' /\ Untouched
  <1> DEFINE e == [Event(worker[s].ticket, "created", "open", None) EXCEPT !.at = minute]
             w == [at |-> "acknowledge", request |-> worker[s].request]
  <1>1. /\ worker[s].at = "record" /\ worker' = [worker EXCEPT ![s] = w]
        /\ recording' = Append(recording, e)
        /\ UNCHANGED <<tickets, events, req, published, stream>> /\ Elsewhere
    BY DEF RecordCreation, Call
  <1>2. e.ticket = worker[s].ticket
    BY DEF Event
  <1>3. e.ticket \in DOMAIN tickets
    BY <1>1, <1>2 DEF DeskInv, WorkersOK, WorkerOK
  <1>4. WorkerOK(w, DOMAIN tickets)
    BY DEF WorkerOK
  <1> HIDE DEF e, w
  <1>5. LogsOK(DOMAIN tickets)'
    BY <1>1, <1>3, AppendKnown DEF DeskInv, LogsOK
  <1>6. WorkersOK(DOMAIN tickets)'
    <2>1. worker' = [t \in Sources |-> worker'[t]] /\ \A t \in Sources : worker'[t] = IF t = s THEN w ELSE worker[t]
      BY <1>1 DEF DeskInv, WorkersOK
    <2> QED
      BY <1>1, <1>4, <2>1 DEF DeskInv, WorkersOK
  <1> QED
    BY <1>1, <1>5, <1>6 DEF DeskInv, BooksOK, Elsewhere, HandsOK, SweepingOK, Untouched

-----------------------------------------------------------------------------
\* A sweep moves on; it writes at most an event of a ticket there is.
LEMMA SweepMovesKeeps ==
    ASSUME DeskInv, NEW s \in Sweeps, NEW w, SweepStep(s, w), SweepOK(w, DOMAIN tickets),
           \/ UNCHANGED events
           \/ \E e : e.ticket \in DOMAIN tickets /\ events' = Append(events, e)
    PROVE  DeskInv' /\ Untouched
  <1>1. /\ sweep' = [sweep EXCEPT ![s] = w]
        /\ UNCHANGED <<mode, recording, req, tickets, policies, published, stream, worker>>
    BY DEF SweepStep
  <1>2. SweepingOK(DOMAIN tickets)'
    BY <1>1 DEF DeskInv, SweepingOK
  <1>3. LogsOK(DOMAIN tickets)'
    BY <1>1, AppendKnown DEF DeskInv, LogsOK
  <1> QED
    BY <1>1, <1>2, <1>3 DEF DeskInv, BooksOK, HandsOK, WorkersOK, Untouched

\* The verdicts in hand are of tickets there are, so that one comes first.
LEMMA FirstIsThere ==
    ASSUME DeskInv, NEW s \in Sweeps, sweep[s].at \in {"record", "alert"}
    PROVE  First(sweep[s].todo) \in sweep[s].todo
  <1> DEFINE todo == sweep[s].todo
             ids == {v.ticket : v \in todo}
             Less == OpToRel(<, Nat)
  <1>1. todo # {} /\ \A v \in todo : v.ticket \in DOMAIN tickets /\ v.clock \in Clocks
    BY DEF DeskInv, SweepingOK, SweepOK, VerdictOK
  <1>2. DOMAIN tickets \subseteq Nat
    BY DEF DeskInv, RowsOK
  <1>3. IsWellFoundedOn(Less, Nat) /\ \A x, y \in Nat : y < x => <<y, x>> \in Less
    BY NatLessThanWellFounded DEF OpToRel
  <1> HIDE DEF todo, Less
  <1>4. ids \subseteq Nat /\ ids # {}
    BY <1>1, <1>2
  <1> HIDE DEF ids
  <1>5. PICK least \in ids : \A y \in ids : ~(<<y, least>> \in Less)
    BY <1>3, <1>4, WFMin
  <1>6. \A y \in ids : least <= y
    <2>1. \A y \in ids : ~(y < least)
      BY <1>3, <1>4, <1>5
    <2> QED
      BY <1>4, <2>1
  <1>7. \A v \in todo : v.ticket \in Nat /\ least <= v.ticket
    BY <1>4, <1>6 DEF ids
  <1>8. PICK u \in todo : u.ticket = least
    BY DEF ids
  <1>9. \E v \in todo : /\ v.ticket = least
                        /\ v.clock = "response" \/ \A w \in todo : w.ticket = least => w.clock = v.clock
    <2>1. CASE \E v \in todo : v.ticket = least /\ v.clock = "response"
      BY <2>1
    <2>2. CASE \A v \in todo : v.ticket = least => v.clock # "response"
      <3>1. \A v \in todo : v.ticket = least => v.clock = "resolution"
        BY <1>1, <2>2 DEF Clocks
      <3> QED
        BY <1>8, <3>1
    <2> QED
      BY <2>1, <2>2
  <1>10. PICK v \in todo : /\ v.ticket = least
                           /\ v.clock = "response" \/ \A w \in todo : w.ticket = least => w.clock = v.clock
    BY <1>9
  <1>11. \A w \in todo : \/ v.ticket < w.ticket
                         \/ v.ticket = w.ticket /\ (v.clock = "response" \/ w.clock = v.clock)
    BY <1>7, <1>10
  <1>12. First(todo) \in todo
    BY <1>11 DEF First
  <1> QED
    BY <1>12 DEF todo

LEMMA ToRecordOK ==
    ASSUME NEW todo, NEW ids, \A v \in todo : VerdictOK(v, ids)
    PROVE  SweepOK(ToRecord(todo), ids)
  BY DEF ToRecord, SweepOK, Resting

LEMMA SweepKeeps ==
    ASSUME DeskInv, NEW s \in Sweeps,
           \/ FindOpen(s) \/ ReadEvents(s) \/ RecordOnce(s) \/ RecordRefused(s)
           \/ Alert(s) \/ SweepFails(s)
    PROVE  DeskInv' /\ Untouched
  <1> DEFINE ids == DOMAIN tickets
             todo == sweep[s].todo
             first == First(todo)
             rest == todo \ {first}
  <1>1. SweepOK(sweep[s], ids)
    BY DEF DeskInv, SweepingOK
  <1>2. SweepOK(Resting, ids)
    BY DEF SweepOK, Resting
  <1>3. ASSUME sweep[s].at \in {"record", "alert"}
        PROVE  SweepOK(ToRecord(rest), ids) /\ VerdictOK(first, ids)
    <2>1. first \in todo /\ \A v \in todo : VerdictOK(v, ids)
      BY <1>1, <1>3, FirstIsThere DEF SweepOK
    <2>2. \A v \in rest : VerdictOK(v, ids)
      BY <2>1
    <2> HIDE DEF rest
    <2> QED
      BY <2>1, <2>2, ToRecordOK
  <1>4. CASE FindOpen(s)
    <2> DEFINE w == IF OpenTickets = {} THEN Resting
                    ELSE [at |-> "read", rows |-> [id \in OpenTickets |-> tickets[id]]]
    <2>1. SweepStep(s, w) /\ UNCHANGED events
      BY <1>4 DEF FindOpen
    <2>2. SweepOK(w, ids)
      BY <1>2 DEF OpenTickets, SweepOK
    <2> HIDE DEF w
    <2> QED
      BY <2>1, <2>2, SweepMovesKeeps
  <1>5. CASE ReadEvents(s)
    <2> DEFINE rows == sweep[s].rows
               found == UNION {VerdictsOn(id, rows[id]) : id \in DOMAIN rows}
    <2>1. SweepStep(s, ToRecord(found)) /\ UNCHANGED events /\ sweep[s].at = "read"
      BY <1>5 DEF ReadEvents
    <2>2. DOMAIN rows \subseteq ids
      BY <1>1, <2>1 DEF SweepOK
    <2>3. ASSUME NEW id \in DOMAIN rows, NEW v \in VerdictsOn(id, rows[id])
          PROVE  VerdictOK(v, ids)
      <3>1. PICK verdict, clock, assignee :
               /\ v = [ticket |-> id, verdict |-> verdict, clock |-> clock, assignee |-> assignee]
               /\ clock \in Clocks
        BY <2>3 DEF VerdictsOn
      <3> QED
        BY <2>2, <3>1 DEF VerdictOK
    <2>4. \A v \in found : VerdictOK(v, ids)
      BY <2>3
    <2> HIDE DEF found
    <2>5. SweepOK(ToRecord(found), ids)
      BY <2>4, ToRecordOK
    <2> QED
      BY <2>1, <2>5, SweepMovesKeeps
  <1>6. CASE RecordOnce(s)
    <2> DEFINE known == AlreadyRecorded(first.ticket, first.verdict, first.clock)
               e == Event(first.ticket, first.verdict, None, first.clock)
               alert == [at |-> "alert", todo |-> todo]
    <2>1. /\ sweep[s].at = "record"
          /\ events' = IF known THEN events ELSE Append(events, e)
          /\ SweepStep(s, alert) \/ SweepStep(s, ToRecord(rest))
      BY <1>6 DEF RecordOnce
    <2>2. e.ticket = first.ticket
      BY DEF Event
    <2>3. e.ticket \in ids
      BY <1>3, <2>1, <2>2 DEF VerdictOK
    <2>4. SweepOK(alert, ids)
      BY <1>1, <2>1 DEF SweepOK
    <2> HIDE DEF e, alert, known, rest
    <2>5. \/ UNCHANGED events
          \/ \E f : f.ticket \in ids /\ events' = Append(events, f)
      BY <2>1, <2>3
    <2> QED
      BY <1>3, <2>1, <2>4, <2>5, SweepMovesKeeps
  <1>7. CASE RecordRefused(s)
    <2>1. sweep[s].at = "record" /\ SweepStep(s, ToRecord(rest)) /\ UNCHANGED events
      BY <1>7 DEF RecordRefused
    <2> HIDE DEF rest
    <2> QED
      BY <1>3, <2>1, SweepMovesKeeps
  <1>8. CASE Alert(s)
    <2>1. sweep[s].at = "alert" /\ SweepStep(s, ToRecord(rest)) /\ UNCHANGED events
      BY <1>8 DEF Alert
    <2> HIDE DEF rest
    <2> QED
      BY <1>3, <2>1, SweepMovesKeeps
  <1>9. CASE SweepFails(s)
    BY <1>2, <1>9, SweepMovesKeeps DEF SweepFails
  <1> QED
    BY <1>4, <1>5, <1>6, <1>7, <1>8, <1>9

LEMMA MinuteKeeps ==
    ASSUME DeskInv, NextMinute
    PROVE  DeskInv' /\ Untouched
  <1>1. /\ UNCHANGED desk /\ UNCHANGED <<mode, policies, published, stream, worker>>
        /\ UNCHANGED sweep \/ \E s \in Sweeps : sweep' = [sweep EXCEPT ![s] = [at |-> "find"]]
    BY DEF NextMinute
  <1>2. SweepOK([at |-> "find"], DOMAIN tickets)
    BY DEF SweepOK
  <1>3. SweepingOK(DOMAIN tickets)'
    BY <1>1, <1>2 DEF DeskInv, SweepingOK, desk
  <1>4. WorkersOK(DOMAIN tickets)' /\ BooksOK'
    BY <1>1 DEF DeskInv, WorkersOK, BooksOK, desk
  <1> QED
    BY <1>1, <1>3, <1>4, AsideKeeps

LEMMA RestartForgets ==
    ASSUME DeskInv, Restart
    PROVE  DeskInv' /\ Untouched
  <1>1. /\ UNCHANGED <<mode, tickets, events, policies, published, stream>>
        /\ req' = [h \in Handlers |-> Idle] /\ recording' = <<>>
        /\ worker' = Started /\ sweep' = [s \in Sweeps |-> Resting]
    BY DEF Restart
  <1>2. LogKnown(<<>>, DOMAIN tickets)
    <2>1. <<>> \in Seq({}) /\ DOMAIN <<>> = {}
      OBVIOUS
    <2> QED
      BY <2>1 DEF LogKnown, IsLog
  <1>3. HandsOK(tickets)'
    BY <1>1 DEF HandsOK, HandOK, Idle
  <1>4. SweepingOK(DOMAIN tickets)'
    BY <1>1 DEF SweepingOK, SweepOK, Resting
  <1>5. WorkersOK(DOMAIN tickets)'
    BY <1>1, StartedOK DEF WorkersOK
  <1> QED
    BY <1>1, <1>2, <1>3, <1>4, <1>5 DEF DeskInv, BooksOK, LogsOK, Untouched

LEMMA LeavesKeeps ==
    ASSUME DeskInv, NEW m, MemberLeaves(m)
    PROVE  DeskInv' /\ Untouched
  BY DEF MemberLeaves, DeskInv, BooksOK, desk, LogsOK, HandsOK, WorkersOK, SweepingOK, Untouched

-----------------------------------------------------------------------------
LEMMA DeskInit == Init => DeskInv
  <1> SUFFICES ASSUME Init PROVE DeskInv
    OBVIOUS
  <1>1. DOMAIN tickets = {} /\ tickets = [id \in DOMAIN tickets |-> tickets[id]]
    BY DEF Init
  <1>2. RowsOK(tickets)
    <2>1. DOMAIN tickets = 1 .. 0
      BY <1>1
    <2> QED
      BY <1>1, <2>1 DEF RowsOK
  <1>3. LogKnown(<<>>, DOMAIN tickets)
    <2>1. <<>> \in Seq({}) /\ DOMAIN <<>> = {}
      OBVIOUS
    <2> QED
      BY <2>1 DEF LogKnown, IsLog
  <1>4. BooksOK
    BY ModesKnown DEF Init, BooksOK
  <1>5. HandsOK(tickets)
    BY DEF Init, HandsOK, HandOK, Idle
  <1>6. WorkersOK(DOMAIN tickets)
    BY StartedOK DEF Init, WorkersOK
  <1>7. SweepingOK(DOMAIN tickets)
    BY DEF Init, SweepingOK, SweepOK, Resting
  <1> QED
    BY <1>2, <1>3, <1>4, <1>5, <1>6, <1>7 DEF Init, DeskInv, LogsOK

\* Every step keeps the invariant, and with one request at a time what is
\* settled.
LEMMA DeskStep ==
    ASSUME DeskInv, [Next]_vars
    PROVE  /\ DeskInv'
           /\ Orderly => \A id \in DOMAIN tickets : ClosedStands(tickets[id], tickets'[id])
  <1>1. CASE UNCHANGED vars
    <2>1. DeskInv' /\ Untouched
      BY <1>1 DEF vars, DeskInv, BooksOK, LogsOK, HandsOK, WorkersOK, SweepingOK, Untouched
    <2> QED
      BY <2>1, UntouchedStands
  <1>2. CASE Desk
    <2>1. UNCHANGED outside
      BY <1>2 DEF Desk
    <2>2. ASSUME NEW h \in Handlers, Request(h)
          PROVE  DeskInv' /\ Untouched
      <3>1. UNCHANGED tickets
        <4>1. \A id, row, action, to, meta : Begins(h, id, row, action, to, meta) => UNCHANGED tickets
          BY DEF Begins
        <4>2. \A priority, status, assignee : Create(h, priority, status, assignee) => UNCHANGED tickets
          BY <4>1 DEF Create
        <4>3. \A id, visibility : AddReply(h, id, visibility) => UNCHANGED tickets
          BY <4>1 DEF AddReply
        <4>4. \A id, status, reason, code, notes :
                 SetStatus(h, id, status, reason, code, notes) => UNCHANGED tickets
          BY <4>1 DEF SetStatus
        <4>5. \A id, assignee : Assign(h, id, assignee) => UNCHANGED tickets
          BY <4>1 DEF Assign
        <4>6. \A id, priority : Update(h, id, priority) => UNCHANGED tickets
          BY <4>1 DEF Update
        <4> QED
          BY <2>2, <4>2, <4>3, <4>4, <4>5, <4>6 DEF Request
      <3> QED
        BY <2>1, <2>2, <3>1, RequestKeeps DEF Untouched
    <2>3. ASSUME NEW h \in Handlers, Save(h)
          PROVE  /\ DeskInv'
                 /\ Orderly => \A id \in DOMAIN tickets : ClosedStands(tickets[id], tickets'[id])
      BY <2>1, <2>3, SaveKeeps
    <2>4. ASSUME NEW h \in Handlers, Record(h)
          PROVE  DeskInv' /\ Untouched
      BY <2>1, <2>4, RecordKeeps
    <2>5. CASE RecordInserted
      BY <2>1, <2>5, InsertedKeeps, UntouchedStands
    <2> QED
      BY <1>2, <2>2, <2>3, <2>4, <2>5, UntouchedStands DEF Desk
  <1>3. CASE EventLost \/ (\E m \in Members : MemberLeaves(m)) \/ BootFails \/ NextMinute \/ Restart
    <2>1. DeskInv' /\ Untouched
      BY <1>3, LostKeeps, LeavesKeeps, BootFailsKeeps, MinuteKeeps, RestartForgets
    <2> QED
      BY <2>1, UntouchedStands
  <1>4. CASE \E priority \in Priorities : Policy(priority)
    BY <1>4, PolicyKeeps, UntouchedStands
  <1>5. CASE \E p \in DOMAIN Requests : Publish(p) \/ \E s \in Sources : Deliver(s, p)
    BY <1>5, PublishKeeps, DeliverKeeps, UntouchedStands
  <1>6. CASE \E s \in Sources : ConsumerStep(s) \/ DeliveryFails(s) \/ BindFails(s)
    <2> PICK s \in Sources : ConsumerStep(s) \/ DeliveryFails(s) \/ BindFails(s)
      BY <1>6
    <2>1. DeskInv' /\ Untouched
      BY ConsumerKeeps, CreateFromRequestKeeps, RecordCreationKeeps DEF ConsumerStep
    <2> QED
      BY <2>1, UntouchedStands
  <1>7. CASE \E s \in Sweeps : \/ FindOpen(s) \/ ReadEvents(s) \/ RecordOnce(s) \/ RecordRefused(s)
                               \/ Alert(s) \/ SweepFails(s)
    BY <1>7, SweepKeeps, UntouchedStands
  <1> QED
    BY <1>1, <1>2, <1>3, <1>4, <1>5, <1>6, <1>7 DEF Next

\* The tables of TicketsService and SlaPolicyService hold what their columns
\* say, and every event speaks of a ticket there is, whatever overlaps, fails
\* or restarts.
THEOREM DeskTyped == Spec => []TypeOK
  <1>1. DeskInv => TypeOK
    <2> SUFFICES ASSUME DeskInv PROVE TypeOK
      OBVIOUS
    <2>1. \A id \in DOMAIN tickets : FullRow(tickets[id])
      BY DEF DeskInv, RowsOK
    <2>2. tickets \in [DOMAIN tickets -> TicketRows] /\ DOMAIN tickets \subseteq Tickets
      BY <2>1 DEF DeskInv, RowsOK, FullRow
    <2>3. \A i \in DOMAIN events : events[i].ticket \in DOMAIN tickets
      BY DEF DeskInv, LogsOK, LogKnown
    <2> QED
      BY <2>1, <2>2, <2>3 DEF TypeOK, DeskInv, BooksOK, FullRow
  <1>2. DeskInv /\ [Next]_vars => DeskInv'
    BY DeskStep
  <1> QED
    BY <1>1, <1>2, DeskInit, PTL DEF Spec

\* "A closed ticket is not reopenable by anyone": while requests do not
\* overlap, no setStatus(), assign(), update() or addReply(), and no request
\* of an application, takes a ticket out of its end or a reply off it.
THEOREM SettledIsKept == Spec => SettledStands
  <1>1. DeskInv /\ [Next]_vars => DeskInv'
    BY DeskStep
  <1>2. DeskInv /\ [Next]_vars
        => [Orderly => \A id \in DOMAIN tickets : ClosedStands(tickets[id], tickets'[id])]_vars
    BY DeskStep
  <1> QED
    BY <1>1, <1>2, DeskInit, PTL DEF Spec, SettledStands

-----------------------------------------------------------------------------
\* What holds of 0 and of the successor of each number it holds of.
LEMMA Counting ==
    ASSUME NEW Good, 0 \in Good, \A n \in Nat : n \in Good => n + 1 \in Good
    PROVE  \A n \in Nat : n \in Good
  <1> DEFINE Less == OpToRel(<, Nat)
             bad == {n \in Nat : n \notin Good}
  <1>1. IsWellFoundedOn(Less, Nat) /\ \A x, y \in Nat : y < x => <<y, x>> \in Less
    BY NatLessThanWellFounded DEF OpToRel
  <1> HIDE DEF Less
  <1>2. SUFFICES ASSUME bad # {} PROVE FALSE
    OBVIOUS
  <1>3. PICK x \in bad : \A y \in bad : ~(<<y, x>> \in Less)
    BY <1>1, <1>2, WFMin
  <1>4. x \in Nat /\ x # 0 /\ x - 1 \in Nat /\ x - 1 < x
    BY <1>3
  <1>5. x - 1 \in Good
    BY <1>1, <1>3, <1>4
  <1>6. x - 1 + 1 \in Good
    BY <1>4, <1>5
  <1> QED
    BY <1>3, <1>4, <1>6

\* What holds of the empty set and grows with a set holds of a finite one.
LEMMA Growing ==
    ASSUME NEW S, IsFiniteSet(S), NEW Good, {} \in Good,
           \A T \in SUBSET S : \A x \in T : T \ {x} \in Good => T \in Good
    PROVE  \A T \in SUBSET S : T \in Good
  <1> DEFINE sized == {n \in Nat : \A T \in SUBSET S : Cardinality(T) = n => T \in Good}
  <1>1. \A T \in SUBSET S : IsFiniteSet(T) /\ Cardinality(T) \in Nat
    BY FS_Subset, FS_CardinalityType
  <1>2. 0 \in sized
    BY <1>1, FS_EmptySet
  <1>3. ASSUME NEW n \in Nat, n \in sized
        PROVE  n + 1 \in sized
    <2>1. SUFFICES ASSUME NEW T \in SUBSET S, Cardinality(T) = n + 1
                   PROVE  T \in Good
      OBVIOUS
    <2>2. PICK x \in T : TRUE
      BY <1>1, <2>1, FS_EmptySet
    <2>3. Cardinality(T \ {x}) = n
      BY <1>1, <2>1, <2>2, FS_RemoveElement
    <2>4. T \ {x} \in Good
      BY <1>3, <2>3
    <2> QED
      BY <2>2, <2>4
  <1> HIDE DEF sized
  <1>4. \A n \in Nat : n \in sized
    BY <1>2, <1>3, Counting
  <1> QED
    BY <1>1, <1>4 DEF sized

-----------------------------------------------------------------------------
Picked(T) == CHOOSE x \in T : TRUE

\* sums[T]: f summed over T, an element after the other.
Adds(sums, f, S) ==
    sums = [T \in SUBSET S |-> IF T = {} THEN 0 ELSE f[Picked(T)] + sums[T \ {Picked(T)}]]

LEMMA SumIsChosen ==
    ASSUME NEW f, NEW S
    PROVE  SumFunctionOnSet(f, S) = (CHOOSE sums : Adds(sums, f, S))[S]
  BY DEF SumFunctionOnSet, FoldFunctionOnSet, MapThenFoldSet, Adds, Picked

LEMMA SumsExist ==
    ASSUME NEW f, NEW S, IsFiniteSet(S)
    PROVE  \E sums : Adds(sums, f, S)
  <1> DEFINE upTo(n) == {T \in SUBSET S : Cardinality(T) <= n}
             adds(g, n) == g = [T \in upTo(n) |-> IF T = {} THEN 0 ELSE f[Picked(T)] + g[T \ {Picked(T)}]]
             good == {n \in Nat : \E g : adds(g, n)}
  <1>1. \A T \in SUBSET S : /\ IsFiniteSet(T) /\ Cardinality(T) \in Nat /\ Cardinality(T) <= Cardinality(S)
                            /\ Cardinality(T) = 0 <=> T = {}
    BY FS_Subset, FS_CardinalityType, FS_EmptySet
  <1>2. \A T \in SUBSET S : T # {} => /\ Picked(T) \in T /\ T \ {Picked(T)} \in SUBSET S
                                      /\ Cardinality(T \ {Picked(T)}) = Cardinality(T) - 1
    BY <1>1, FS_RemoveElement DEF Picked
  <1>3. 0 \in good
    <2> DEFINE g == [T \in upTo(0) |-> 0]
    <2>1. \A T \in upTo(0) : T = {}
      BY <1>1
    <2>2. adds(g, 0)
      BY <2>1
    <2> QED
      BY <2>2
  <1>4. ASSUME NEW n \in Nat, n \in good
        PROVE  n + 1 \in good
    <2>1. PICK g : adds(g, n)
      BY <1>4
    <2> DEFINE h == [T \in upTo(n + 1) |-> IF T = {} THEN 0 ELSE f[Picked(T)] + g[T \ {Picked(T)}]]
    <2>2. \A T \in upTo(n) : T \in upTo(n + 1)
      BY <1>1
    <2>6. \A T \in upTo(n) : g[T] = IF T = {} THEN 0 ELSE f[Picked(T)] + g[T \ {Picked(T)}]
      <3> HIDE DEF upTo
      <3> QED
        BY <2>1
    <2>7. \A T \in upTo(n + 1) : h[T] = IF T = {} THEN 0 ELSE f[Picked(T)] + g[T \ {Picked(T)}]
      <3> HIDE DEF upTo
      <3> QED
        OBVIOUS
    <2>8. \A T \in upTo(n) : g[T] = h[T]
      <3> HIDE DEF upTo, h
      <3> QED
        BY <2>2, <2>6, <2>7
    <2>3. \A T \in upTo(n + 1) : T # {} => T \ {Picked(T)} \in upTo(n)
      BY <1>1, <1>2
    <2>4. \A T \in upTo(n + 1) : T # {} => g[T \ {Picked(T)}] = h[T \ {Picked(T)}]
      BY <2>3, <2>8
    <2>5. adds(h, n + 1)
      BY <2>4
    <2> HIDE DEF h, adds
    <2> QED
      BY <2>5
  <1> HIDE DEF good
  <1>5. Cardinality(S) \in Nat /\ \A n \in Nat : n \in good
    BY <1>1, <1>3, <1>4, Counting
  <1>6. PICK g : adds(g, Cardinality(S))
    BY <1>5 DEF good
  <1>7. upTo(Cardinality(S)) = SUBSET S
    BY <1>1
  <1> QED
    BY <1>6, <1>7 DEF Adds

\* The order in which elements are added does not matter.
LEMMA SumsAny ==
    ASSUME NEW f, NEW S, IsFiniteSet(S), \A x \in S : f[x] \in Int, NEW sums, Adds(sums, f, S)
    PROVE  \A T \in SUBSET S : sums[T] \in Int /\ \A y \in T : sums[T] = f[y] + sums[T \ {y}]
  <1> DEFINE ok(T) == sums[T] \in Int /\ \A y \in T : sums[T] = f[y] + sums[T \ {y}]
  <1>1. \A T \in SUBSET S : sums[T] = IF T = {} THEN 0 ELSE f[Picked(T)] + sums[T \ {Picked(T)}]
    BY DEF Adds
  <1>2. \A T \in SUBSET S : T # {} => Picked(T) \in T
    BY DEF Picked
  <1>3. ok({})
    <2>1. {} \in SUBSET S
      OBVIOUS
    <2>2. sums[{}] = 0
      BY <1>1, <2>1
    <2> QED
      BY <2>2
  <1>4. ASSUME NEW T \in SUBSET S, NEW a \in T, \A U \in SUBSET T : U # T => ok(U)
        PROVE  ok(T)
    <2> DEFINE x == Picked(T)
    <2>1. x \in T /\ sums[T] = f[x] + sums[T \ {x}]
      BY <1>1, <1>2
    <2>2. ok(T \ {x}) /\ f[x] \in Int
      BY <1>4, <2>1
    <2>3. ASSUME NEW y \in T, y # x
          PROVE  sums[T] = f[y] + sums[T \ {y}]
      <3>1. (T \ {x}) \ {y} = (T \ {y}) \ {x}
        OBVIOUS
      <3>2. ok(T \ {y}) /\ ok((T \ {x}) \ {y}) /\ f[y] \in Int
        BY <1>4, <2>1
      <3>3. sums[T \ {x}] = f[y] + sums[(T \ {x}) \ {y}]
        BY <2>2, <2>3
      <3>4. x \in T \ {y}
        BY <2>1, <2>3
      <3>5. sums[T \ {y}] = f[x] + sums[(T \ {y}) \ {x}]
        BY <3>2, <3>4
      <3>6. sums[(T \ {x}) \ {y}] \in Int
        BY <3>2
      <3> HIDE DEF x, ok
      <3>7. sums[T] = f[x] + (f[y] + sums[(T \ {x}) \ {y}])
        BY <2>1, <3>3
      <3>8. sums[T \ {y}] = f[x] + sums[(T \ {x}) \ {y}]
        BY <3>1, <3>5
      <3>9. f[x] \in Int /\ f[y] \in Int
        BY <2>2, <3>2
      <3> QED
        BY <3>6, <3>7, <3>8, <3>9
    <2>4. sums[T] = f[x] + sums[T \ {x}] /\ f[x] \in Int /\ sums[T \ {x}] \in Int
      BY <2>1, <2>2
    <2>5. sums[T] \in Int
      <3> HIDE DEF x
      <3> QED
        BY <2>4
    <2>6. \A y \in T : sums[T] = f[y] + sums[T \ {y}]
      BY <2>1, <2>3
    <2> QED
      BY <2>5, <2>6
  <1>5. ASSUME NEW n \in Nat, \A T \in SUBSET S : Cardinality(T) <= n => ok(T)
        PROVE  \A T \in SUBSET S : Cardinality(T) <= n + 1 => ok(T)
    <2>1. SUFFICES ASSUME NEW T \in SUBSET S, Cardinality(T) <= n + 1, T # {}
                   PROVE  ok(T)
      <3> HIDE DEF ok
      <3> QED
        BY <1>3
    <2>2. ASSUME NEW U \in SUBSET T, U # T
          PROVE  ok(U)
      <3>1. /\ IsFiniteSet(T) /\ IsFiniteSet(U) /\ Cardinality(U) \in Nat /\ Cardinality(T) \in Nat
            /\ Cardinality(U) <= Cardinality(T) /\ Cardinality(U) # Cardinality(T)
        BY <2>2, FS_Subset, FS_CardinalityType
      <3> HIDE DEF ok
      <3> QED
        BY <1>5, <2>1, <2>2, <3>1
    <2> HIDE DEF ok
    <2> QED
      BY <1>4, <2>1, <2>2
  <1> HIDE DEF ok
  <1> DEFINE sized == {n \in Nat : \A T \in SUBSET S : Cardinality(T) <= n => ok(T)}
  <1>6. 0 \in sized
    <2>1. \A T \in SUBSET S : Cardinality(T) <= 0 => T = {}
      BY FS_Subset, FS_CardinalityType, FS_EmptySet
    <2>2. ok({})
      BY <1>3
    <2> QED
      BY <2>1, <2>2
  <1>7. \A n \in Nat : n \in sized
    <2>1. \A n \in Nat : n \in sized => n + 1 \in sized
      BY <1>5
    <2> HIDE DEF sized
    <2> QED
      BY <1>6, <2>1, Counting
  <1>8. \A T \in SUBSET S : ok(T)
    <2> SUFFICES ASSUME NEW T \in SUBSET S PROVE ok(T)
      OBVIOUS
    <2>1. Cardinality(T) \in Nat
      BY FS_Subset, FS_CardinalityType
    <2> QED
      BY <1>7, <2>1
  <1> QED
    BY <1>8 DEF ok

LEMMA SumsAgree ==
    ASSUME NEW f, NEW S, IsFiniteSet(S), NEW R \in SUBSET S, NEW sums, Adds(sums, f, S), NEW other, Adds(other, f, R)
    PROVE  other[R] = sums[R]
  <1> DEFINE good == {T \in SUBSET R : other[T] = sums[T]}
             sized == {n \in Nat : \A T \in SUBSET R : Cardinality(T) <= n => T \in good}
  <1>0. \A T \in SUBSET R : IsFiniteSet(T) /\ Cardinality(T) \in Nat /\ (Cardinality(T) = 0 <=> T = {})
    BY FS_Subset, FS_CardinalityType, FS_EmptySet
  <1>1. \A T \in SUBSET R : /\ sums[T] = IF T = {} THEN 0 ELSE f[Picked(T)] + sums[T \ {Picked(T)}]
                            /\ other[T] = IF T = {} THEN 0 ELSE f[Picked(T)] + other[T \ {Picked(T)}]
    BY DEF Adds
  <1>5. {} \in good
    <2>1. {} \in SUBSET R
      OBVIOUS
    <2> QED
      BY <1>1, <2>1
  <1>2. 0 \in sized
    BY <1>0, <1>5
  <1>3. ASSUME NEW n \in Nat, n \in sized
        PROVE  n + 1 \in sized
    <2>1. ASSUME NEW T \in SUBSET R, Cardinality(T) <= n + 1, T # {}
          PROVE  T \in good
      <3>1. Picked(T) \in T
        BY <2>1 DEF Picked
      <3>2. T \ {Picked(T)} \in SUBSET R /\ Cardinality(T \ {Picked(T)}) <= n
        BY <1>0, <2>1, <3>1, FS_RemoveElement
      <3>3. T \ {Picked(T)} \in good
        BY <1>3, <3>2
      <3> QED
        BY <1>1, <2>1, <3>3
    <2>2. \A T \in SUBSET R : Cardinality(T) <= n + 1 => T \in good
      <3> HIDE DEF good
      <3> QED
        BY <1>5, <2>1
    <2> HIDE DEF good
    <2> QED
      BY <1>3, <2>2
  <1> HIDE DEF sized
  <1>4. \A n \in Nat : n \in sized
    BY <1>2, <1>3, Counting
  <1> QED
    BY <1>0, <1>4 DEF sized

\* A sum is any of its terms and the sum of the others.
LEMMA SumSplits ==
    ASSUME NEW f, NEW S, IsFiniteSet(S), \A x \in S : f[x] \in Int
    PROVE  /\ SumFunctionOnSet(f, S) \in Int
           /\ S = {} => SumFunctionOnSet(f, S) = 0
           /\ \A x \in S : SumFunctionOnSet(f, S) = f[x] + SumFunctionOnSet(f, S \ {x})
  <1> DEFINE sums == CHOOSE sums : Adds(sums, f, S)
  <1>1. Adds(sums, f, S) /\ SumFunctionOnSet(f, S) = sums[S]
    BY SumsExist, SumIsChosen
  <1>2. ASSUME NEW R \in SUBSET S
        PROVE  SumFunctionOnSet(f, R) = sums[R]
    <2> DEFINE other == CHOOSE other : Adds(other, f, R)
    <2>1. Adds(other, f, R) /\ SumFunctionOnSet(f, R) = other[R]
      BY FS_Subset, SumsExist, SumIsChosen
    <2> HIDE DEF sums, other
    <2> QED
      BY <1>1, <2>1, SumsAgree
  <1> HIDE DEF sums
  <1>3. sums[S] \in Int /\ \A x \in S : sums[S] = f[x] + sums[S \ {x}]
    BY <1>1, SumsAny
  <1>4. S = {} => sums[S] = 0
    BY <1>1 DEF Adds
  <1> QED
    BY <1>1, <1>2, <1>3, <1>4

\* Equal terms have equal sums.
LEMMA SumsSame ==
    ASSUME NEW f, NEW g, NEW S, IsFiniteSet(S), \A x \in S : f[x] \in Int /\ g[x] = f[x]
    PROVE  SumFunctionOnSet(g, S) = SumFunctionOnSet(f, S)
  <1> DEFINE good == {T \in SUBSET S : SumFunctionOnSet(g, T) = SumFunctionOnSet(f, T)}
  <1>1. {} \in good
    BY FS_EmptySet, SumSplits
  <1>2. ASSUME NEW T \in SUBSET S, NEW x \in T, T \ {x} \in good
        PROVE  T \in good
    <2>1. IsFiniteSet(T)
      BY FS_Subset
    <2>2. SumFunctionOnSet(f, T) = f[x] + SumFunctionOnSet(f, T \ {x})
      BY <2>1, SumSplits
    <2>3. SumFunctionOnSet(g, T) = g[x] + SumFunctionOnSet(g, T \ {x})
      BY <2>1, SumSplits
    <2> QED
      BY <1>2, <2>2, <2>3
  <1> HIDE DEF good
  <1>3. S \in good
    BY <1>1, <1>2, Growing
  <1> QED
    BY <1>3 DEF good

\* A term that is nothing adds nothing; a term that gains adds what it gains.
LEMMA SumGrows ==
    ASSUME NEW f, NEW g, NEW S, IsFiniteSet(S), NEW x, x \notin S, g[x] = 0,
           \A y \in S : f[y] \in Int /\ g[y] = f[y]
    PROVE  SumFunctionOnSet(g, S \cup {x}) = SumFunctionOnSet(f, S)
  <1>1. IsFiniteSet(S \cup {x}) /\ (S \cup {x}) \ {x} = S
    BY FS_AddElement
  <1>2. SumFunctionOnSet(g, S \cup {x}) = g[x] + SumFunctionOnSet(g, S)
    BY <1>1, SumSplits
  <1>3. SumFunctionOnSet(g, S) = SumFunctionOnSet(f, S)
    BY SumsSame
  <1>4. SumFunctionOnSet(f, S) \in Int
    BY SumSplits
  <1> QED
    BY <1>2, <1>3, <1>4

LEMMA SumGains ==
    ASSUME NEW f, NEW g, NEW S, IsFiniteSet(S), NEW x \in S, NEW d \in Int, g[x] = f[x] + d,
           \A y \in S : f[y] \in Int /\ (y # x => g[y] = f[y])
    PROVE  SumFunctionOnSet(g, S) = SumFunctionOnSet(f, S) + d
  <1>1. IsFiniteSet(S \ {x})
    BY FS_RemoveElement
  <1>2. \A y \in S : g[y] \in Int
    OBVIOUS
  <1>3. SumFunctionOnSet(g, S) = g[x] + SumFunctionOnSet(g, S \ {x})
    BY <1>2, SumSplits
  <1>4. SumFunctionOnSet(f, S) = f[x] + SumFunctionOnSet(f, S \ {x})
    BY SumSplits
  <1>5. SumFunctionOnSet(g, S \ {x}) = SumFunctionOnSet(f, S \ {x})
    BY <1>1, SumsSame
  <1>6. SumFunctionOnSet(f, S \ {x}) \in Int /\ f[x] \in Int
    BY <1>1, SumSplits
  <1> QED
    BY <1>3, <1>4, <1>5, <1>6

-----------------------------------------------------------------------------
(***************************************************************************)
(* What an SLA clock reads is what the ticket has waited.  While people    *)
(* come one at a time and what a minute brings is done within it, the      *)
(* last word the log has of a ticket is its row's, or is on its way.       *)
(***************************************************************************)
LEMMA Earliest ==
    ASSUME NEW S, S \subseteq Nat, S # {}
    PROVE  Min(S) \in S /\ \A d \in S : Min(S) <= d
  <1> DEFINE Less == OpToRel(<, Nat)
  <1>1. IsWellFoundedOn(Less, Nat) /\ \A x, y \in Nat : y < x => <<y, x>> \in Less
    BY NatLessThanWellFounded DEF OpToRel
  <1> HIDE DEF Less
  <1>2. PICK x \in S : \A y \in S : ~(<<y, x>> \in Less)
    BY <1>1, WFMin
  <1>3. \A y \in S : ~(y < x)
    BY <1>1, <1>2
  <1>4. \A y \in S : x <= y
    BY <1>3
  <1> QED
    BY <1>4 DEF Min

\* Events are dated, in the order of their dates; those on their way, now.
Dated ==
    /\ minute \in Nat
    /\ \A i \in DOMAIN events : events[i].at \in Nat /\ events[i].at <= minute
    /\ \A i, j \in DOMAIN events : i < j => events[i].at <= events[j].at
    /\ \A i \in DOMAIN recording : recording[i].at = minute

\* The date a clock stopped at, and what it reads.
StopDate(id, clock) == IF clock = "response" THEN ReplyDate(EventsOf(id)) ELSE None

Points(id) == StatusPoints(EventsOf(id))

Reading(id, clock) == Clock(EventsOf(id), clock, minute)

Terms(id, clock) == [i \in Points(id) |-> Segment(Points(id), i, StopDate(id, clock), minute)]

LEMMA ReadingIsASum ==
    ASSUME NEW id, NEW clock
    PROVE  Reading(id, clock) = SumFunctionOnSet(Terms(id, clock), Points(id))
  <1>1. DOMAIN Terms(id, clock) = Points(id)
    BY DEF Terms
  <1>2. Reading(id, clock) = SumFunction(Terms(id, clock))
    BY DEF Reading, Clock, ActiveTime, Terms, Points, StopDate
  <1> HIDE DEF Terms
  <1> QED
    BY <1>1, <1>2 DEF SumFunction

LEMMA LogPositions ==
    ASSUME LogOK
    PROVE  /\ Len(events) \in Nat /\ DOMAIN events = 1 .. Len(events)
           /\ \A id : /\ EventsOf(id) \subseteq 1 .. Len(events) /\ IsFiniteSet(EventsOf(id))
                      /\ Points(id) \subseteq 1 .. Len(events) /\ IsFiniteSet(Points(id))
  <1>1. Len(events) \in Nat /\ DOMAIN events = 1 .. Len(events)
    BY DEF LogOK, IsLog
  <1>2. IsFiniteSet(1 .. Len(events))
    BY <1>1, FS_Interval
  <1>3. \A id : EventsOf(id) \subseteq 1 .. Len(events) /\ Points(id) \subseteq EventsOf(id)
    BY <1>1 DEF EventsOf, Points, StatusPoints
  <1>4. \A id : IsFiniteSet(EventsOf(id)) /\ IsFiniteSet(Points(id))
    BY <1>2, <1>3, FS_Subset
  <1> QED
    BY <1>1, <1>3, <1>4

\* A reply is dated like any event.
LEMMA StopIsDated ==
    ASSUME LogOK, Dated, NEW id, NEW clock
    PROVE  StopDate(id, clock) # None => StopDate(id, clock) \in Nat /\ StopDate(id, clock) <= minute
  <1> DEFINE replies == {i \in EventsOf(id) : events[i].action = "replied" /\ events[i].meta = "client"}
  <1>1. replies \subseteq DOMAIN events /\ replies \subseteq Nat
    BY LogPositions
  <1>2. replies # {} => Min(replies) \in replies
    BY <1>1, Earliest
  <1>3. ReplyDate(EventsOf(id)) = IF replies = {} THEN None ELSE events[Min(replies)].at
    BY DEF ReplyDate
  <1> HIDE DEF replies
  <1>4. replies # {} => events[Min(replies)].at \in Nat /\ events[Min(replies)].at <= minute
    BY <1>1, <1>2 DEF Dated
  <1> QED
    BY <1>3, <1>4 DEF StopDate

\* The date a segment ends at, before it is cut where the clock stopped.
EndDate(points, i, stopAt, now) ==
    LET later == {j \in points : j > i}
    IN  IF later # {} THEN events[Min(later)].at ELSE IF stopAt # None THEN stopAt ELSE now

LEMMA EndIsDated ==
    ASSUME LogOK, Dated, NEW id, NEW clock, NEW i \in Points(id)
    PROVE  LET end == EndDate(Points(id), i, StopDate(id, clock), minute)
           IN  /\ end \in Nat /\ end <= minute
               /\ {j \in Points(id) : j > i} # {} => events[i].at <= end
  <1> DEFINE later == {j \in Points(id) : j > i}
  <1>1. /\ later \subseteq DOMAIN events /\ later \subseteq Nat /\ i \in DOMAIN events /\ i \in Nat
        /\ later # {} => Min(later) \in later
    BY LogPositions, Earliest
  <1>2. EndDate(Points(id), i, StopDate(id, clock), minute)
          = IF later # {} THEN events[Min(later)].at
            ELSE IF StopDate(id, clock) # None THEN StopDate(id, clock) ELSE minute
    BY DEF EndDate
  <1>3. later # {} => Min(later) \in DOMAIN events /\ i < Min(later)
    BY <1>1
  <1>4. later # {} => /\ events[Min(later)].at \in Nat /\ events[Min(later)].at <= minute
                      /\ events[i].at <= events[Min(later)].at
    BY <1>1, <1>3 DEF Dated
  <1> HIDE DEF later
  <1>5. minute \in Nat
    BY DEF Dated
  <1>6. /\ EndDate(Points(id), i, StopDate(id, clock), minute) \in Nat
        /\ EndDate(Points(id), i, StopDate(id, clock), minute) <= minute
        /\ later # {} => events[i].at <= EndDate(Points(id), i, StopDate(id, clock), minute)
    BY <1>2, <1>4, <1>5, StopIsDated
  <1> QED
    BY <1>6 DEF later

LEMMA SegmentIs ==
    ASSUME NEW points, NEW i, NEW stopAt, NEW now
    PROVE  Segment(points, i, stopAt, now)
             = IF (stopAt # None /\ events[i].at >= stopAt) \/ ClientPaused(events[i]) THEN 0
               ELSE LET end == EndDate(points, i, stopAt, now)
                    IN  (IF stopAt # None /\ end >= stopAt THEN stopAt ELSE end) - events[i].at
  BY DEF Segment, SegmentEnd, EndDate, Stopped

LEMMA TermsAreNumbers ==
    ASSUME LogOK, Dated, NEW id, NEW clock
    PROVE  \A i \in Points(id) : Terms(id, clock)[i] \in Int
  <1> SUFFICES ASSUME NEW i \in Points(id) PROVE Terms(id, clock)[i] \in Int
    OBVIOUS
  <1> DEFINE stop == StopDate(id, clock)
             end == EndDate(Points(id), i, stop, minute)
  <1>1. end \in Nat
    BY EndIsDated
  <1>2. stop # None => stop \in Nat
    BY StopIsDated
  <1>3. events[i].at \in Nat
    BY LogPositions DEF Dated
  <1>4. Terms(id, clock)[i] = Segment(Points(id), i, stop, minute)
    BY DEF Terms
  <1> HIDE DEF stop, end
  <1>5. Segment(Points(id), i, stop, minute) \in Int
    BY <1>1, <1>2, <1>3, SegmentIs DEF end
  <1> QED
    BY <1>4, <1>5 DEF stop

-----------------------------------------------------------------------------
\* The log a step leaves: one event more, dated now.
AppendsNow(e) ==
    /\ events' = Append(events, e) /\ e.at = minute /\ UNCHANGED minute

LEMMA LongerLog ==
    ASSUME LogOK, NEW e, AppendsNow(e)
    PROVE  LET n == Len(events) + 1
           IN  /\ LogOK' /\ DOMAIN events' = DOMAIN events \cup {n} /\ n \notin DOMAIN events
               /\ events'[n] = e /\ \A i \in DOMAIN events : events'[i] = events[i] /\ i < n
  <1>1. PICK S : events \in Seq(S)
    BY DEF LogOK, IsLog
  <1>2. events \in Seq(S \cup {e})
    BY <1>1
  <1>3. LogOK'
    BY AppendLog DEF LogOK, AppendsNow
  <1>4. /\ Len(events) \in Nat /\ DOMAIN events = 1 .. Len(events)
        /\ DOMAIN events' = 1 .. (Len(events) + 1)
        /\ events'[Len(events) + 1] = e
        /\ \A i \in 1 .. Len(events) : events'[i] = events[i]
    BY <1>2 DEF AppendsNow
  <1> QED
    BY <1>3, <1>4

LEMMA LongerReads ==
    ASSUME LogOK, NEW e, AppendsNow(e), NEW id
    PROVE  LET n == Len(events) + 1
           IN  /\ EventsOf(id)' = EventsOf(id) \cup {i \in {n} : e.ticket = id}
               /\ Points(id)' = Points(id) \cup {i \in {n} : e.ticket = id /\ e.to # None}
  <1>1. EventsOf(id)' = EventsOf(id) \cup {i \in {Len(events) + 1} : e.ticket = id}
    BY LongerLog DEF EventsOf
  <1>2. \A i \in EventsOf(id) : events'[i] = events[i]
    BY LongerLog DEF EventsOf
  <1>3. Points(id)' = {i \in EventsOf(id)' : events'[i].to # None}
    BY DEF Points, StatusPoints
  <1>4. Points(id) = {i \in EventsOf(id) : events[i].to # None}
    BY DEF Points, StatusPoints
  <1>5. events'[Len(events) + 1] = e
    BY LongerLog
  <1> QED
    BY <1>1, <1>2, <1>3, <1>4, <1>5

LEMMA LongerIsDated ==
    ASSUME LogOK, Dated, NEW e, AppendsNow(e), \A i \in DOMAIN recording' : recording'[i].at = minute
    PROVE  Dated'
  <1>1. minute' = minute /\ e.at = minute /\ minute \in Nat
    BY DEF AppendsNow, Dated
  <1>2. \A i \in DOMAIN events' : events'[i].at \in Nat /\ events'[i].at <= minute
    BY <1>1, LongerLog DEF Dated
  <1>3. ASSUME NEW i \in DOMAIN events', NEW j \in DOMAIN events', i < j
        PROVE  events'[i].at <= events'[j].at
    <2>1. i \in DOMAIN events
      BY <1>3, LongerLog, LogPositions
    <2>2. CASE j \in DOMAIN events
      BY <1>3, <2>1, <2>2, LongerLog DEF Dated
    <2>3. CASE j \notin DOMAIN events
      BY <1>1, <2>1, <2>3, LongerLog DEF Dated
    <2> QED
      BY <2>2, <2>3
  <1> QED
    BY <1>1, <1>2, <1>3 DEF Dated

\* The first reply stays the first; the clock stops, if it does, now.
LEMMA LongerStops ==
    ASSUME LogOK, Dated, NEW e, AppendsNow(e), NEW id, NEW clock
    PROVE  \/ StopDate(id, clock)' = StopDate(id, clock)
           \/ StopDate(id, clock) = None /\ StopDate(id, clock)' = minute
  <1> DEFINE n == Len(events) + 1
             replies == {i \in EventsOf(id) : events[i].action = "replied" /\ events[i].meta = "client"}
             later == {i \in EventsOf(id)' : events'[i].action = "replied" /\ events'[i].meta = "client"}
  <1>1. /\ ReplyDate(EventsOf(id)) = IF replies = {} THEN None ELSE events[Min(replies)].at
        /\ ReplyDate(EventsOf(id))' = IF later = {} THEN None ELSE events'[Min(later)].at
    BY DEF ReplyDate
  <1>2. replies \subseteq DOMAIN events /\ replies \subseteq Nat /\ n \in Nat
    BY LogPositions
  <1>3. later = replies \/ later = replies \cup {n}
    <2>1. \A i \in EventsOf(id) : events'[i] = events[i]
      BY LongerLog DEF EventsOf
    <2> QED
      BY <2>1, LongerReads
  <1>4. \A i \in replies : i < n /\ events'[i] = events[i]
    BY <1>2, LongerLog
  <1>5. events'[n].at = minute
    BY LongerLog DEF AppendsNow
  <1> HIDE DEF replies, later, n
  <1>6. replies # {} => Min(replies) \in replies /\ \A d \in replies : Min(replies) <= d
    BY <1>2, Earliest
  <1>7. later # {} => Min(later) \in later /\ \A d \in later : Min(later) <= d
    BY <1>2, <1>3, Earliest
  <1>8. replies # {} => Min(later) = Min(replies)
    BY <1>2, <1>3, <1>4, <1>6, <1>7
  <1>9. replies = {} /\ later # {} => Min(later) = n
    BY <1>3, <1>7
  <1>10. \/ ReplyDate(EventsOf(id))' = ReplyDate(EventsOf(id))
         \/ ReplyDate(EventsOf(id)) = None /\ ReplyDate(EventsOf(id))' = minute
    BY <1>1, <1>3, <1>4, <1>5, <1>6, <1>8, <1>9
  <1> QED
    BY <1>10 DEF StopDate

\* Where a segment ended it still ends, or it ends now.
LEMMA LongerEnds ==
    ASSUME LogOK, Dated, NEW e, AppendsNow(e), NEW id, NEW clock, NEW i \in Points(id)
    PROVE  LET later == {j \in Points(id) : j > i}
               end == EndDate(Points(id), i, StopDate(id, clock), minute)
               endNow == EndDate(Points(id), i, StopDate(id, clock), minute)'
               stop == StopDate(id, clock)'
           IN  \/ later # {} /\ endNow = end
               \/ later = {} /\ endNow = minute
               \/ later = {} /\ stop # None /\ endNow = stop
  <1> DEFINE n == Len(events) + 1
             later == {j \in Points(id) : j > i}
             more == {j \in Points(id)' : j > i}
  <1>1. /\ later \subseteq DOMAIN events /\ later \subseteq Nat /\ n \in Nat
        /\ i \in DOMAIN events
    BY LogPositions
  <1>2. more = later \/ more = later \cup {n}
    BY <1>1, LongerReads, LongerLog
  <1>3. \A j \in later : j < n /\ events'[j] = events[j]
    BY <1>1, LongerLog
  <1>4. events'[n].at = minute /\ minute' = minute
    BY LongerLog DEF AppendsNow
  <1>5. /\ EndDate(Points(id), i, StopDate(id, clock), minute)
             = IF later # {} THEN events[Min(later)].at
               ELSE IF StopDate(id, clock) # None THEN StopDate(id, clock) ELSE minute
        /\ EndDate(Points(id), i, StopDate(id, clock), minute)'
             = IF more # {} THEN events'[Min(more)].at
               ELSE IF StopDate(id, clock)' # None THEN StopDate(id, clock)' ELSE minute'
    BY DEF EndDate
  <1> HIDE DEF later, more, n
  <1>6. later # {} => Min(later) \in later /\ \A d \in later : Min(later) <= d
    BY <1>1, Earliest
  <1>7. more # {} => Min(more) \in more /\ \A d \in more : Min(more) <= d
    BY <1>1, <1>2, Earliest
  <1>8. later # {} => Min(more) = Min(later) /\ more # {}
    BY <1>1, <1>2, <1>3, <1>6, <1>7
  <1>9. later = {} /\ more # {} => Min(more) = n
    BY <1>2, <1>7
  <1>10. \/ /\ later # {}
            /\ EndDate(Points(id), i, StopDate(id, clock), minute)'
                 = EndDate(Points(id), i, StopDate(id, clock), minute)
         \/ later = {} /\ EndDate(Points(id), i, StopDate(id, clock), minute)' = minute
         \/ /\ later = {} /\ StopDate(id, clock)' # None
            /\ EndDate(Points(id), i, StopDate(id, clock), minute)' = StopDate(id, clock)'
    BY <1>3, <1>4, <1>5, <1>6, <1>8, <1>9
  <1> QED
    BY <1>10 DEF later

\* Nothing that was counted counts for more or less than it did.
LEMMA LongerSegments ==
    ASSUME LogOK, Dated, NEW e, AppendsNow(e), NEW id, NEW clock, NEW i \in Points(id)
    PROVE  Segment(Points(id), i, StopDate(id, clock), minute)'
             = Segment(Points(id), i, StopDate(id, clock), minute)
  <1> DEFINE later == {j \in Points(id) : j > i}
             stop == StopDate(id, clock)
             stopNow == StopDate(id, clock)'
             end == EndDate(Points(id), i, StopDate(id, clock), minute)
             endNow == EndDate(Points(id), i, StopDate(id, clock), minute)'
             at == events[i].at
             paused == ClientPaused(events[i])
  <1>1. i \in DOMAIN events /\ events'[i] = events[i] /\ minute' = minute
    BY LogPositions, LongerLog DEF AppendsNow
  <1>2. Segment(Points(id), i, StopDate(id, clock), minute)
          = IF (stop # None /\ at >= stop) \/ paused THEN 0
            ELSE (IF stop # None /\ end >= stop THEN stop ELSE end) - at
    BY SegmentIs
  <1>3. Segment(Points(id), i, StopDate(id, clock), minute)'
          = IF (stopNow # None /\ events'[i].at >= stopNow) \/ ClientPaused(events'[i]) THEN 0
            ELSE (IF stopNow # None /\ endNow >= stopNow THEN stopNow ELSE endNow) - events'[i].at
    BY DEF Segment, SegmentEnd, EndDate, Stopped
  <1>4. /\ at \in Nat /\ minute \in Nat /\ at <= minute
        /\ end \in Nat /\ end <= minute /\ (later # {} => at <= end)
    BY <1>1, EndIsDated DEF Dated
  <1>5. stop # None => stop \in Nat /\ stop <= minute
    BY StopIsDated
  <1>6. stopNow = stop \/ (stop = None /\ stopNow = minute)
    BY LongerStops
  <1>7. \/ later # {} /\ endNow = end
        \/ later = {} /\ endNow = minute
        \/ later = {} /\ stopNow # None /\ endNow = stopNow
    BY LongerEnds
  <1>8. later = {} => end = IF stop # None THEN stop ELSE minute
    BY DEF EndDate
  <1>9. minute # None
    BY <1>4, SupportAssumption
  <1> HIDE DEF later, stop, stopNow, end, endNow, at, paused
  <1>10. Segment(Points(id), i, StopDate(id, clock), minute)'
          = IF (stopNow # None /\ at >= stopNow) \/ paused THEN 0
            ELSE (IF stopNow # None /\ endNow >= stopNow THEN stopNow ELSE endNow) - at
    BY <1>1, <1>3 DEF at, paused
  <1>11. CASE stopNow = stop
    <2>1. CASE stop = None
      BY <1>2, <1>4, <1>7, <1>8, <1>10, <1>11, <2>1
    <2>2. CASE stop # None
      BY <1>2, <1>4, <1>5, <1>7, <1>8, <1>10, <1>11, <2>2
    <2> QED
      BY <2>1, <2>2
  <1>12. CASE stop = None /\ stopNow = minute
    BY <1>2, <1>4, <1>7, <1>8, <1>9, <1>10, <1>12
  <1> QED
    BY <1>6, <1>11, <1>12

\* The point a step adds counts for nothing yet.
LEMMA NewSegment ==
    ASSUME LogOK, Dated, NEW e, AppendsNow(e), NEW id, NEW clock, NEW n, n = Len(events) + 1
    PROVE  Segment(Points(id), n, StopDate(id, clock), minute)' = 0
  <1> DEFINE stopNow == StopDate(id, clock)'
  <1>1. events'[n].at = minute /\ minute' = minute /\ minute \in Nat
    BY LongerLog DEF AppendsNow, Dated
  <1>2. {j \in Points(id)' : j > n} = {}
    BY LongerReads, LogPositions
  <1>3. stopNow # None => stopNow \in Nat /\ stopNow <= minute
    BY LongerStops, StopIsDated, <1>1
  <1>4. Segment(Points(id), n, StopDate(id, clock), minute)'
          = IF (stopNow # None /\ events'[n].at >= stopNow) \/ ClientPaused(events'[n]) THEN 0
            ELSE (IF stopNow # None /\ (IF stopNow # None THEN stopNow ELSE minute') >= stopNow THEN stopNow
                  ELSE IF stopNow # None THEN stopNow ELSE minute') - events'[n].at
    BY <1>2 DEF Segment, SegmentEnd, Stopped
  <1> HIDE DEF stopNow
  <1> QED
    BY <1>1, <1>3, <1>4

\* An event is no time: the clocks read what they read.
LEMMA LongerReading ==
    ASSUME LogOK, Dated, NEW e, AppendsNow(e), NEW id, NEW clock
    PROVE  Reading(id, clock)' = Reading(id, clock)
  <1> DEFINE f == Terms(id, clock)
             g == Terms(id, clock)'
  <1>0. PICK n : n = Len(events) + 1
    OBVIOUS
  <1>1. /\ Reading(id, clock) = SumFunctionOnSet(f, Points(id))
        /\ Reading(id, clock)' = SumFunctionOnSet(g, Points(id)')
    <2>1. DOMAIN g = Points(id)'
      BY DEF Terms
    <2>2. Reading(id, clock)' = SumFunction(g)
      BY DEF Reading, Clock, ActiveTime, Terms, Points, StopDate
    <2> HIDE DEF g
    <2> QED
      BY <2>1, <2>2, ReadingIsASum DEF SumFunction
  <1>2. IsFiniteSet(Points(id)) /\ n \notin Points(id)
    BY <1>0, LogPositions
  <1>3. \A i \in Points(id) : f[i] \in Int
    BY TermsAreNumbers
  <1>4. \A i \in Points(id) : i \in Points(id)'
    BY LongerReads
  <1>5. \A i \in Points(id) : f[i] = Segment(Points(id), i, StopDate(id, clock), minute)
    BY DEF Terms
  <1>6. \A i \in Points(id)' : g[i] = Segment(Points(id), i, StopDate(id, clock), minute)'
    BY DEF Terms
  <1>7. \A i \in Points(id) : g[i] = f[i]
    BY <1>4, <1>5, <1>6, LongerSegments
  <1>8. n \in Points(id)' => g[n] = 0
    BY <1>0, <1>6, NewSegment
  <1>9. Points(id)' = Points(id) \/ (n \in Points(id)' /\ Points(id)' = Points(id) \cup {n})
    BY <1>0, LongerReads
  <1> HIDE DEF f, g
  <1>10. CASE Points(id)' = Points(id)
    BY <1>1, <1>2, <1>3, <1>7, <1>10, SumsSame
  <1>11. CASE n \in Points(id)' /\ Points(id)' = Points(id) \cup {n}
    BY <1>1, <1>2, <1>3, <1>7, <1>8, <1>11, SumGrows
  <1> QED
    BY <1>9, <1>10, <1>11

-----------------------------------------------------------------------------
\* What a clock reads depends on the log and the time.
LEMMA SameReading ==
    ASSUME UNCHANGED <<events, minute>>
    PROVE  \A id, clock : Reading(id, clock)' = Reading(id, clock)
  BY DEF Reading, Clock, ActiveTime, StatusPoints, EventsOf, ReplyDate, Segment, SegmentEnd, Stopped, ClientPaused

Word(e, id) == e.ticket = id /\ e.to # None

\* The last status the log gives a ticket.
LastWord(log, id, i) ==
    /\ i \in DOMAIN log /\ Word(log[i], id)
    /\ \A j \in DOMAIN log : j > i => ~Word(log[j], id)

\* A minute is charged to a clock whose ticket's last status runs, unless it
\* has stopped.
LEMMA MinuteReading ==
    ASSUME LogOK, Dated, UNCHANGED events, minute' = minute + 1, NEW id, NEW clock,
           NEW last, LastWord(events, id, last)
    PROVE  Reading(id, clock)' = Reading(id, clock)
             + (IF StopDate(id, clock) = None /\ ~ClientPaused(events[last]) THEN 1 ELSE 0)
  <1> DEFINE f == Terms(id, clock)
             g == Terms(id, clock)'
             stop == StopDate(id, clock)
             runs == stop = None /\ ~ClientPaused(events[last])
  <1>1. Points(id)' = Points(id) /\ StopDate(id, clock)' = stop
    BY DEF Points, StatusPoints, EventsOf, StopDate, ReplyDate
  <1>2. /\ Reading(id, clock) = SumFunctionOnSet(f, Points(id))
        /\ Reading(id, clock)' = SumFunctionOnSet(g, Points(id))
    <2>1. DOMAIN g = Points(id)
      BY <1>1 DEF Terms
    <2>2. Reading(id, clock)' = SumFunction(g)
      BY DEF Reading, Clock, ActiveTime, Terms, Points, StopDate
    <2> HIDE DEF g
    <2> QED
      BY <2>1, <2>2, ReadingIsASum DEF SumFunction
  <1>3. IsFiniteSet(Points(id)) /\ Points(id) \subseteq Nat /\ minute \in Nat
    BY LogPositions DEF Dated
  <1>4. \A i \in Points(id) : f[i] \in Int
    BY TermsAreNumbers
  <1>5. last \in Points(id) /\ \A j \in Points(id) : ~(j > last)
    BY DEF LastWord, Word, Points, StatusPoints, EventsOf
  <1>6. ASSUME NEW i \in Points(id)
        PROVE  g[i] = IF i = last /\ runs THEN f[i] + 1 ELSE f[i]
    <2> DEFINE later == {j \in Points(id) : j > i}
               end == EndDate(Points(id), i, stop, minute)
               endNow == EndDate(Points(id), i, stop, minute + 1)
    <2>1. f[i] = Segment(Points(id), i, stop, minute)
      BY DEF Terms
    <2>2. g[i] = Segment(Points(id), i, stop, minute + 1)
      BY <1>1 DEF Terms, Segment, SegmentEnd, Stopped, ClientPaused
    <2>3. f[i] = IF (stop # None /\ events[i].at >= stop) \/ ClientPaused(events[i]) THEN 0
                 ELSE (IF stop # None /\ end >= stop THEN stop ELSE end) - events[i].at
      BY <2>1, SegmentIs
    <2>4. g[i] = IF (stop # None /\ events[i].at >= stop) \/ ClientPaused(events[i]) THEN 0
                 ELSE (IF stop # None /\ endNow >= stop THEN stop ELSE endNow) - events[i].at
      BY <2>2, SegmentIs
    <2>5. later = {} => /\ end = IF stop # None THEN stop ELSE minute
                        /\ endNow = IF stop # None THEN stop ELSE minute + 1
      BY DEF EndDate
    <2>6. later # {} => endNow = end
      BY DEF EndDate
    <2>7. i = last <=> later = {}
      BY <1>3, <1>5
    <2>8. events[i].at \in Nat
      BY LogPositions DEF Dated
    <2> HIDE DEF f, g, stop, later, end, endNow
    <2>9. CASE later # {}
      BY <2>3, <2>4, <2>6, <2>7, <2>9
    <2>10. CASE later = {} /\ stop # None
      BY <2>3, <2>4, <2>5, <2>10
    <2>11. CASE later = {} /\ stop = None
      <3>1. i = last /\ end = minute /\ endNow = minute + 1
        BY <2>5, <2>7, <2>11
      <3>2. CASE ClientPaused(events[i])
        BY <2>3, <2>4, <3>1, <3>2
      <3>3. CASE ~ClientPaused(events[i])
        BY <1>3, <2>3, <2>4, <2>8, <2>11, <3>1, <3>3
      <3> QED
        BY <3>2, <3>3
    <2> QED
      BY <2>9, <2>10, <2>11
  <1>7. SumFunctionOnSet(f, Points(id)) \in Int
    <2> HIDE DEF f
    <2> QED
      BY <1>3, <1>4, SumSplits
  <1> HIDE DEF f, g, runs
  <1>8. CASE runs
    <2>1. g[last] = f[last] + 1 /\ \A i \in Points(id) : f[i] \in Int /\ (i # last => g[i] = f[i])
      BY <1>4, <1>5, <1>6, <1>8
    <2>2. SumFunctionOnSet(g, Points(id)) = SumFunctionOnSet(f, Points(id)) + 1
      BY <1>3, <1>5, <2>1, SumGains
    <2> QED
      BY <1>2, <1>8, <2>2 DEF runs
  <1>9. CASE ~runs
    <2>1. \A i \in Points(id) : f[i] \in Int /\ g[i] = f[i]
      BY <1>4, <1>6, <1>9
    <2>2. SumFunctionOnSet(g, Points(id)) = SumFunctionOnSet(f, Points(id))
      BY <1>3, <2>1, SumsSame
    <2> QED
      BY <1>2, <1>7, <1>9, <2>2 DEF runs
  <1> QED
    BY <1>8, <1>9

\* Of a ticket no event speaks of, no minute is counted.
LEMMA SilentReading ==
    ASSUME LogOK, NEW id, NEW clock, Points(id) = {}
    PROVE  Reading(id, clock) = 0
  BY ReadingIsASum, SumSplits, FS_EmptySet

-----------------------------------------------------------------------------
Silent(log, id) == \A j \in DOMAIN log : ~Word(log[j], id)

LEMMA LongerWords ==
    ASSUME NEW log, IsLog(log), NEW e
    PROVE  LET n == Len(log)
           IN  /\ n \in Nat /\ DOMAIN log = 1 .. n /\ DOMAIN Append(log, e) = 1 .. (n + 1)
               /\ Append(log, e)[n + 1] = e /\ \A i \in 1 .. n : Append(log, e)[i] = log[i]
  <1>1. PICK S : log \in Seq(S)
    BY DEF IsLog
  <1>2. log \in Seq(S \cup {e})
    BY <1>1
  <1> QED
    BY <1>2

LEMMA SilentLonger ==
    ASSUME NEW log, IsLog(log), NEW e, NEW id, Silent(Append(log, e), id)
    PROVE  Silent(log, id) /\ ~Word(e, id)
  BY LongerWords DEF Silent

LEMMA LastIsNew ==
    ASSUME NEW log, IsLog(log), NEW e, NEW id, Word(e, id)
    PROVE  \E i : LastWord(Append(log, e), id, i) /\ Append(log, e)[i] = e
  <1>1. LastWord(Append(log, e), id, Len(log) + 1)
    BY LongerWords DEF LastWord
  <1> QED
    BY <1>1, LongerWords

LEMMA LastStays ==
    ASSUME NEW log, IsLog(log), NEW e, NEW id, NEW i, LastWord(log, id, i), ~Word(e, id)
    PROVE  LastWord(Append(log, e), id, i) /\ Append(log, e)[i] = log[i]
  BY LongerWords DEF LastWord

LEMMA LastOfLonger ==
    ASSUME NEW log, IsLog(log), NEW e, NEW id, NEW i, LastWord(Append(log, e), id, i), Append(log, e)[i] # e
    PROVE  LastWord(log, id, i) /\ ~Word(e, id) /\ Append(log, e)[i] = log[i]
  <1> DEFINE new == Append(log, e)
             n == Len(log)
  <1>1. /\ n \in Nat /\ DOMAIN log = 1 .. n /\ DOMAIN new = 1 .. (n + 1)
        /\ new[n + 1] = e /\ \A j \in 1 .. n : new[j] = log[j]
    BY LongerWords
  <1>2. LastWord(new, id, i) /\ new[i] # e
    OBVIOUS
  <1> HIDE DEF new, n
  <1>3. i \in 1 .. n /\ new[i] = log[i] /\ n + 1 > i /\ n + 1 \in DOMAIN new
    BY <1>1, <1>2 DEF LastWord
  <1>4. LastWord(log, id, i) /\ ~Word(e, id)
    BY <1>1, <1>2, <1>3 DEF LastWord
  <1> QED
    BY <1>3, <1>4 DEF new

LEMMA RestOfLog ==
    ASSUME NEW log, IsLog(log), log # <<>>
    PROVE  LET n == Len(log)
           IN  /\ n \in Nat /\ n > 0 /\ DOMAIN log = 1 .. n /\ DOMAIN Tail(log) = 1 .. (n - 1)
               /\ \A i \in 1 .. (n - 1) : Tail(log)[i] = log[i + 1]
               /\ Head(log) = log[1]
  <1>1. PICK S : log \in Seq(S)
    BY DEF IsLog
  <1> QED
    BY <1>1

LEMMA LastOfTail ==
    ASSUME NEW log, IsLog(log), log # <<>>, NEW rest, rest = Tail(log), NEW id, NEW i, LastWord(rest, id, i)
    PROVE  LastWord(log, id, i + 1) /\ rest[i] = log[i + 1]
  <1> DEFINE n == Len(log)
  <1>1. /\ n \in Nat /\ n > 0 /\ DOMAIN log = 1 .. n /\ DOMAIN rest = 1 .. (n - 1)
        /\ \A k \in 1 .. (n - 1) : rest[k] = log[k + 1]
    BY RestOfLog
  <1> HIDE DEF n
  <1>3. i \in 1 .. (n - 1) /\ i + 1 \in 1 .. n /\ rest[i] = log[i + 1] /\ Word(rest[i], id)
    BY <1>1 DEF LastWord
  <1>4. ASSUME NEW j \in 1 .. n, j > i + 1
        PROVE  ~Word(log[j], id)
    <2>1. j - 1 \in 1 .. (n - 1) /\ j - 1 > i /\ rest[j - 1] = log[j]
      BY <1>1, <1>3, <1>4
    <2> QED
      BY <1>1, <2>1 DEF LastWord
  <1>5. LastWord(log, id, i + 1)
    BY <1>1, <1>3, <1>4 DEF LastWord
  <1> QED
    BY <1>3, <1>5

LEMMA SilentTail ==
    ASSUME NEW log, IsLog(log), log # <<>>, NEW id, Silent(Tail(log), id)
    PROVE  /\ Word(Head(log), id) => \E j : LastWord(log, id, j) /\ log[j] = Head(log)
           /\ ~Word(Head(log), id) => Silent(log, id)
  <1> DEFINE rest == Tail(log)
             n == Len(log)
             first == Head(log)
  <1>1. /\ n \in Nat /\ n > 0 /\ DOMAIN log = 1 .. n /\ DOMAIN rest = 1 .. (n - 1)
        /\ \A k \in 1 .. (n - 1) : rest[k] = log[k + 1]
        /\ first = log[1]
    BY RestOfLog
  <1>2. Silent(rest, id)
    OBVIOUS
  <1> HIDE DEF rest, n, first
  <1>3. ASSUME NEW j \in 1 .. n, j # 1
        PROVE  ~Word(log[j], id)
    <2>1. j - 1 \in 1 .. (n - 1) /\ rest[j - 1] = log[j]
      BY <1>1, <1>3
    <2> QED
      BY <1>1, <1>2, <2>1 DEF Silent
  <1>4. /\ Word(first, id) => LastWord(log, id, 1) /\ log[1] = first
        /\ ~Word(first, id) => Silent(log, id)
    BY <1>1, <1>3 DEF LastWord, Silent
  <1> QED
    BY <1>4 DEF first

-----------------------------------------------------------------------------
PausedRow(row) == row.status = "pending" /\ row.reason \in {"client", None}

\* The event says of the wait what the row says.
Told(e, row) == ClientPaused(e) <=> PausedRow(row)

Speaks(h, id) == req[h].at = "record" /\ Word(req[h].event, id)

\* The last word on a ticket, to be recorded, on its way or in the log, is its
\* row's.
WordStands(id) ==
    /\ \A h \in Handlers : Speaks(h, id) => Told(req[h].event, tickets[id])
    /\ (\A h \in Handlers : ~Speaks(h, id)) =>
          /\ \A i : LastWord(recording, id, i) => Told(recording[i], tickets[id])
          /\ Silent(recording, id) => \E i : LastWord(events, id, i) /\ Told(events[i], tickets[id])

\* What a request is about to save says what its event will, or no more of
\* the wait than the row it read.
HandTells(r, table) ==
    r.at = "save" =>
        /\ r.event.to = None => /\ r.id # None
                                /\ r.row.status = table[r.id].status /\ r.row.reason = table[r.id].reason
        /\ r.event.to # None => Told(r.event, r.row)

HandsTell ==
    \A h \in Handlers : req[h] # Idle => h \in mode.handlers /\ HandTells(req[h], tickets)

\* Nothing has failed, and no application has asked for anything.
Undisturbed ==
    faults = 0 /\ stream = {} /\ \A s \in Sources : worker[s] = Resting

Readings ==
    \A id \in Tickets, clock \in Clocks : Reading(id, clock) = waited[<<id, clock>>]

WaitInv ==
    Exact => /\ Undisturbed /\ HandsTell /\ Dated /\ Readings
             /\ \A id \in DOMAIN tickets : WordStands(id)

LEMMA NothingFails ==
    ASSUME DeskInv, WaitInv, Exact
    PROVE  ~Fails
  <1>1. mode.faults = 0 /\ faults = 0
    BY DEF WaitInv, Exact, Undisturbed
  <1> QED
    BY <1>1 DEF Fails

\* A lone request is the only one.
LEMMA LoneHand ==
    ASSUME DeskInv, WaitInv, Exact, NEW h \in Handlers, NEW g \in Handlers, req[h] # Idle, req[g] # Idle
    PROVE  g = h
  BY OnlyOne DEF DeskInv, BooksOK, WaitInv, HandsTell, Exact, Orderly, Lone

\* Steps that touch neither the tickets nor their log.
LEMMA AsideWaits ==
    ASSUME WaitInv, UNCHANGED <<mode, minute, tickets, events, recording, req, waited>>,
           Exact => Undisturbed'
    PROVE  WaitInv'
  <1>1. \A id, clock : Reading(id, clock)' = Reading(id, clock)
    BY SameReading
  <1> SUFFICES ASSUME Exact PROVE Undisturbed' /\ HandsTell' /\ Dated' /\ Readings'
                                  /\ \A id \in DOMAIN tickets' : WordStands(id)'
    BY DEF WaitInv, Exact, Orderly
  <1>2. HandsTell' /\ Dated'
    BY DEF WaitInv, HandsTell, HandTells, Dated, Told, PausedRow, ClientPaused
  <1>3. Readings'
    BY <1>1 DEF WaitInv, Readings
  <1>4. \A id \in DOMAIN tickets' : WordStands(id)'
    BY DEF WaitInv, WordStands, Speaks, Told, PausedRow, ClientPaused
  <1> QED
    BY <1>2, <1>3, <1>4

LEMMA BeginsWaits ==
    ASSUME DeskInv, WaitInv, NEW h \in Handlers, NEW id, NEW row, NEW action, NEW to, NEW meta,
           Begins(h, id, row, action, to, meta), UNCHANGED outside,
           to = None => id # None /\ row.status = tickets[id].status /\ row.reason = tickets[id].reason,
           to # None => (to = "pending" /\ meta \in {"client", None} <=> PausedRow(row))
    PROVE  WaitInv'
  <1> SUFFICES ASSUME Exact PROVE Undisturbed' /\ HandsTell' /\ Dated' /\ Readings'
                                  /\ \A i \in DOMAIN tickets' : WordStands(i)'
    BY DEF WaitInv, Exact, Orderly, outside
  <1> DEFINE e == Event(id, action, to, meta)
             r == [at |-> "save", id |-> id, row |-> row, event |-> e]
  <1>1. /\ req[h] = Idle /\ h \in mode.handlers /\ req' = [req EXCEPT ![h] = r]
        /\ UNCHANGED <<tickets, events, recording>>
        /\ UNCHANGED <<mode, minute, faults, stream, worker, waited>>
    BY DEF Begins, outside
  <1>2. \A g \in Handlers : req'[g] = IF g = h THEN r ELSE req[g]
    BY <1>1 DEF DeskInv, HandsOK
  <1>3. e.to = to /\ e.meta = meta
    BY DEF Event
  <1>4. HandTells(r, tickets)
    BY <1>3 DEF HandTells, Told, ClientPaused
  <1> HIDE DEF e
  <1>5. r.at = "save"
    OBVIOUS
  <1> HIDE DEF r
  <1>6. HandsTell'
    BY <1>1, <1>2, <1>4 DEF WaitInv, HandsTell, HandTells, Told, PausedRow, ClientPaused
  <1>7. \A i \in DOMAIN tickets, g \in Handlers :
           /\ Speaks(g, i)' <=> Speaks(g, i)
           /\ Speaks(g, i) => req'[g] = req[g]
    BY <1>1, <1>2, <1>5 DEF Speaks, Idle
  <1>8. \A i \in DOMAIN tickets : WordStands(i)'
    BY <1>1, <1>7 DEF WaitInv, WordStands, Told, PausedRow, ClientPaused
  <1>9. Readings'
    BY <1>1, SameReading DEF WaitInv, Readings
  <1> QED
    BY <1>1, <1>6, <1>8, <1>9 DEF WaitInv, Undisturbed, Dated

LEMMA RequestWaits ==
    ASSUME DeskInv, WaitInv, NEW h \in Handlers, Request(h), UNCHANGED outside
    PROVE  WaitInv'
  <1>0. /\ mode \in Modes /\ \A id \in DOMAIN tickets : FullRow(tickets[id]) /\ id # None
        /\ None \notin Statuses
    BY SupportAssumption DEF DeskInv, BooksOK, RowsOK
  <1>1. ASSUME NEW priority \in mode.fresh, NEW status \in mode.created, NEW assignee \in mode.assignees,
               Create(h, priority, status, assignee)
        PROVE  WaitInv'
    <2> DEFINE row == NewTicket(priority, status, assignee, None)
    <2>1. row.status = status /\ row.reason = None /\ status # None
      BY <1>0, ModesKnown DEF NewTicket
    <2>2. Begins(h, None, row, "created", status, None)
      BY <1>1 DEF Create
    <2> HIDE DEF row
    <2>3. status = "pending" /\ None \in {"client", None} <=> PausedRow(row)
      BY <2>1 DEF PausedRow
    <2> QED
      BY <2>1, <2>2, <2>3, BeginsWaits
  <1>2. ASSUME NEW id, NEW visibility, AddReply(h, id, visibility)
        PROVE  WaitInv'
    <2> DEFINE row == [tickets[id] EXCEPT !.replies = @ + 1]
    <2>1. id \in DOMAIN tickets /\ Begins(h, id, row, "replied", None, visibility)
      BY <1>2 DEF AddReply
    <2>2. row.status = tickets[id].status /\ row.reason = tickets[id].reason /\ id # None
      BY <1>0, <2>1 DEF FullRow, TicketRows
    <2> HIDE DEF row
    <2> QED
      BY <2>1, <2>2, BeginsWaits
  <1>3. ASSUME NEW id, NEW status \in mode.statuses, NEW reason \in mode.reasons, NEW code \in mode.codes,
               NEW notes \in mode.notes, SetStatus(h, id, status, reason, code, notes)
        PROVE  WaitInv'
    <2> DEFINE row == [tickets[id] EXCEPT !.status = status,
                                          !.reason = IF status = "pending" THEN reason ELSE None,
                                          !.code = NextCode(tickets[id], status, code),
                                          !.notes = NextNotes(tickets[id], status, notes)]
    <2>1. id \in DOMAIN tickets /\ Begins(h, id, row, "status_changed", status, row.reason)
      BY <1>3 DEF SetStatus
    <2>2. row.status = status /\ status # None
      BY <1>0, <2>1, ModesKnown DEF FullRow, TicketRows
    <2>3. PICK meta : Begins(h, id, row, "status_changed", status, meta) /\ meta = row.reason
      BY <2>1
    <2> HIDE DEF row
    <2>4. status = "pending" /\ meta \in {"client", None} <=> PausedRow(row)
      BY <2>2, <2>3 DEF PausedRow
    <2> QED
      BY <2>2, <2>3, <2>4, BeginsWaits
  <1>4. ASSUME NEW id, NEW assignee \in mode.assignees, Assign(h, id, assignee)
        PROVE  WaitInv'
    <2> DEFINE row == [tickets[id] EXCEPT !.assignee = assignee]
    <2>1. id \in DOMAIN tickets /\ Begins(h, id, row, "assigned", None, None)
      BY <1>4 DEF Assign
    <2>2. row.status = tickets[id].status /\ row.reason = tickets[id].reason /\ id # None
      BY <1>0, <2>1 DEF FullRow, TicketRows
    <2> HIDE DEF row
    <2> QED
      BY <2>1, <2>2, BeginsWaits
  <1>5. ASSUME NEW id, NEW priority \in mode.priorities, Update(h, id, priority)
        PROVE  WaitInv'
    <2> DEFINE row == [tickets[id] EXCEPT !.priority = priority]
    <2>1. id \in DOMAIN tickets /\ Begins(h, id, row, "updated", None, None)
      BY <1>5 DEF Update
    <2>2. row.status = tickets[id].status /\ row.reason = tickets[id].reason /\ id # None
      BY <1>0, <2>1 DEF FullRow, TicketRows
    <2> HIDE DEF row
    <2> QED
      BY <2>1, <2>2, BeginsWaits
  <1> QED
    BY <1>1, <1>2, <1>3, <1>4, <1>5 DEF Request

\* The row that is saved and the event that will say so agree.
LEMMA SaveWaits ==
    ASSUME DeskInv, WaitInv, NEW h \in Handlers, Save(h), UNCHANGED outside
    PROVE  WaitInv'
  <1> SUFFICES ASSUME Exact PROVE Undisturbed' /\ HandsTell' /\ Dated' /\ Readings'
                                  /\ \A i \in DOMAIN tickets' : WordStands(i)'
    BY DEF WaitInv, Exact, Orderly, outside
  <1> DEFINE id == SavedId(req[h].id)
             row == req[h].row
             e == [req[h].event EXCEPT !.ticket = id]
             r == [at |-> "record", event |-> e]
  <1>1. /\ req[h].at = "save" /\ SaveRow(id, row) /\ req' = [req EXCEPT ![h] = r]
        /\ UNCHANGED <<events, recording>>
        /\ UNCHANGED <<mode, minute, faults, stream, worker, waited>>
    BY DEF Save, outside
  <1>2. HandOK(h, req[h], mode, tickets) /\ HandTells(req[h], tickets) /\ h \in mode.handlers /\ req[h] # Idle
    BY <1>1 DEF DeskInv, HandsOK, WaitInv, HandsTell, Idle
  <1>3. Saves(id, row)
    BY <1>1, <1>2 DEF Saves, SavedId, SaveRow, HandOK
  <1>4. e.ticket = id /\ e.to = req[h].event.to /\ e.meta = req[h].event.meta
    BY <1>1, <1>2 DEF HandOK, IsEvent
  <1>5. /\ DOMAIN tickets' = DOMAIN tickets \cup {id} /\ tickets'[id] = row
        /\ \A i \in DOMAIN tickets : i # id => tickets'[i] = tickets[i]
    BY <1>3, SavesKeep
  <1>6. \A g \in Handlers : req'[g] = IF g = h THEN r ELSE Idle
    BY <1>1, <1>2, LoneHand DEF DeskInv, HandsOK
  <1>7. \A g \in Handlers : \A i : ~Speaks(g, i)
    BY <1>1, <1>2, LoneHand DEF Speaks, Idle
  <1>8. e.to = None => id \in DOMAIN tickets /\ row.status = tickets[id].status /\ row.reason = tickets[id].reason
    BY <1>1, <1>2, <1>4 DEF HandTells, HandOK, SavedId
  <1>9. e.to # None => Told(e, row)
    BY <1>1, <1>2, <1>4 DEF HandTells, Told, ClientPaused
  <1> HIDE DEF e, id, row
  <1>10. r.at = "record" /\ r.event = e
    OBVIOUS
  <1> HIDE DEF r
  <1>11. HandsTell'
    BY <1>1, <1>2, <1>6, <1>10 DEF HandsTell, HandTells
  <1>12. \A i : Speaks(h, i)' <=> i = id /\ e.to # None
    BY <1>4, <1>6, <1>10 DEF Speaks, Word
  <1>13. \A g \in Handlers : \A i : g # h => ~Speaks(g, i)'
    BY <1>6 DEF Speaks, Idle
  <1>14. req'[h].event = e
    BY <1>6, <1>10
  <1>15. ASSUME NEW i \in DOMAIN tickets'
         PROVE  WordStands(i)'
    <2>1. CASE i = id /\ e.to # None
      BY <1>5, <1>9, <1>12, <1>13, <1>14, <2>1 DEF WordStands, Told, PausedRow, ClientPaused
    <2>2. CASE ~(i = id /\ e.to # None)
      <3>1. i \in DOMAIN tickets /\ (PausedRow(tickets'[i]) <=> PausedRow(tickets[i]))
        BY <1>5, <1>8, <2>2 DEF PausedRow
      <3>2. \A g \in Handlers : ~Speaks(g, i)'
        BY <1>12, <1>13, <2>2
      <3>3. WordStands(i)
        BY <3>1 DEF WaitInv
      <3>4. \A word : Told(word, tickets'[i]) <=> Told(word, tickets[i])
        BY <3>1 DEF Told
      <3>5. /\ \A j : LastWord(recording', i, j) => Told(recording'[j], tickets'[i])
            /\ Silent(recording', i) => \E j : LastWord(events', i, j) /\ Told(events'[j], tickets'[i])
        BY <1>1, <1>7, <3>3, <3>4 DEF WordStands
      <3> QED
        BY <3>2, <3>5 DEF WordStands, Told, PausedRow, ClientPaused
    <2> QED
      BY <2>1, <2>2
  <1>16. Readings'
    BY <1>1, SameReading DEF WaitInv, Readings
  <1> QED
    BY <1>1, <1>11, <1>15, <1>16 DEF WaitInv, Undisturbed, Dated

\* The word in hand is the last on its way.
LEMMA RecordWaits ==
    ASSUME DeskInv, WaitInv, NEW h \in Handlers, Record(h), UNCHANGED outside
    PROVE  WaitInv'
  <1> SUFFICES ASSUME Exact PROVE Undisturbed' /\ HandsTell' /\ Dated' /\ Readings'
                                  /\ \A i \in DOMAIN tickets' : WordStands(i)'
    BY DEF WaitInv, Exact, Orderly, outside
  <1> DEFINE e == [req[h].event EXCEPT !.at = minute]
  <1>1. /\ UNCHANGED <<tickets, events>> /\ req[h].at = "record"
        /\ recording' = Append(recording, e) /\ req' = [req EXCEPT ![h] = Idle]
        /\ UNCHANGED <<mode, minute, faults, stream, worker, waited>>
    BY DEF Record, Call, outside
  <1>2. HandOK(h, req[h], mode, tickets) /\ req[h] # Idle
    BY <1>1 DEF DeskInv, HandsOK, Idle
  <1>3. e.ticket = req[h].event.ticket /\ e.to = req[h].event.to /\ e.meta = req[h].event.meta /\ e.at = minute
    BY <1>1, <1>2 DEF HandOK, IsEvent
  <1>4. \A g \in Handlers : req'[g] = Idle /\ (g # h => req[g] = Idle)
    BY <1>1, <1>2, LoneHand DEF DeskInv, HandsOK
  <1>5. \A g \in Handlers : \A i : ~Speaks(g, i)' /\ (g # h => ~Speaks(g, i))
    BY <1>4 DEF Speaks, Idle
  <1> HIDE DEF e
  <1>6. \A i : Speaks(h, i) <=> Word(e, i)
    BY <1>1, <1>3 DEF Speaks, Word
  <1>7. \A row : Told(e, row) <=> Told(req[h].event, row)
    BY <1>3 DEF Told, ClientPaused
  <1>8. IsLog(recording)
    BY DEF DeskInv, LogsOK, LogKnown
  <1>9. ASSUME NEW i \in DOMAIN tickets
        PROVE  WordStands(i)'
    <2>1. WordStands(i)
      BY DEF WaitInv
    <2>2. ASSUME NEW j, LastWord(recording', i, j)
          PROVE  Told(recording'[j], tickets[i])
      <3>1. CASE recording'[j] = e
        <4>1. Word(e, i)
          BY <2>2, <3>1 DEF LastWord
        <4> QED
          BY <1>6, <1>7, <2>1, <3>1, <4>1 DEF WordStands
      <3>2. CASE recording'[j] # e
        <4> DEFINE longer == Append(recording, e)
        <4>0. LastWord(longer, i, j) /\ longer[j] # e
          BY <1>1, <2>2, <3>2
        <4>2. LastWord(recording, i, j) /\ ~Word(e, i) /\ longer[j] = recording[j]
          BY <1>8, <4>0, LastOfLonger
        <4>1. LastWord(recording, i, j) /\ ~Word(e, i) /\ recording'[j] = recording[j]
          BY <1>1, <4>2
        <4> QED
          BY <1>5, <1>6, <2>1, <4>1 DEF WordStands
      <3> QED
        BY <3>1, <3>2
    <2>3. ASSUME Silent(recording', i)
          PROVE  \E j : LastWord(events, i, j) /\ Told(events[j], tickets[i])
      <3>1. Silent(recording, i) /\ ~Word(e, i)
        BY <1>1, <1>8, <2>3, SilentLonger
      <3> QED
        BY <1>5, <1>6, <2>1, <3>1 DEF WordStands
    <2> QED
      BY <1>1, <1>5, <2>2, <2>3 DEF WordStands, Told, PausedRow, ClientPaused
  <1>10. Dated'
    <2>1. IsLog(recording') /\ \A j \in DOMAIN recording' : recording'[j] = e \/ \E k \in DOMAIN recording : recording'[j] = recording[k]
      <3>1. PICK S : recording \in Seq(S)
        BY <1>8 DEF IsLog
      <3>2. recording \in Seq(S \cup {e})
        BY <3>1
      <3>3. /\ DOMAIN recording' = 1 .. (Len(recording) + 1) /\ recording'[Len(recording) + 1] = e
            /\ \A j \in 1 .. Len(recording) : recording'[j] = recording[j]
            /\ Len(recording) \in Nat /\ DOMAIN recording = 1 .. Len(recording)
            /\ recording' \in Seq(S \cup {e})
        BY <1>1, <3>2
      <3> QED
        BY <3>3 DEF IsLog
    <2> QED
      BY <1>1, <1>3, <2>1 DEF WaitInv, Dated
  <1>11. Readings'
    BY <1>1, SameReading DEF WaitInv, Readings
  <1>12. HandsTell'
    BY <1>4 DEF HandsTell
  <1> QED
    BY <1>1, <1>9, <1>10, <1>11, <1>12 DEF WaitInv, Undisturbed

\* The first event on its way reaches the log.
LEMMA InsertedWaits ==
    ASSUME DeskInv, WaitInv, IInv, RecordInserted, UNCHANGED outside
    PROVE  WaitInv'
  <1> SUFFICES ASSUME Exact PROVE Undisturbed' /\ HandsTell' /\ Dated' /\ Readings'
                                  /\ \A i \in DOMAIN tickets' : WordStands(i)'
    BY DEF WaitInv, Exact, Orderly, outside
  <1> DEFINE e == Head(recording)
  <1>1. /\ UNCHANGED <<tickets, req>> /\ recording # <<>>
        /\ events' = Append(events, e) /\ recording' = Tail(recording)
        /\ UNCHANGED <<mode, minute, faults, stream, worker, waited>>
    BY DEF RecordInserted, outside
  <1>2. LogOK /\ IsLog(recording) /\ Dated
    BY DEF IInv, DeskInv, LogsOK, LogKnown, WaitInv
  <1>3. /\ e.at = minute
        /\ \A j \in DOMAIN recording' : recording'[j].at = minute
    <2>1. PICK S : recording \in Seq(S)
      BY <1>2 DEF IsLog
    <2>2. /\ e = recording[1] /\ 1 \in DOMAIN recording
          /\ \A j \in DOMAIN recording' : j + 1 \in DOMAIN recording /\ recording'[j] = recording[j + 1]
      BY <1>1, <2>1
    <2> QED
      BY <1>2, <2>2 DEF Dated
  <1> HIDE DEF e
  <1>4. AppendsNow(e)
    BY <1>1, <1>3 DEF AppendsNow
  <1>5. Dated'
    BY <1>2, <1>3, <1>4, LongerIsDated
  <1>6. \A id, clock : Reading(id, clock)' = Reading(id, clock)
    BY <1>2, <1>4, LongerReading
  <1>7. Readings'
    BY <1>1, <1>6 DEF WaitInv, Readings
  <1>8. ASSUME NEW i \in DOMAIN tickets
        PROVE  WordStands(i)'
    <2>1. WordStands(i) /\ \A g \in Handlers : (Speaks(g, i)' <=> Speaks(g, i)) /\ req'[g] = req[g]
      BY <1>1 DEF WaitInv, Speaks, Word
    <2>2. ASSUME \A g \in Handlers : ~Speaks(g, i), NEW j, LastWord(recording', i, j)
          PROVE  Told(recording'[j], tickets[i])
      <3>1. LastWord(recording, i, j + 1) /\ recording'[j] = recording[j + 1]
        BY <1>1, <1>2, <2>2, LastOfTail
      <3> QED
        BY <2>1, <2>2, <3>1 DEF WordStands
    <2>3. ASSUME \A g \in Handlers : ~Speaks(g, i), Silent(recording', i)
          PROVE  \E j : LastWord(events', i, j) /\ Told(events'[j], tickets[i])
      <3>1. CASE Word(e, i)
        <4>1. PICK k : LastWord(recording, i, k) /\ recording[k] = e
          BY <1>1, <1>2, <2>3, <3>1, SilentTail DEF e
        <4>2. Told(e, tickets[i])
          BY <2>1, <2>3, <4>1 DEF WordStands
        <4>3. PICK j : LastWord(events', i, j) /\ events'[j] = e
          BY <1>1, <1>2, <3>1, LastIsNew DEF LogOK
        <4> QED
          BY <4>2, <4>3
      <3>2. CASE ~Word(e, i)
        <4>1. Silent(recording, i)
          BY <1>1, <1>2, <2>3, <3>2, SilentTail DEF e
        <4>2. PICK j : LastWord(events, i, j) /\ Told(events[j], tickets[i])
          BY <2>1, <2>3, <4>1 DEF WordStands
        <4>3. LastWord(events', i, j) /\ events'[j] = events[j]
          BY <1>1, <1>2, <3>2, <4>2, LastStays DEF LogOK
        <4> QED
          BY <4>2, <4>3
      <3> QED
        BY <3>1, <3>2
    <2> QED
      BY <1>1, <2>1, <2>2, <2>3 DEF WordStands, Told, PausedRow, ClientPaused
  <1>9. HandsTell'
    BY <1>1 DEF WaitInv, HandsTell, HandTells, Told, PausedRow, ClientPaused
  <1> QED
    BY <1>1, <1>5, <1>7, <1>8, <1>9 DEF WaitInv, Undisturbed

\* What a sweep records says nothing of a status.
LEMMA RecordOnceWaits ==
    ASSUME DeskInv, WaitInv, IInv, NEW s \in Sweeps, RecordOnce(s)
    PROVE  WaitInv'
  <1> SUFFICES ASSUME Exact PROVE WaitInv'
    BY DEF WaitInv, Exact, Orderly, RecordOnce, SweepStep
  <1> DEFINE first == First(sweep[s].todo)
             e == Event(first.ticket, first.verdict, None, first.clock)
  <1>1. /\ UNCHANGED <<mode, minute, recording, req, tickets, stream, worker, waited, faults>>
        /\ UNCHANGED events \/ events' = Append(events, e)
    BY DEF RecordOnce, SweepStep
  <1>2. Undisturbed'
    BY <1>1 DEF WaitInv, Undisturbed
  <1>3. CASE UNCHANGED events
    BY <1>1, <1>2, <1>3, AsideWaits
  <1>4. CASE events' = Append(events, e)
    <2>1. e.at = minute /\ e.to = None
      BY DEF Event
    <2> HIDE DEF e
    <2>2. LogOK /\ Dated /\ AppendsNow(e)
      BY <1>1, <1>4, <2>1 DEF IInv, WaitInv, AppendsNow
    <2>3. Dated'
      BY <1>1, <2>2, LongerIsDated DEF Dated
    <2>4. \A id, clock : Reading(id, clock)' = Reading(id, clock)
      BY <2>2, LongerReading
    <2>5. Readings'
      BY <1>1, <2>4 DEF WaitInv, Readings
    <2>6. ASSUME NEW i \in DOMAIN tickets
          PROVE  WordStands(i)'
      <3>1. WordStands(i) /\ \A g \in Handlers : (Speaks(g, i)' <=> Speaks(g, i)) /\ req'[g] = req[g]
        BY <1>1 DEF WaitInv, Speaks, Word
      <3>2. \A j : LastWord(events, i, j) => LastWord(events', i, j) /\ events'[j] = events[j]
        BY <1>4, <2>1, <2>2, LastStays DEF LogOK, Word
      <3> QED
        BY <1>1, <3>1, <3>2 DEF WordStands, Told, PausedRow, ClientPaused
    <2>7. HandsTell'
      BY <1>1 DEF WaitInv, HandsTell, HandTells, Told, PausedRow, ClientPaused
    <2> QED
      BY <1>1, <1>2, <2>3, <2>5, <2>6, <2>7 DEF WaitInv
  <1> QED
    BY <1>1, <1>3, <1>4

\* A minute that passes is read where it is charged.
LEMMA MinuteWaits ==
    ASSUME DeskInv, WaitInv, IInv, NextMinute
    PROVE  WaitInv'
  <1> SUFFICES ASSUME Exact PROVE Undisturbed' /\ HandsTell' /\ Dated' /\ Readings'
                                  /\ \A i \in DOMAIN tickets' : WordStands(i)'
    BY DEF WaitInv, Exact, Orderly, NextMinute
  <1>1. /\ UNCHANGED <<tickets, events, recording, req, mode, stream, worker, faults>>
        /\ minute' = minute + 1 /\ Quiet
        /\ waited' = [tc \in Tickets \X Clocks |->
                         waited[tc] + (IF Charged(tc[1], tc[2]) THEN 1 ELSE 0)]
    BY DEF NextMinute, desk, Exact
  <1>2. LogOK /\ Dated /\ minute \in Nat
    BY DEF IInv, WaitInv, Dated
  <1>3. recording = <<>> /\ DOMAIN recording = {} /\ \A g \in Handlers : req[g] = Idle
    BY <1>1 DEF Quiet
  <1>4. Dated'
    BY <1>1, <1>2, <1>3 DEF Dated
  <1>5. \A i \in DOMAIN tickets : WordStands(i)'
    BY <1>1 DEF WaitInv, WordStands, Speaks, Told, PausedRow, ClientPaused
  <1>6. HandsTell'
    BY <1>1, <1>3 DEF HandsTell
  <1>7. ASSUME NEW id \in Tickets, NEW clock \in Clocks
        PROVE  Reading(id, clock)' = Reading(id, clock) + (IF Charged(id, clock) THEN 1 ELSE 0)
    <2>1. CASE id \in DOMAIN tickets
      <3>1. PICK i : LastWord(events, id, i) /\ Told(events[i], tickets[id])
        BY <1>3, <2>1 DEF WaitInv, WordStands, Speaks, Silent, Idle
      <3>2. StopDate(id, clock) = None /\ ~ClientPaused(events[i]) <=> Charged(id, clock)
        BY <2>1, <3>1 DEF Charged, StopDate, Told, PausedRow, Clocks
      <3> QED
        BY <1>1, <1>2, <3>1, <3>2, MinuteReading
    <2>2. CASE id \notin DOMAIN tickets
      <3>1. Points(id) = {}
        BY <2>2 DEF Points, StatusPoints, EventsOf, DeskInv, LogsOK, LogKnown
      <3>2. Points(id)' = {}
        BY <1>1, <3>1 DEF Points, StatusPoints, EventsOf
      <3>3. Reading(id, clock) = 0
        BY <1>2, <3>1, SilentReading
      <3>4. Reading(id, clock)' = 0
        <4>1. Reading(id, clock)' = SumFunction([i \in Points(id)' |->
                       Segment(Points(id), i, StopDate(id, clock), minute)'])
          BY DEF Reading, Clock, ActiveTime, Points, StopDate
        <4>2. Reading(id, clock)' = SumFunction([i \in {} |-> Segment(Points(id), i, StopDate(id, clock), minute)'])
          BY <3>2, <4>1
        <4> DEFINE f == [i \in {} |-> Segment(Points(id), i, StopDate(id, clock), minute)']
        <4>3. DOMAIN f = {}
          OBVIOUS
        <4> HIDE DEF f
        <4>4. SumFunctionOnSet(f, {}) = 0
          BY SumSplits, FS_EmptySet
        <4>5. SumFunction(f) = 0
          BY <4>3, <4>4 DEF SumFunction
        <4> QED
          BY <4>2, <4>5 DEF f
      <3>5. ~Charged(id, clock)
        BY <2>2 DEF Charged
      <3> QED
        BY <3>3, <3>4, <3>5
    <2> QED
      BY <2>1, <2>2
  <1>8. Readings'
    <2> SUFFICES ASSUME NEW id \in Tickets, NEW clock \in Clocks
                 PROVE  Reading(id, clock)' = waited'[<<id, clock>>]
      BY DEF Readings
    <2>1. Reading(id, clock) = waited[<<id, clock>>]
      BY DEF WaitInv, Readings
    <2>2. waited'[<<id, clock>>] = waited[<<id, clock>>] + (IF Charged(id, clock) THEN 1 ELSE 0)
      BY <1>1
    <2> QED
      BY <1>7, <2>1, <2>2
  <1> QED
    BY <1>1, <1>4, <1>5, <1>6, <1>8 DEF WaitInv, Undisturbed

-----------------------------------------------------------------------------
LEMMA WaitInit == Init => WaitInv
  <1> SUFFICES ASSUME Init, Exact PROVE Undisturbed /\ HandsTell /\ Dated /\ Readings
                                        /\ \A id \in DOMAIN tickets : WordStands(id)
    BY DEF WaitInv
  <1>1. DOMAIN tickets = {} /\ events = <<>> /\ DOMAIN events = {} /\ DOMAIN recording = {} /\ minute = 0
    BY DEF Init
  <1>2. Undisturbed /\ HandsTell
    BY DEF Init, Exact, Undisturbed, Started, HandsTell
  <1>3. Dated
    BY <1>1 DEF Dated
  <1>4. LogOK
    <2>1. <<>> \in Seq({})
      OBVIOUS
    <2> QED
      BY <1>1, <2>1 DEF LogOK, IsLog
  <1>5. \A id, clock : Reading(id, clock) = 0
    <2>1. \A id : Points(id) = {}
      BY <1>1 DEF Points, StatusPoints, EventsOf
    <2> QED
      BY <1>4, <2>1, SilentReading
  <1>6. Readings
    BY <1>5 DEF Init, Readings
  <1> QED
    BY <1>1, <1>2, <1>3, <1>6

LEMMA WaitStep ==
    ASSUME DeskInv, IInv, WaitInv, [Next]_vars
    PROVE  WaitInv'
  <1>0. CASE ~Exact
    <2>1. mode' = mode
      BY DEF Next, vars, Desk, outside, EventLost, MemberLeaves, Policy, CreatePolicy, UpdatePolicy,
             RemovePolicy, PolicyStep, Elsewhere, Publish, Deliver, ConsumerStep, Bind, CreateFromRequest,
             RecordCreation, Acknowledge, DeliveryFails, BindFails, BootFails, FindOpen, ReadEvents,
             RecordOnce, RecordRefused, Alert, SweepFails, SweepStep, NextMinute, Restart
    <2> QED
      BY <1>0, <2>1 DEF WaitInv, Exact, Orderly
  <1>1. CASE Exact
    <2>0. Undisturbed /\ ~Fails /\ mode.requests = {}
      BY <1>1, NothingFails DEF WaitInv, Exact
    <2>1. CASE UNCHANGED vars
      <3>1. Undisturbed'
        BY <2>0, <2>1 DEF vars, Undisturbed
      <3> QED
        BY <2>1, <3>1, AsideWaits DEF vars
    <2>2. CASE Desk
      <3>1. UNCHANGED outside
        BY <2>2 DEF Desk
      <3> QED
        BY <2>2, <3>1, RequestWaits, SaveWaits, RecordWaits, InsertedWaits DEF Desk
    <2>3. CASE EventLost \/ BootFails \/ Restart
      BY <2>0, <2>3 DEF EventLost, BootFails, Restart
    <2>4. ASSUME NEW m \in Members, MemberLeaves(m)
          PROVE  WaitInv'
      <3>1. UNCHANGED <<mode, minute, tickets, events, recording, req, waited, faults, stream, worker>>
        BY <2>4 DEF MemberLeaves, desk
      <3> QED
        BY <2>0, <3>1, AsideWaits DEF Undisturbed
    <2>5. ASSUME NEW priority \in Priorities, Policy(priority)
          PROVE  WaitInv'
      <3>1. UNCHANGED <<mode, minute, tickets, events, recording, req, waited, faults, stream, worker>>
        BY <2>5 DEF Policy, CreatePolicy, UpdatePolicy, RemovePolicy, PolicyStep, desk
      <3> QED
        BY <2>0, <3>1, AsideWaits DEF Undisturbed
    <2>6. CASE \E p \in DOMAIN Requests : Publish(p) \/ \E s \in Sources : Deliver(s, p)
      BY <2>0, <2>6 DEF Publish, Deliver, Undisturbed
    <2>7. CASE \E s \in Sources : ConsumerStep(s) \/ DeliveryFails(s) \/ BindFails(s)
      BY <2>0, <2>7 DEF ConsumerStep, Bind, CreateFromRequest, RecordCreation, Acknowledge, DeliveryFails,
                        BindFails, Undisturbed, Resting, Booting
    <2>8. ASSUME NEW s \in Sweeps,
                 FindOpen(s) \/ ReadEvents(s) \/ RecordRefused(s) \/ Alert(s) \/ SweepFails(s)
          PROVE  WaitInv'
      <3>1. UNCHANGED <<mode, minute, tickets, events, recording, req, waited, faults, stream, worker>>
        BY <2>0, <2>8 DEF FindOpen, ReadEvents, RecordRefused, Alert, SweepFails, SweepStep
      <3> QED
        BY <2>0, <3>1, AsideWaits DEF Undisturbed
    <2>9. ASSUME NEW s \in Sweeps, RecordOnce(s)
          PROVE  WaitInv'
      BY <2>9, RecordOnceWaits
    <2>10. CASE NextMinute
      BY <2>10, MinuteWaits
    <2> QED
      BY <2>1, <2>2, <2>3, <2>4, <2>5, <2>6, <2>7, <2>8, <2>9, <2>10 DEF Next
  <1> QED
    BY <1>0, <1>1

\* The minutes computeActiveMs() makes of a ticket's events are those it did
\* not wait for its client, for any number of tickets and any sequence of
\* pauses, answers, ends and reopenings, while people come one at a time, what
\* a minute brings is done within it and nothing fails.
THEOREM ClocksTellTheWait == Spec => []ClockTellsTheWait
  <1>1. DeskInv /\ WaitInv => ClockTellsTheWait
    <2> SUFFICES ASSUME DeskInv, WaitInv, Exact, NEW id \in DOMAIN tickets, NEW clock \in Clocks
                 PROVE  Clock(EventsOf(id), clock, minute) = waited[<<id, clock>>]
      BY DEF ClockTellsTheWait
    <2>1. id \in Tickets
      BY DEF DeskInv, RowsOK
    <2> QED
      BY <2>1 DEF WaitInv, Readings, Reading
  <1>2. DeskInv /\ [Next]_vars => DeskInv'
    BY DeskStep
  <1>3. DeskInv /\ IInv /\ WaitInv /\ [Next]_vars => WaitInv'
    BY WaitStep
  <1> QED
    BY <1>1, <1>2, <1>3, DeskInit, InitHolds, StepKeeps, WaitInit, PTL DEF Spec
=============================================================================
