---------------------------- MODULE SupportDesk -----------------------------
(***************************************************************************)
(* Support: the tickets people work on and their event log                 *)
(* (tickets.service.ts, sla-elapsed.ts), the requests of the client        *)
(* applications that become tickets (support-ingest.listener.ts), the      *)
(* targets they are held to (sla-policy.service.ts) and the sweep that     *)
(* warns before one is missed (tickets-sla-breach.scheduler.ts).  A        *)
(* handler reads a row, checks it, and saves the whole row some awaits     *)
(* later; the event that says what it did is written after, by nobody who  *)
(* waits.  The process may stop between any two awaits; a sweep that takes *)
(* long overlaps the next.                                                 *)
(***************************************************************************)
EXTENDS Integers, SequencesExt

CONSTANTS
    None,
    Handlers,       \* requests that may be in flight at once
    Tickets,        \* ids, drawn in order; a bound
    Members,        \* team_members
    Unassigned,
    Priorities,
    Requests,       \* what support.requested announces: id -> [source, complete]
    Modes,
    Sources,        \* subjects, each with a durable consumer of its own
    Sweeps,         \* sweeps that may be under way at once
    Period,         \* minutes between sweeps: 2
    Targets         \* minutes a policy may promise

VARIABLES
    mode,           \* what a behaviour explores; never changes
    minute,
    tickets,        \* id -> row
    events,         \* ticket_events, in the order of their dates
    recording,      \* events on their way to the log
    req,            \* handler -> the row it is about to save
    team,           \* the members there are
    policies,       \* sla_policies: priority -> targets
    published,      \* requests the applications have announced
    stream,         \* JetStream: the requests not acknowledged
    worker,         \* consumer -> where it awaits
    sweep,          \* sweep -> where it awaits
    faults,         \* bounded: crashes, failures, acknowledgements lost
    notified,       \* <<ticket, clock>> -> alerts sent
    waited          \* <<ticket, clock>> -> minutes not spent waiting for the client

desk == <<tickets, events, recording, req>>

Statuses == {"open", "pending", "resolved", "closed"}
Ended == {"resolved", "closed"}
Reasons == {"client", "vendor"}
Codes == {"corrige", "doublon"}
Explained == {"doublon"}
SlaActions == {"approaching", "breached"}

TicketRows ==
    [status : Statuses, reason : Reasons \cup {None}, code : Codes \cup {None}, notes : BOOLEAN,
     assignee : Members \cup {Unassigned}, priority : Priorities, replies : Nat,
     request : DOMAIN Requests \cup {None}]

-----------------------------------------------------------------------------
\* The clock warns from 80 % of its target on, in whole minutes here.
Approaching(elapsed, target) == 10 * elapsed >= 8 * target

Breached(elapsed, target) == elapsed >= target

-----------------------------------------------------------------------------
Idle == [at |-> "idle"]

\* meta: the reason of a wait, the visibility of a reply, the clock of an alert.
Event(id, action, to, meta) ==
    [ticket |-> id, action |-> action, to |-> to, meta |-> meta, at |-> minute]

\* The events written by requests, those still on their way included.
Written == Len(recording) + Len(SelectSeq(events, LAMBDA e : e.action \notin SlaActions))

NextId == Cardinality(DOMAIN tickets) + 1

-----------------------------------------------------------------------------
ValidAssignee(assignee) == assignee = Unassigned \/ assignee \in team

Begins(h, id, row, action, to, meta) ==
    /\ req[h] = Idle /\ h \in mode.handlers /\ Written < mode.log
    /\ req' = [req EXCEPT ![h] = [at |-> "save", id |-> id, row |-> row,
                                  event |-> Event(id, action, to, meta)]]
    /\ UNCHANGED <<tickets, events, recording>>

NewTicket(priority, status, assignee, request) ==
    [status |-> status, reason |-> None, code |-> None, notes |-> FALSE, assignee |-> assignee,
     priority |-> priority, replies |-> 0, request |-> request]

\* The id is the database's, drawn by the insert.
Create(h, priority, status, assignee) ==
    /\ NextId \in mode.ids
    /\ ValidAssignee(assignee)
    /\ Begins(h, None, NewTicket(priority, status, assignee, None), "created", status, None)

AddReply(h, id, visibility) ==
    /\ id \in DOMAIN tickets
    /\ Begins(h, id, [tickets[id] EXCEPT !.replies = @ + 1], "replied", None, visibility)

NextCode(ticket, status, code) ==
    IF status \notin Ended THEN None ELSE IF code # None THEN code ELSE ticket.code

NextNotes(ticket, status, notes) ==
    status \in Ended /\ (IF notes # None THEN notes ELSE ticket.notes)

ChangeableAlways(ticket) == TRUE

Changeable(ticket) == ticket.status # "closed"

SetStatus(h, id, status, reason, code, notes) ==
    /\ id \in DOMAIN tickets
    /\ LET ticket == tickets[id]
           next == [ticket EXCEPT !.status = status,
                                  !.reason = IF status = "pending" THEN reason ELSE None,
                                  !.code = NextCode(ticket, status, code),
                                  !.notes = NextNotes(ticket, status, notes)]
       IN  /\ status \in Ended => /\ next.code # None
                                  /\ next.code \in Explained => next.notes
           /\ next # ticket
           /\ Changeable(ticket)
           /\ Begins(h, id, next, "status_changed", status, next.reason)

Assign(h, id, assignee) ==
    /\ id \in DOMAIN tickets
    /\ ValidAssignee(assignee)
    /\ Begins(h, id, [tickets[id] EXCEPT !.assignee = assignee], "assigned", None, None)

Update(h, id, priority) ==
    /\ id \in DOMAIN tickets
    /\ priority # tickets[id].priority
    /\ Begins(h, id, [tickets[id] EXCEPT !.priority = priority], "updated", None, None)

SavedId(id) == IF id = None THEN NextId ELSE id

\* Whole rows: what another request saved since the read is overwritten.
SaveRow(saved, row) ==
    /\ saved \in mode.ids
    /\ tickets' = [i \in DOMAIN tickets \cup {saved} |-> IF i = saved THEN row ELSE tickets[i]]

Save(h) ==
    /\ req[h].at = "save"
    /\ LET saved == SavedId(req[h].id)
       IN  /\ SaveRow(saved, req[h].row)
           /\ req' = [req EXCEPT ![h] = [at |-> "record", event |-> [req[h].event EXCEPT !.ticket = saved]]]
    /\ UNCHANGED <<events, recording>>

\* record(): the event is dated when the save has returned; nobody waits for
\* its insert.
Call(event) == recording' = Append(recording, [event EXCEPT !.at = minute])

Record(h) ==
    /\ req[h].at = "record"
    /\ Call(req[h].event)
    /\ req' = [req EXCEPT ![h] = Idle]
    /\ UNCHANGED <<tickets, events>>

RecordInserted ==
    /\ recording # <<>>
    /\ events' = Append(events, Head(recording))
    /\ recording' = Tail(recording)
    /\ UNCHANGED <<tickets, req>>

RecordLost ==
    /\ recording # <<>>
    /\ recording' = Tail(recording)
    /\ UNCHANGED <<tickets, events, req>>

-----------------------------------------------------------------------------
\* What is read of a ticket: where its events are in the log.
EventsOf(id) == {i \in DOMAIN events : events[i].ticket = id}

StatusPoints(log) == {i \in log : events[i].to # None}

\* The first reply the client could read stops the response clock.
ReplyDate(log) ==
    LET replies == {i \in log : events[i].action = "replied" /\ events[i].meta = "client"}
    IN  IF replies = {} THEN None ELSE events[Min(replies)].at

(***************************************************************************)
(* sla-elapsed.ts: the minutes an SLA clock has run, computed from the     *)
(* status points of a ticket's event log.  Points are in the order of      *)
(* their dates, which is how they are read.                                *)
(***************************************************************************)
ClientPausedNamed(point) == point.to = "pending" /\ point.meta = "client"

\* A wait for the client is credited; no reason given is read as the client.
ClientPaused(point) == point.to = "pending" /\ point.meta \in {"client", None}

Stopped(stopAt, date) == stopAt # None /\ date >= stopAt

SegmentEnd(points, i, stopAt, now) ==
    LET later == {j \in points : j > i}
        end == IF later # {} THEN events[Min(later)].at
               ELSE IF stopAt # None THEN stopAt ELSE now
    IN  IF Stopped(stopAt, end) THEN stopAt ELSE end

Segment(points, i, stopAt, now) ==
    IF Stopped(stopAt, events[i].at) \/ ClientPaused(events[i]) THEN 0
    ELSE SegmentEnd(points, i, stopAt, now) - events[i].at

ActiveTime(points, stopAt, now) == SumFunction([i \in points |-> Segment(points, i, stopAt, now)])

Recorded(id, action, clock) ==
    \E i \in DOMAIN events : /\ events[i].ticket = id
                             /\ events[i].action = action /\ events[i].meta = clock

-----------------------------------------------------------------------------
vars == <<mode, minute, tickets, events, recording, req, team, policies, published, stream,
          worker, sweep, faults, notified, waited>>

outside == <<mode, minute, team, policies, published, stream, worker, sweep, faults, notified, waited>>

Clocks == {"response", "resolution"}
PolicyRows == [Clocks -> Targets \cup {None}]
Resting == [at |-> "rest"]
Booting == [at |-> "boot"]
Deaf == [at |-> "deaf"]

\* Where the consumers are when the process starts; where nothing is requested
\* they are left bound.
Started == [s \in Sources |-> IF mode.requests = {} THEN Resting ELSE Booting]

ASSUME SupportAssumption ==
    /\ None \notin Tickets /\ None \notin Nat /\ None \notin BOOLEAN
    /\ None \notin Statuses \cup Reasons \cup Codes \cup Members \cup DOMAIN Requests
    /\ Unassigned \notin Members
    /\ Targets \subseteq Nat \ {0} /\ Period \in Nat \ {0}
    /\ IsFiniteSet(Tickets) /\ IsFiniteSet(Handlers)
    /\ \A m \in Modes :
          /\ m.handlers \subseteq Handlers /\ m.ids \subseteq Tickets /\ m.requests \subseteq DOMAIN Requests
          /\ m.policies \in [DOMAIN m.policies -> PolicyRows] /\ DOMAIN m.policies \subseteq Priorities
          /\ m.prompt \in BOOLEAN /\ m.leaves \in BOOLEAN /\ m.faults \in Nat
          /\ m.log \in Nat /\ m.last \in Nat
          /\ m.fresh \cup m.priorities \cup m.managed \subseteq Priorities
          /\ m.created \cup m.statuses \subseteq Statuses
          /\ m.assignees \subseteq Members \cup {Unassigned}
          /\ m.reasons \subseteq Reasons \cup {None} /\ m.codes \subseteq Codes \cup {None}
          /\ m.notes \subseteq BOOLEAN \cup {None}

Init ==
    /\ mode \in Modes
    /\ minute = 0
    /\ tickets = [id \in {} |-> None]
    /\ events = <<>>
    /\ recording = <<>>
    /\ req = [h \in Handlers |-> Idle]
    /\ team = Members
    /\ policies = mode.policies
    /\ published = {}
    /\ stream = {}
    /\ worker = Started
    /\ sweep = [s \in Sweeps |-> Resting]
    /\ faults = 0
    /\ notified = [tc \in Tickets \X Clocks |-> 0]
    /\ waited = [tc \in Tickets \X Clocks |-> 0]

-----------------------------------------------------------------------------
Request(h) ==
    \/ \E priority \in mode.fresh, status \in mode.created, assignee \in mode.assignees :
          Create(h, priority, status, assignee)
    \/ \E id \in Tickets :
          \/ \E visibility \in mode.visibilities : AddReply(h, id, visibility)
          \/ \E status \in mode.statuses, reason \in mode.reasons, code \in mode.codes,
                notes \in mode.notes : SetStatus(h, id, status, reason, code, notes)
          \/ \E assignee \in mode.assignees : mode.assigning /\ Assign(h, id, assignee)
          \/ \E priority \in mode.priorities : Update(h, id, priority)

Desk ==
    /\ (\E h \in Handlers : Request(h) \/ Save(h) \/ Record(h)) \/ RecordInserted
    /\ UNCHANGED outside

Fails == faults < mode.faults /\ faults' = faults + 1

\* The event a request left to itself was refused by the database.
EventLost ==
    /\ Fails
    /\ RecordLost
    /\ UNCHANGED <<mode, minute, team, policies, published, stream, worker, sweep, notified, waited>>

\* team.service.ts remove(): tickets keep the assignee who left.
MemberLeaves(m) ==
    /\ mode.leaves
    /\ team' = team \ {m} /\ team' # team
    /\ UNCHANGED desk
    /\ UNCHANGED <<mode, minute, policies, published, stream, worker, sweep, faults, notified, waited>>

-----------------------------------------------------------------------------
PolicyStep(p) ==
    /\ policies' = p
    /\ UNCHANGED desk
    /\ UNCHANGED <<mode, minute, team, published, stream, worker, sweep, faults, notified, waited>>

CreatePolicy(priority, row) ==
    /\ priority \in mode.managed \ DOMAIN policies
    /\ PolicyStep([p \in DOMAIN policies \cup {priority} |-> IF p = priority THEN row ELSE policies[p]])

\* A target left out of the request stays what it is.
UpdatePolicy(priority, clock, target) ==
    /\ priority \in mode.managed \cap DOMAIN policies
    /\ policies[priority][clock] # target
    /\ PolicyStep([policies EXCEPT ![priority][clock] = target])

RemovePolicy(priority) ==
    /\ priority \in mode.managed \cap DOMAIN policies
    /\ PolicyStep([p \in DOMAIN policies \ {priority} |-> policies[p]])

-----------------------------------------------------------------------------
Elsewhere == UNCHANGED <<mode, minute, team, policies, sweep, notified, waited>>

\* bootstrap(): a durable consumer is bound as it was left, one after the other,
\* whether or not the stream could be declared.
Bind(s) ==
    /\ worker[s] = Booting
    /\ worker' = [worker EXCEPT ![s] = Resting]
    /\ UNCHANGED <<published, stream, faults>> /\ UNCHANGED desk /\ Elsewhere

\* A source that does not bind takes no other with it; until the next start it
\* is deaf, and its requests stay in the stream.
BindFails(s) ==
    /\ worker[s] = Booting
    /\ Fails
    /\ worker' = [worker EXCEPT ![s] = Deaf]
    /\ UNCHANGED <<published, stream>> /\ UNCHANGED desk /\ Elsewhere

\* NATS is not there after 30 attempts, or the bus does not start.
BootFails ==
    /\ \A s \in Sources : worker[s] = Booting
    /\ Fails
    /\ worker' = [s \in Sources |-> Deaf]
    /\ UNCHANGED <<published, stream>> /\ UNCHANGED desk /\ Elsewhere

Publish(p) ==
    /\ p \in mode.requests \ published
    /\ published' = published \cup {p} /\ stream' = stream \cup {p}
    /\ UNCHANGED <<worker, faults>> /\ UNCHANGED desk /\ Elsewhere

\* What lacks a subject, a message or a tenant is dropped, and acknowledged.
Deliver(s, p) ==
    /\ worker[s] = Resting /\ p \in stream /\ Requests[p].source = s
    /\ worker' = [worker EXCEPT ![s] =
                    [at |-> IF Requests[p].complete THEN "create" ELSE "acknowledge", request |-> p]]
    /\ UNCHANGED <<published, stream, faults>> /\ UNCHANGED desk /\ Elsewhere

CreateFromRequest(s) ==
    /\ worker[s].at = "create"
    /\ LET p == worker[s].request
       IN  /\ \E priority \in mode.fresh :
                 SaveRow(NextId, NewTicket(priority, "open", Unassigned, p))
           /\ worker' = [worker EXCEPT ![s] = [at |-> "record", request |-> p, ticket |-> NextId]]
    /\ UNCHANGED <<events, recording, req, published, stream, faults>> /\ Elsewhere

RecordCreation(s) ==
    /\ worker[s].at = "record"
    /\ Call(Event(worker[s].ticket, "created", "open", None))
    /\ worker' = [worker EXCEPT ![s] = [at |-> "acknowledge", request |-> worker[s].request]]
    /\ UNCHANGED <<tickets, events, req, published, stream, faults>> /\ Elsewhere

Acknowledge(s) ==
    /\ worker[s].at = "acknowledge"
    /\ stream' = stream \ {worker[s].request}
    /\ worker' = [worker EXCEPT ![s] = Resting]
    /\ UNCHANGED <<published, faults>> /\ UNCHANGED desk /\ Elsewhere

InHand(s) == worker[s] \notin {Resting, Booting, Deaf}

\* Mutant: the listener swallows the error.
DeliveryDropped(s) ==
    /\ InHand(s)
    /\ Fails
    /\ stream' = stream \ {worker[s].request}
    /\ worker' = [worker EXCEPT ![s] = Resting]
    /\ UNCHANGED published /\ UNCHANGED desk /\ Elsewhere

\* The handler threw, or the acknowledgement was lost: it is delivered again.
DeliveryFails(s) ==
    /\ InHand(s)
    /\ Fails
    /\ worker' = [worker EXCEPT ![s] = Resting]
    /\ UNCHANGED <<published, stream>> /\ UNCHANGED desk /\ Elsewhere

-----------------------------------------------------------------------------
SweepStep(s, r) ==
    /\ sweep' = [sweep EXCEPT ![s] = r]
    /\ UNCHANGED <<mode, minute, recording, req, tickets, team, policies, published, stream, worker, waited>>

OpenTickets == {id \in DOMAIN tickets : tickets[id].status \notin Ended}

FindOpen(s) ==
    /\ sweep[s].at = "find"
    /\ SweepStep(s, IF OpenTickets = {} THEN Resting
                    ELSE [at |-> "read", rows |-> [id \in OpenTickets |-> tickets[id]]])
    /\ UNCHANGED <<events, faults, notified>>

Clock(log, clock, now) ==
    ActiveTime(StatusPoints(log), IF clock = "response" THEN ReplyDate(log) ELSE None, now)

\* A clock that has stopped may still have run too long; it warns no more.
Verdict(log, clock, target) ==
    LET elapsed == Clock(log, clock, minute)
    IN  IF target = None THEN "none"
        ELSE IF Breached(elapsed, target) THEN "breached"
        ELSE IF /\ Approaching(elapsed, target)
                /\ ~(clock = "response" /\ ReplyDate(log) # None) THEN "approaching"
        ELSE "none"

\* The events to write for a ticket as it was read.
VerdictsOn(id, row) ==
    LET promised == IF row.priority \in DOMAIN policies THEN Clocks ELSE {}
        verdict(clock) == Verdict(EventsOf(id), clock, policies[row.priority][clock])
    IN  {[ticket |-> id, verdict |-> verdict(clock), clock |-> clock, assignee |-> row.assignee] :
            clock \in {c \in promised : verdict(c) # "none"}}

\* Ticket by ticket, the response clock first.
First(todo) ==
    CHOOSE v \in todo : \A w \in todo :
        \/ v.ticket < w.ticket
        \/ v.ticket = w.ticket /\ (v.clock = "response" \/ w.clock = v.clock)

ToRecord(todo) == IF todo = {} THEN Resting ELSE [at |-> "record", todo |-> todo]

ReadEvents(s) ==
    /\ sweep[s].at = "read"
    /\ LET rows == sweep[s].rows
       IN  SweepStep(s, ToRecord(UNION {VerdictsOn(id, rows[id]) : id \in DOMAIN rows}))
    /\ UNCHANGED <<events, faults, notified>>

AlreadyRecordedNever(id, action, clock) == FALSE

AlreadyRecorded(id, action, clock) == Recorded(id, action, clock)

\* recordOnce(): the unique index on (ticket, action) says who is first.
RecordOnce(s) ==
    /\ sweep[s].at = "record"
    /\ LET first == First(sweep[s].todo)
           known == AlreadyRecorded(first.ticket, first.verdict, first.clock)
       IN  /\ events' = IF known THEN events
                        ELSE Append(events, Event(first.ticket, first.verdict, None, first.clock))
           /\ SweepStep(s, IF ~known /\ first.verdict = "approaching"
                           THEN [at |-> "alert", todo |-> sweep[s].todo]
                           ELSE ToRecord(sweep[s].todo \ {first}))
    /\ UNCHANGED <<faults, notified>>

\* Any error of recordOnce() reads as "already recorded".
RecordRefused(s) ==
    /\ sweep[s].at = "record"
    /\ Fails
    /\ SweepStep(s, ToRecord(sweep[s].todo \ {First(sweep[s].todo)}))
    /\ UNCHANGED <<events, notified>>

\* The assignee when there is one, the brand's team otherwise.
Recipients(assignee) == IF assignee = Unassigned THEN team ELSE {assignee} \cap team

Alert(s) ==
    /\ sweep[s].at = "alert"
    /\ LET first == First(sweep[s].todo)
       IN  notified' = IF Recipients(first.assignee) = {} THEN notified
                       ELSE [notified EXCEPT ![<<first.ticket, first.clock>>] = @ + 1]
    /\ SweepStep(s, ToRecord(sweep[s].todo \ {First(sweep[s].todo)}))
    /\ UNCHANGED <<events, faults>>

\* A read failed, or Keycloak did not say who is in the team.
SweepFails(s) ==
    /\ sweep[s].at \in {"find", "read", "alert"}
    /\ Fails
    /\ SweepStep(s, Resting)
    /\ UNCHANGED <<events, notified>>

-----------------------------------------------------------------------------
Quiet ==
    /\ \A h \in Handlers : req[h] = Idle
    /\ recording = <<>>
    /\ \A s \in Sweeps : sweep[s] = Resting

\* The clock of a ticket is charged with the minute unless it waits for the
\* client; the response clock runs until the client is answered.
Charged(id, clock) ==
    /\ id \in DOMAIN tickets
    /\ ~(tickets[id].status = "pending" /\ tickets[id].reason \in {"client", None})
    /\ clock = "response" => ReplyDate(EventsOf(id)) = None

\* The cron fires on every Period-th minute, whatever is under way.
NextMinute ==
    /\ minute < mode.last
    /\ mode.prompt => Quiet
    /\ minute' = minute + 1
    /\ IF minute' % Period = 0
       THEN \E s \in Sweeps : /\ sweep[s] = Resting
                              /\ sweep' = [sweep EXCEPT ![s] = [at |-> "find"]]
       ELSE UNCHANGED sweep
    /\ waited' = [tc \in Tickets \X Clocks |->
                    waited[tc] + (IF Charged(tc[1], tc[2]) THEN 1 ELSE 0)]
    /\ UNCHANGED desk
    /\ UNCHANGED <<mode, team, policies, published, stream, worker, faults, notified>>

\* The process stops and comes back: what was in flight is gone.
Restart ==
    /\ Fails
    /\ req' = [h \in Handlers |-> Idle]
    /\ recording' = <<>>
    /\ worker' = Started
    /\ sweep' = [s \in Sweeps |-> Resting]
    /\ UNCHANGED <<mode, minute, tickets, events, team, policies, published, stream, notified, waited>>

ConsumerStep(s) == Bind(s) \/ CreateFromRequest(s) \/ RecordCreation(s) \/ Acknowledge(s)

Policy(priority) ==
    \/ \E row \in PolicyRows : CreatePolicy(priority, row)
    \/ \E clock \in Clocks, target \in Targets \cup {None} : UpdatePolicy(priority, clock, target)
    \/ RemovePolicy(priority)

Next ==
    \/ Desk \/ EventLost
    \/ \E m \in Members : MemberLeaves(m)
    \/ \E priority \in Priorities : Policy(priority)
    \/ \E p \in DOMAIN Requests : Publish(p) \/ \E s \in Sources : Deliver(s, p)
    \/ \E s \in Sources : ConsumerStep(s) \/ DeliveryFails(s) \/ BindFails(s)
    \/ BootFails
    \/ \E s \in Sweeps : \/ FindOpen(s) \/ ReadEvents(s) \/ RecordOnce(s) \/ RecordRefused(s)
                         \/ Alert(s) \/ SweepFails(s)
    \/ NextMinute \/ Restart

Spec == Init /\ [][Next]_vars

\* NATS is there, JetStream delivers what is not acknowledged, and the database answers.
FairSpec ==
    /\ Spec
    /\ \A s \in Sources : /\ WF_vars(ConsumerStep(s))
                          /\ \A p \in DOMAIN Requests : WF_vars(Deliver(s, p))

-----------------------------------------------------------------------------
Orderly == Cardinality(mode.handlers) = 1

\* Nothing fails, what a minute brings is done within it, and no application
\* changes a ticket while a person does.
Exact == Orderly /\ mode.prompt /\ mode.faults = 0 /\ mode.requests = {}

\* A row names what it waits for only while it waits, and why it ended only
\* once it has; the log only speaks of tickets there are.
TypeOK ==
    /\ tickets \in [DOMAIN tickets -> TicketRows] /\ DOMAIN tickets \subseteq Tickets
    /\ \A id \in DOMAIN tickets :
          /\ tickets[id].reason # None => tickets[id].status = "pending"
          /\ tickets[id].code # None => tickets[id].status \in Ended
    /\ \A i \in DOMAIN events : events[i].ticket \in DOMAIN tickets
    /\ policies \in [DOMAIN policies -> PolicyRows] /\ DOMAIN policies \subseteq Priorities
    /\ published \subseteq DOMAIN Requests /\ stream \subseteq published

\* "Alerts once when a clock crosses 80 % of target (never re-alerting)": not
\* across a pause and a resume, not by sweeps that overlap, not after a crash
\* or a change of target.
AlertedOnce == \A tc \in DOMAIN notified : notified[tc] <= 1

\* The minutes the sweep computes from the log are those the ticket did not
\* wait for its client, however often it paused, resumed, ended or was reopened.
ClockTellsTheWait ==
    Exact =>
        \A id \in DOMAIN tickets, clock \in Clocks :
            Clock(EventsOf(id), clock, minute) = waited[<<id, clock>>]

ClosedStands(was, is) ==
    /\ was.status = "closed" => [was EXCEPT !.replies = 0, !.assignee = None, !.priority = None]
                                  = [is EXCEPT !.replies = 0, !.assignee = None, !.priority = None]
    /\ is.replies >= was.replies

\* "A closed ticket is not reopenable by anyone", and no request undoes another
\* one's reply, when requests do not overlap (setStatus(), assign(), update()).
SettledStands ==
    [][Orderly => \A id \in DOMAIN tickets : ClosedStands(tickets[id], tickets'[id])]_vars

\* "A support request must never be lost across an HQ restart": one that says
\* something becomes a ticket, whatever fails on the way,
\* unless its consumer is left unbound: "le prochain demarrage les reprendra".
RequestsBecomeTickets ==
    \A p \in DOMAIN Requests :
        p \in published /\ Requests[p].complete
            ~> \/ \E id \in DOMAIN tickets : tickets[id].request = p
               \/ worker[Requests[p].source] = Deaf
=============================================================================
