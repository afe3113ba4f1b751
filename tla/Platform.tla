------------------------------ MODULE Platform ------------------------------
(***************************************************************************)
(* The service on the platform's bus: over its connection and the registry,*)
(* incidents (health.service.ts), the alerts that follow them by mail      *)
(* (incident-alert.listener.ts) and the log lines (logs-ingest.listener.ts)*)
(* A sampler compares every status with the one it saw last and emits what *)
(* it opens and closes; the service consumes its own events as everybody   *)
(* else does, from the first one kept at every start.                      *)
(***************************************************************************)
EXTENDS AppRegistry, FiniteSetsExt

CONSTANTS
    MaxSamples,     \* bound on the passes of the sampler, of which a mode uses mode.samples
    MaxRecent       \* MAX_RECENT_INCIDENTS

VARIABLES
    samples,        \* passes so far: the time an incident is named after
    lastStatus, openIncidents, recent,
    sampling,       \* the pass: "idle", or at the await of the snapshot of a service
    feed,           \* the stream of the incidents
    notified,       \* notifiedIds of this process
    told,           \* history: the alerts sent, as often as they were
    lines           \* the logs table: event -> lines

monitored == <<samples, lastStatus, openIncidents, recent, sampling, feed, notified, told, lines>>

IdleSampler == [at |-> "idle"]

Counted(bag, key) == With(bag, key, IF key \in DOMAIN bag THEN bag[key] + 1 ELSE 1)

HealthInit ==
    /\ samples = 0 /\ told = << >> /\ lines = << >>
    /\ feed = Stream({"health", "alerts", "logs"})
    /\ lastStatus = << >> /\ openIncidents = << >> /\ recent = << >>
    /\ sampling = IdleSampler /\ notified = {}

HealthRestarts ==
    /\ lastStatus' = << >> /\ openIncidents' = << >> /\ recent' = << >>
    /\ sampling' = IdleSampler /\ notified' = {}
    /\ UNCHANGED <<samples, feed, told, lines>>

\* The listeners bind: each recreates its consumer of the incidents.
StartListener(p) ==
    /\ Binds(p) /\ feed' = Recreated(feed, p)
    /\ UNCHANGED <<samples, lastStatus, openIncidents, recent, sampling, notified, told, lines>>

StartHealth == StartListener("health")
StartAlerts == StartListener("alerts")
StartLogs == StartListener("logs")

Persists == Attached("health")

\* Mutant: the first status seen is taken as it is.
LooksTrusting(s, status, others) ==
    /\ lastStatus' = With(lastStatus, s, status)
    /\ sampling' = [at |-> "snapshot", svc |-> s, to |-> status,
                    from |-> IF s \in DOMAIN lastStatus THEN lastStatus[s] ELSE status]
    /\ listed' = others

\* sample() looks at a service, up to the await of its snapshot.
Looks(s, status, others) ==
    /\ lastStatus' = With(lastStatus, s, status)
    /\ sampling' = [at |-> "snapshot", svc |-> s, to |-> status,
                    from |-> IF s \in DOMAIN lastStatus THEN lastStatus[s] ELSE "online"]
    /\ listed' = others

\* A pass begins.  The echoes of the previous one were delivered long ago, but
\* the first pass of a process comes a second after its listeners.
StartPass(s) ==
    /\ sampling = IdleSampler /\ listed = << >> /\ samples < mode.samples /\ Settled
    /\ Attached("health") \/ polls["health"] = 0
    /\ (lastStatus # << >> /\ Attached("health")) => ~Waiting(feed, "health")
    /\ s \in DOMAIN apps
    /\ samples' = samples + 1
    /\ Looks(s, apps[s].status, [t \in DOMAIN apps \ {s} |-> None])
    /\ UNCHANGED <<left, openIncidents, recent, feed, notified, told, lines>>

LookNext(s) ==
    /\ sampling = IdleSampler /\ s \in DOMAIN listed
    /\ Looks(s, IF listed[s] = None THEN apps[s].status ELSE listed[s], Without(listed, {s}))
    /\ UNCHANGED <<left, samples, openIncidents, recent, feed, notified, told, lines>>

Incident(s, severity) == [id |-> samples, svc |-> s, severity |-> severity, state |-> "open"]

Emits(message) ==
    \/ feed' = (IF Persists THEN Emitted(feed, message) ELSE feed) /\ UNCHANGED left
    \/ Persists /\ Fault("emit") /\ feed' = feed

Shortened(list) == IF Len(list) > MaxRecent THEN SubSeq(list, 1, MaxRecent) ELSE list

Opens(s) ==
    LET incident == Incident(s, IF sampling.to = "offline" THEN "P2" ELSE "P3")
    IN  openIncidents' = With(openIncidents, s, incident) /\ Emits(incident) /\ UNCHANGED recent

Closes(s) ==
    IF s \notin DOMAIN openIncidents THEN UNCHANGED <<left, openIncidents, recent, feed>>
    ELSE LET closed == [openIncidents[s] EXCEPT !.state = "closed"]
         IN  /\ openIncidents' = Without(openIncidents, {s})
             /\ recent' = Shortened(<<closed>> \o recent) /\ Emits(closed)

\* handleTransition(): from degraded to offline is none.
Transition ==
    /\ sampling.at = "snapshot" /\ sampling' = IdleSampler
    /\ CASE sampling.from = "online" /\ sampling.to # "online" -> Opens(sampling.svc)
         [] sampling.from # "online" /\ sampling.to = "online" -> Closes(sampling.svc)
         [] OTHER -> UNCHANGED <<left, openIncidents, recent, feed>>
    /\ UNCHANGED <<listed, samples, lastStatus, notified, told, lines>>

Acks(p) ==
    \/ feed' = Acknowledged(feed, p) /\ UNCHANGED left
    \/ Fault("ack") /\ feed' = Redelivered(feed, p)

\* applyIncident(): whatever the service holds open, by name and not by incident.
ApplyIncident ==
    /\ Attached("health") /\ Waiting(feed, "health")
    /\ LET m == Delivered(feed, "health")
           again == {i \in DOMAIN recent : recent[i].id = m.id /\ recent[i].svc = m.svc}
       IN  \/ /\ m.state = "open"
              /\ openIncidents' = With(openIncidents, m.svc, m) /\ UNCHANGED recent
           \/ /\ m.state = "closed"
              /\ openIncidents' = Without(openIncidents, {m.svc})
              /\ recent' = IF again = {} THEN Shortened(<<m>> \o recent)
                           ELSE [recent EXCEPT ![CHOOSE i \in again : \A j \in again : i <= j] = m]
    /\ Acks("health")
    /\ UNCHANGED <<listed, samples, lastStatus, sampling, notified, told, lines>>

Key(m) == <<m.svc, m.id, m.state>>

\* handleIncident(): a message is acknowledged also when the mail was refused.
Alert ==
    /\ Attached("alerts") /\ Waiting(feed, "alerts")
    /\ LET m == Delivered(feed, "alerts")
           worth == m.severity = "P2" /\ Key(m) \notin notified
       IN  \/ /\ ~worth /\ Acks("alerts")
              /\ UNCHANGED <<notified, told>>
           \/ /\ worth /\ Acks("alerts")
              /\ notified' = notified \cup {Key(m)}
              /\ told' = Counted(told, Key(m))
           \/ /\ worth /\ Fault("publish") /\ feed' = Acknowledged(feed, "alerts")
              /\ UNCHANGED <<notified, told>>
    /\ UNCHANGED <<listed, samples, lastStatus, openIncidents, recent, sampling, lines>>

\* ingest() saves a line, then the message is acknowledged.
Ingest ==
    /\ Attached("logs") /\ Waiting(feed, "logs")
    /\ lines' = Counted(lines, Key(Delivered(feed, "logs")))
    /\ Acks("logs")
    /\ UNCHANGED <<listed, samples, lastStatus, openIncidents, recent, sampling, notified, told>>

HealthStep ==
    \/ \E s \in Services : StartPass(s) \/ LookNext(s)
    \/ Transition \/ ApplyIncident \/ Alert \/ Ingest

HealthFairness ==
    /\ WF_monitored(ApplyIncident) /\ WF_monitored(Transition)
    /\ WF_monitored(Alert) /\ WF_monitored(Ingest)

Quiet == sampling = IdleSampler /\ Attached("health") /\ ~Waiting(feed, "health")

NoFault(kind) == mode.faults[kind] = 0
FirstLife == left["restart"] = mode.faults["restart"]

\* A service last seen unwell has an incident open, over restarts too: the first
\* pass of a process opens one while older events are still replayed, and the
\* close of an older incident among them closes by service, but the echo of the
\* new one comes last (applyIncident(), sample()).  Only an event dropped, or
\* delivered twice after a restart, defeats it.
UnwellIsReported ==
    (Quiet /\ NoFault("emit") /\ (NoFault("ack") \/ FirstLife)) =>
      \A s \in DOMAIN lastStatus : lastStatus[s] # "online" => s \in DOMAIN openIncidents

LoggedAnew == \E k \in DOMAIN lines : lines[k] > 1

AlertedAnew == \E k \in DOMAIN told : told[k] > 1

\* Both listeners delete their consumer at every start, and each says that what
\* the stream holds does not come again: "a restart never re-floods the table
\* with the full stream history" (logs-ingest.listener.ts), "so we don't replay
\* the entire history of incidents" (incident-alert.listener.ts).  Nothing but
\* the restart repeats an event here, and one of them at least is right.
OneHistoryIsNotReplayed == ~LoggedAnew \/ ~AlertedAnew

\* An outage in the stream is told in the end, although the bridge may bind long
\* after the event, lose an acknowledgement or be restarted before it, unless
\* the bus refused the mail (handleIncident()).  Of one that was opened before
\* the bridge bound this is what the code does and not what bootstrap() says.
EveryOutageTold ==
    \A s \in Services, n \in 1 .. MaxSamples :
      (NoFault("publish") /\ "alerts" \in mode.projections) =>
        ((\E i \in DOMAIN feed.kept : Key(feed.kept[i]) = <<s, n, "open">> /\ feed.kept[i].severity = "P2")
           ~> (<<s, n, "open">> \in DOMAIN told))

-----------------------------------------------------------------------------
(***************************************************************************)
(* The hourly buckets of a service on the health page (health.service.ts): *)
(* its errors, its worst latency and its wellness over a day, each in a    *)
(* ring that is advanced by the event that is written into it.             *)
(***************************************************************************)
CONSTANTS
    Buckets,        \* BUCKETS_24H
    LastHour,       \* bound on the clock
    MaxEvents,      \* bound on the events applied
    MaxErrors,      \* bound on the errors of a window
    Figures         \* latencies and scores

\* A ring has buckets, and null is neither a number nor a ring.
ASSUME RingsAssumption ==
    /\ Buckets \in Nat \ {0} /\ LastHour \in Nat /\ Figures \subseteq Nat
    /\ None \notin Nat
    /\ None \notin [start : Nat, cursor : Nat, buckets : [0 .. Buckets - 1 -> Nat]]

VARIABLES
    hour,           \* external: now
    window,         \* samples of the service since its last flush: [errors, worst]
    errors, latency, wellness,  \* the rings, or None before their first event
    applied,        \* events applied so far
    happened        \* history: kind -> what the events of each hour come to, or None

rings == <<hour, window, errors, latency, wellness, applied, happened>>

Ring(at, filled) == [start |-> at, cursor |-> 0, buckets |-> [i \in 0 .. Buckets - 1 |-> filled]]

\* Mutant: the hours skipped keep what they held a day ago.
AdvancedInPlace(ring, at) ==
    LET hours == at - ring.start
    IN  IF hours <= 0 THEN ring
        ELSE [start |-> at, cursor |-> (ring.cursor + hours) % Buckets,
              buckets |-> [ring.buckets EXCEPT ![(ring.cursor + hours) % Buckets] = 0]]

\* advance() and advanceErrors(): the hours gone by are emptied, a whole turn at
\* most; an event of an hour already left behind counts in the current one.
Advanced(ring, at) ==
    LET hours == IF at - ring.start > Buckets THEN Buckets ELSE at - ring.start
        passed == {(ring.cursor + i) % Buckets : i \in 1 .. hours}
    IN  IF hours <= 0 THEN ring
        ELSE [start |-> at, cursor |-> (ring.cursor + hours) % Buckets,
              buckets |-> [i \in DOMAIN ring.buckets |-> IF i \in passed THEN 0 ELSE ring.buckets[i]]]

\* The ring an event of this hour is written into, its first event making it.
Current(ring, at, filled) == Advanced(IF ring = None THEN Ring(at, filled) ELSE ring, at)

Added(ring, n) == [ring EXCEPT !.buckets[ring.cursor] = @ + n]

Raised(ring, n) == [ring EXCEPT !.buckets[ring.cursor] = Max({@, n})]

NoSamples == [errors |-> 0, worst |-> 0]

RingsInit ==
    /\ hour = 0 /\ window = NoSamples /\ applied = 0
    /\ happened = [kind \in {"errors", "latency", "wellness"} |-> [h \in 0 .. LastHour |-> None]]
    /\ errors = None /\ latency = None /\ wellness = None

HourPasses ==
    /\ "metrics" \in mode.does /\ hour < LastHour
    /\ hour' = hour + 1 /\ UNCHANGED left
    /\ UNCHANGED <<window, errors, latency, wellness, applied, happened>>

\* record() of the service's MetricsRecorder.
Record(ms, isError) ==
    /\ "metrics" \in mode.does /\ window.errors < MaxErrors
    /\ window' = [errors |-> window.errors + (IF isError THEN 1 ELSE 0),
                   worst |-> Max({window.worst, ms})]
    /\ UNCHANGED <<left, hour, errors, latency, wellness, applied, happened>>

\* An hour after one more event: errors add up, of figures the highest counts.
Summed(was, n) == IF was = None THEN n ELSE was + n

Highest(was, n) == IF was = None THEN n ELSE Max({was, n})

\* applyMetrics(), the windows in their order: what failed, if anything did, and
\* the worst latency.
ApplyMetrics(snapshot) ==
    /\ errors' = IF snapshot.errors = 0 THEN errors ELSE Added(Current(errors, hour, 0), snapshot.errors)
    /\ latency' = IF snapshot.worst = 0 THEN latency
                     ELSE Raised(Current(latency, hour, 0), snapshot.worst)
    /\ applied' = applied + (IF snapshot.errors = 0 THEN 0 ELSE 1) + (IF snapshot.worst = 0 THEN 0 ELSE 1)
    /\ happened' = [happened EXCEPT
           !["errors"][hour] = IF snapshot.errors = 0 THEN @ ELSE Summed(@, snapshot.errors),
           !["latency"][hour] = IF snapshot.worst = 0 THEN @ ELSE Highest(@, snapshot.worst)]

\* flush(): the window is emptied before it is published, and a publication that
\* fails loses it.
Flush ==
    /\ "metrics" \in mode.does /\ window # NoSamples /\ applied < MaxEvents
    /\ window' = NoSamples
    /\ \/ ApplyMetrics(window) /\ UNCHANGED left
       \/ Fault("publish") /\ UNCHANGED <<errors, latency, applied, happened>>
    /\ UNCHANGED <<hour, wellness>>

\* applySnapshot(), from a pass of the sampler or a read of the page.
ApplySnapshot(score) ==
    /\ "metrics" \in mode.does /\ applied < MaxEvents
    /\ wellness' = Raised(Current(wellness, hour, 100), score)
    /\ applied' = applied + 1
    /\ happened' = [happened EXCEPT !["wellness"][hour] = Highest(@, score)]
    /\ UNCHANGED <<left, hour, window, errors, latency>>

RingsStep ==
    \/ HourPasses \/ Flush
    \/ \E figure \in Figures : ApplySnapshot(figure) \/ \E isError \in BOOLEAN : Record(figure, isError)

\* toRow(): the buckets, oldest first.
Ordered(ring) == [i \in 1 .. Buckets |-> ring.buckets[(ring.cursor + i) % Buckets]]

Eventful(kind, at) == at \in 0 .. hour /\ happened[kind][at] # None

Told(kind, at) == IF Eventful(kind, at) THEN happened[kind][at] ELSE 0

\* The hour of a bucket of a row.
HourOf(ring, i) == ring.start - Buckets + i

\* Events in order, each bucket of a row holds exactly what happened in its hour:
\* the sum of the errors, the worst latency, the best score; what is older than
\* the ring is gone, and until the hour of the first score all is well
\* (advance(), advanceErrors(), newRing(), toRow()).
RingsTellTheirHours ==
    \A i \in 1 .. Buckets :
      /\ errors # None => Ordered(errors)[i] = Told("errors", HourOf(errors, i))
      /\ latency # None => Ordered(latency)[i] = Told("latency", HourOf(latency, i))
      /\ wellness # None =>
           LET at == HourOf(wellness, i)
           IN  Ordered(wellness)[i] =
                 IF \E h \in 0 .. at - 1 : Eventful("wellness", h) THEN Told("wellness", at)
                 ELSE Max({100, Told("wellness", at)})

-----------------------------------------------------------------------------
(* The service as a whole. *)

registryOnly == <<running, registry, apps, history, probes, asked>>

vars == <<mode, left, client, bound, registered, monitored, rings>>

FaultKinds == {"flap", "lost", "gone", "ack", "emit", "publish", "restart"}

\* Faults are counted, and these listeners are among those of the service.
ASSUME PlatformAssumption ==
    /\ \A m \in Modes : m.faults \in [FaultKinds -> Nat]
    /\ {"registry", "health", "alerts", "logs"} \subseteq Projections

Init ==
    /\ mode \in Modes /\ left = mode.faults
    /\ ClientInit /\ RegistryInit /\ HealthInit /\ RingsInit

\* The process starts anew: its memory is gone, the streams and the tables stay.
Restart ==
    /\ Fault("restart") /\ ClientRestarts /\ RegistryRestarts /\ HealthRestarts
    /\ UNCHANGED rings

Next ==
    \/ /\ Flap \/ ClientStep \/ \E p \in Projections : Poll(p)
       /\ UNCHANGED <<registered, monitored, rings>>
    \/ RegistryStep /\ UNCHANGED <<monitored, rings>>
    \/ (StartHealth \/ StartAlerts \/ StartLogs) /\ UNCHANGED <<registered, rings>>
    \/ HealthStep /\ UNCHANGED <<mode, client, bound, registryOnly, rings>>
    \/ RingsStep /\ UNCHANGED <<mode, client, bound, registered, monitored>>
    \/ Restart

Fairness ==
    /\ ClientFairness /\ RegistryFairness /\ HealthFairness
    /\ WF_attached(StartHealth) /\ WF_attached(StartAlerts) /\ WF_attached(StartLogs)

Spec == Init /\ [][Next]_vars /\ Fairness
=============================================================================
