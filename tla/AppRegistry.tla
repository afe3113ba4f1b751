---------------------------- MODULE AppRegistry ----------------------------
(***************************************************************************)
(* The projection of the applications on the bus (apps.service.ts): built  *)
(* from the registry stream, which is replayed at every start, softened by *)
(* an HTTP probe and aged by a timer.  Ages are counted in checks of that  *)
(* timer.                                                                  *)
(***************************************************************************)
EXTENDS BusClient

CONSTANTS
    Services,
    LateAfter,      \* STALENESS_DEGRADED_MS
    GoneAfter,      \* STALENESS_OFFLINE_MS
    MaxKept,        \* bound on the heartbeats and arrivals a stream keeps
    MaxHistory      \* MAX_MANIFEST_HISTORY

VARIABLES
    running,        \* external: service -> the version that runs, or None
    registry,       \* the stream
    apps,           \* service -> [status, age, http]
    history,        \* service -> versions whose manifest was seen
    probes,         \* probes in flight: service -> their record is still the one kept
    listed,         \* records handed to a pass of the sampler: None, or the status
                    \* frozen in a record that was replaced since (listApps())
    asked           \* the discover message: still to be sent, and the services it is on its way to

registered == <<running, registry, apps, history, probes, listed, asked>>

Asked(due, of) == [due |-> due, of |-> of]

Oldest == GoneAfter + 1
Older(r) == [r EXCEPT !.age = IF @ = Oldest THEN @ ELSE @ + 1]
OlderAll(messages) == [i \in DOMAIN messages |-> Older(messages[i])]

RegistryInit ==
    /\ running = [s \in Services |-> None]
    /\ registry = Stream({"registry"})
    /\ apps = << >> /\ history = << >> /\ probes = << >> /\ listed = << >>
    /\ asked = Asked(FALSE, {})

RegistryRestarts ==
    /\ apps' = << >> /\ history' = << >> /\ probes' = << >> /\ listed' = << >>
    /\ asked' = Asked(FALSE, {})
    /\ UNCHANGED <<running, registry>>

Message(kind, s) == [kind |-> kind, svc |-> s, version |-> running'[s], age |-> 0]

Sends(kind, s) == registry' = Emitted(registry, Message(kind, s))

Room == Len(registry.kept) < MaxKept

\* start() and stop() of a service, its heartbeat, and a crash.
Arrives(s, version) ==
    /\ running[s] = None /\ Room
    /\ running' = [running EXCEPT ![s] = version] /\ Sends("register", s)
    /\ UNCHANGED <<mode, left, client, bound, apps, history, probes, listed, asked>>

Beats(s) ==
    /\ running[s] # None /\ Room
    /\ running' = running /\ Sends("heartbeat", s)
    /\ UNCHANGED <<mode, left, client, bound, apps, history, probes, listed, asked>>

Leaves(s) ==
    /\ running[s] # None /\ Fault("gone")
    /\ running' = [running EXCEPT ![s] = None] /\ Sends("deregister", s)
    /\ UNCHANGED <<mode, client, bound, apps, history, probes, listed, asked>>

Crashes(s) ==
    /\ running[s] # None /\ Fault("gone")
    /\ running' = [running EXCEPT ![s] = None]
    /\ UNCHANGED <<mode, client, bound, registry, apps, history, probes, listed, asked>>

\* startProjection(): the consumer is recreated, and in a moment everybody is
\* asked to announce again.
StartProjection ==
    /\ Binds("registry")
    /\ registry' = Recreated(registry, "registry") /\ asked' = Asked(TRUE, {})
    /\ UNCHANGED <<running, apps, history, probes, listed>>

BroadcastDiscover ==
    /\ asked.due
    /\ \/ asked' = Asked(FALSE, {s \in Services : running[s] # None}) /\ UNCHANGED left
       \/ Fault("lost") /\ asked' = Asked(FALSE, {})
    /\ UNCHANGED <<mode, client, bound, running, registry, apps, history, probes, listed>>

\* listenForDiscover() of a service: it registers again.
Answers(s) ==
    /\ s \in asked.of
    /\ asked' = Asked(asked.due, asked.of \ {s}) /\ running' = running
    /\ IF running[s] # None THEN Sends("register", s) ELSE UNCHANGED registry
    /\ UNCHANGED <<mode, left, client, bound, apps, history, probes, listed>>

Recorded(s, version) ==
    LET seen == IF s \in DOMAIN history THEN history[s] ELSE << >>
        more == Append(seen, version)
    IN  IF seen # << >> /\ seen[Len(seen)] = version THEN history
        ELSE With(history, s, IF Len(more) > MaxHistory THEN Tail(more) ELSE more)

\* The record is replaced: a probe in flight will write to the old one, a pass
\* of the sampler will read it.
HandleRegister(m) ==
    /\ apps' = With(apps, m.svc, [status |-> "online", age |-> 0,
                                  http |-> IF m.svc \in DOMAIN apps THEN apps[m.svc].http ELSE None])
    /\ history' = Recorded(m.svc, m.version)
    /\ probes' = [s \in DOMAIN probes |-> probes[s] /\ s # m.svc]
    /\ listed' = [s \in DOMAIN listed |-> IF s = m.svc /\ listed[s] = None THEN apps[s].status
                                             ELSE listed[s]]

\* A heartbeat counts from when it was sent.
HandleHeartbeat(m) ==
    /\ apps' = IF m.svc \in DOMAIN apps
               THEN [apps EXCEPT ![m.svc].status = "online", ![m.svc].age = m.age] ELSE apps
    /\ UNCHANGED <<history, probes, listed>>

HandleDeregister(m) ==
    /\ apps' = IF m.svc \in DOMAIN apps THEN [apps EXCEPT ![m.svc].status = "offline"] ELSE apps
    /\ UNCHANGED <<history, probes, listed>>

DeliverRegistry ==
    /\ Attached("registry") /\ Waiting(registry, "registry")
    /\ LET m == Delivered(registry, "registry")
       IN  \/ m.kind = "register" /\ HandleRegister(m)
           \/ m.kind = "heartbeat" /\ HandleHeartbeat(m)
           \/ m.kind = "deregister" /\ HandleDeregister(m)
    /\ \/ registry' = Acknowledged(registry, "registry") /\ UNCHANGED left
       \/ Fault("ack") /\ registry' = Redelivered(registry, "registry")
    /\ UNCHANGED <<mode, client, bound, running, asked>>

ExpireRegistry ==
    /\ "expires" \in mode.does /\ MayExpire(registry) /\ registry' = Expired(registry)
    /\ UNCHANGED <<mode, left, client, bound, running, apps, history, probes, listed, asked>>

\* Mutant: a service that answers HTTP is left as it is.
StaleUnlessReachable(app) ==
    CASE app.status = "offline" \/ app.http = TRUE -> app
      [] app.age > GoneAfter -> [app EXCEPT !.status = "offline"]
      [] app.age > LateAfter -> [app EXCEPT !.status = "degraded"]
      [] OTHER -> app

Stale(app) ==
    CASE app.status = "offline" -> app
      [] app.age > GoneAfter -> [app EXCEPT !.status = IF app.http = TRUE THEN "degraded" ELSE "offline"]
      [] app.age > LateAfter -> [app EXCEPT !.status = "degraded"]
      [] OTHER -> app

\* A minute is long for the bus, where the mode says so.
Settled == mode.prompt => (asked = Asked(FALSE, {}) /\ ~Waiting(registry, "registry"))

\* Time passes, and the timer fires: checkStaleness().
CheckStaleness ==
    /\ Settled
    /\ apps' = [s \in DOMAIN apps |-> IF Attached("registry") THEN Stale(Older(apps[s]))
                                         ELSE Older(apps[s])]
    /\ registry' = [kept |-> OlderAll(registry.kept),
                    due  |-> [c \in DOMAIN registry.due |-> OlderAll(registry.due[c])]]
    /\ UNCHANGED <<mode, left, client, bound, running, history, probes, listed, asked>>

Probe(s) ==
    /\ s \in mode.probed \cap DOMAIN apps /\ s \notin DOMAIN probes
    /\ probes' = With(probes, s, TRUE)
    /\ UNCHANGED <<mode, left, client, bound, running, registry, apps, history, listed, asked>>

Probed(s) ==
    /\ s \in DOMAIN probes /\ probes' = Without(probes, {s})
    /\ apps' \in {IF ~probes[s] THEN apps
                  ELSE [apps EXCEPT ![s].http = ok,
                                    ![s].status = IF ok /\ @ = "offline" THEN "degraded" ELSE @]
                    : ok \in BOOLEAN}
    /\ UNCHANGED <<mode, left, client, bound, running, registry, history, listed, asked>>

RegistryStep ==
    \/ StartProjection \/ BroadcastDiscover \/ DeliverRegistry \/ ExpireRegistry \/ CheckStaleness
    \/ \E s \in Services :
         \/ \E version \in mode.versions : Arrives(s, version)
         \/ "beats" \in mode.does /\ Beats(s)
         \/ "leaves" \in mode.does /\ Leaves(s)
         \/ Crashes(s) \/ Answers(s) \/ Probe(s) \/ Probed(s)

RegistryFairness ==
    /\ WF_registered(StartProjection) /\ WF_registered(BroadcastDiscover)
    /\ WF_registered(DeliverRegistry) /\ WF_registered(CheckStaleness)
    /\ \A s \in Services : WF_registered(Answers(s))

\* A service that is gone for good is not shown online forever, however it went,
\* although a replay shows it online again and a probe may still reach its host
\* (handleRegister(), checkStaleness(), probeOne()).  One that stays up is listed
\* in the end, also by a process that started after the stream had forgotten its
\* registration, unless the one message that asks for it again is lost
\* (broadcastDiscover()).
RegistryTellsWhoIsThere ==
    \A s \in Services :
      /\ <>[](running[s] = None) => <>[](s \in DOMAIN apps => apps[s].status # "online")
      /\ (left["lost"] = 0 /\ "registry" \in mode.projections /\ ready) /\ <>[](running[s] # None)
            => <>[](s \in DOMAIN apps)
=============================================================================
