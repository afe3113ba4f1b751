------------------------------ MODULE BusClient ------------------------------
(***************************************************************************)
(* How the service reaches the platform's bus (nola-client.service.ts and  *)
(* the vendored client): a burst of announces to obtain a registration, a  *)
(* timer that keeps trying after it, one attempt at a runtime connection,  *)
(* and the projections that poll for that connection and give up.          *)
(*                                                                         *)
(* `mode` says what a behaviour explores, `left` how many faults of each   *)
(* kind may still happen in it.                                            *)
(***************************************************************************)
EXTENDS Tables

(***************************************************************************)
(* A JetStream stream as the SDK uses it (EventBus of the vendored SDK):   *)
(* the messages it keeps and, for each durable consumer, those it has      *)
(* still to deliver.  A consumer hands one message at a time to its        *)
(* handler and acknowledges it afterwards; what is not acknowledged comes  *)
(* again, behind what was sent meanwhile.                                  *)
(***************************************************************************)
Stream(consumers) == [kept |-> << >>, due |-> [c \in consumers |-> << >>]]

\* emit() answered true.
Emitted(stream, message) ==
    [kept |-> Append(stream.kept, message),
     due  |-> [c \in DOMAIN stream.due |-> Append(stream.due[c], message)]]

Waiting(stream, consumer) == stream.due[consumer] # << >>

Delivered(stream, consumer) == Head(stream.due[consumer])

Acknowledged(stream, consumer) == [stream EXCEPT !.due[consumer] = Tail(@)]

\* The handler threw, or its acknowledgement was lost.
Redelivered(stream, consumer) ==
    [stream EXCEPT !.due[consumer] = Append(Tail(@), Head(@))]

\* Mutant: the consumer starts from the last message, DeliverPolicy.Last.
RecreatedFromLast(stream, consumer) ==
    [stream EXCEPT !.due[consumer] =
        IF stream.kept = << >> THEN << >> ELSE <<stream.kept[Len(stream.kept)]>>]

\* The durable consumer is deleted and consume() creates it anew, with
\* DeliverPolicy.All.
Recreated(stream, consumer) == [stream EXCEPT !.due[consumer] = stream.kept]

\* max_age: retention is hours or days, so nothing expires undelivered.
MayExpire(stream) == stream.kept # << >> /\ \A c \in DOMAIN stream.due : ~Waiting(stream, c)

Expired(stream) == [stream EXCEPT !.kept = Tail(@)]

-----------------------------------------------------------------------------
CONSTANTS
    Modes,
    Projections,    \* the listeners that wait for the connection
    Slots,          \* attempts that may be in flight, "boot" among them
    Burst,          \* Len(PHASE1_BACKOFF_MS)
    Polls           \* tries of a projection before it gives up

VARIABLES
    mode, left,
    upstream,       \* external: the bus and the identity service answer
    known,          \* external: the realm of the service exists
    start,          \* connectAsync(): "burst", "connect", "done"
    tries, timer,
    attempts,       \* slot -> "idle", "announce", "stop"
    registration,   \* None, "skipped" (no credentials) or "usable"
    ready,          \* the runtime client is there
    polls,          \* projection -> polls it has left
    attached        \* the projections that are bound

client == <<upstream, known, start, tries, timer, attempts, registration, ready>>
bound == <<polls, attached>>

Fault(kind) == left[kind] > 0 /\ left' = [left EXCEPT ![kind] = @ - 1]

Two == mode.creds = "both"

Phase == IF mode.creds = "connected" THEN "done" ELSE IF Two THEN "burst" ELSE "connect"
AllPolls == [p \in Projections |-> IF p \in mode.projections THEN Polls ELSE 0]
Idle == [s \in Slots |-> "idle"]

ClientInit ==
    /\ upstream = mode.upstream /\ known \in (IF mode.creds = "connected" THEN {TRUE} ELSE BOOLEAN)
    /\ start = Phase /\ tries = 0 /\ timer = FALSE /\ attempts = Idle
    /\ registration = None /\ ready = (mode.creds = "connected")
    /\ polls = AllPolls /\ attached = {}

\* The process ends, onModuleDestroy() included, and another one starts.
ClientRestarts ==
    /\ start' = Phase /\ tries' = 0 /\ timer' = FALSE /\ attempts' = Idle
    /\ registration' = None /\ ready' = (mode.creds = "connected")
    /\ polls' = AllPolls /\ attached' = {}
    /\ UNCHANGED <<mode, upstream, known>>

Usable == registration = "usable"

Flap ==
    /\ Fault("flap") /\ upstream' = ~upstream
    /\ UNCHANGED <<mode, known, start, tries, timer, attempts, registration, ready, bound>>

\* The next attempt of the burst, or one of the timer.
MayAttempt(s) ==
    /\ attempts[s] = "idle"
    /\ IF s = "boot" THEN start = "burst" /\ tries < Burst ELSE timer
    /\ mode.overlap \/ \A t \in Slots : attempts[t] = "idle"

Attempt(s) ==
    /\ MayAttempt(s)
    /\ attempts' = [attempts EXCEPT ![s] = "announce"]
    /\ tries' = IF s = "boot" THEN tries + 1 ELSE tries
    /\ UNCHANGED <<mode, left, upstream, known, start, timer, registration, ready, bound>>

\* What bootstrapAndRegister() leaves behind.  An account that exists keeps the
\* answer; a new one comes with runtime credentials of its own, and when the
\* connection with them fails the fallback overwrites the answer.
Announced(exists) == IF exists THEN {"usable"} ELSE {"usable", "skipped"}

Announce(s) ==
    /\ attempts[s] = "announce"
    /\ attempts' = [attempts EXCEPT ![s] = "stop"]
    /\ \/ upstream /\ known' = TRUE /\ registration' \in Announced(known) /\ UNCHANGED left
       \/ ~upstream /\ UNCHANGED <<left, known, registration>>
       \/ Fault("lost") /\ known' \in {known, known \/ upstream} /\ UNCHANGED registration
    /\ UNCHANGED <<mode, upstream, start, tries, timer, ready, bound>>

\* The announcing client is stopped; with a usable registration the timer is
\* cleared, and a burst that ends without one arms it.
Stop(s) ==
    /\ attempts[s] = "stop"
    /\ attempts' = [attempts EXCEPT ![s] = "idle"]
    /\ LET over == s = "boot" /\ (Usable \/ tries = Burst)
       IN  /\ start' = IF over THEN "connect" ELSE start
           /\ timer' = (~Usable /\ (timer \/ over))
    /\ UNCHANGED <<mode, left, upstream, known, tries, registration, ready, bound>>

\* The runtime connection, tried once.  Without credentials of its own the
\* service announces on it, and keeps what was provisioned if it fails.
Connect ==
    /\ start = "connect" /\ start' = "done"
    /\ \E ok \in BOOLEAN,
          answer \in {None} \cup (IF mode.creds = "bootstrap" THEN Announced(known) ELSE {}) :
         /\ (ok \/ answer # None) => upstream
         /\ (ok /\ mode.creds = "bootstrap") => answer # None
         /\ ready' = ok /\ known' = (known \/ answer # None)
         /\ registration' = IF registration = None /\ (ok \/ answer = "usable") THEN answer
                               ELSE registration
    /\ UNCHANGED <<mode, left, upstream, tries, timer, attempts, bound>>

ClientStep ==
    \/ \E s \in Slots : Attempt(s) \/ Announce(s) \/ Stop(s)
    \/ Connect

\* A projection polls; it binds once the connection is there, or gives up.
Poll(p) ==
    /\ polls[p] > 0 /\ p \notin attached /\ ~ready
    /\ polls' = [polls EXCEPT ![p] = @ - 1]
    /\ UNCHANGED <<mode, left, client, attached>>

Binds(p) ==
    /\ polls[p] > 0 /\ p \notin attached /\ ready
    /\ attached' = attached \cup {p}
    /\ UNCHANGED <<mode, left, client, polls>>

Attached(p) == p \in attached

ClientFairness ==
    /\ \A s \in Slots : WF_<<client, left>>(Attempt(s)) /\ WF_<<client, left>>(Announce(s)) /\ WF_<<client, left>>(Stop(s))
    /\ WF_<<client, left>>(Connect)
=============================================================================
