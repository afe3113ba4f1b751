------------------------------ MODULE Requests ------------------------------
(***************************************************************************)
(* What the modules of the administration side share: the requests in      *)
(* flight.  A handler is one action up to its first await and one per      *)
(* await after it; `req` says at which await each request is and what it   *)
(* has read.  `mode` is chosen by Init and says what a behaviour explores. *)
(***************************************************************************)
EXTENDS Tables

CONSTANTS Handlers, Modes

VARIABLES mode, req

Idle == [at |-> "idle"]

MayStart(h) == h \in mode.handlers /\ req[h].at = "idle"

At(h, await) == req[h].at = await

Awaits(h, r) == req' = [req EXCEPT ![h] = r] /\ UNCHANGED mode

Ends(h) == Awaits(h, Idle)

\* A generated identifier: neither stored nor about to be.
Unused(id, table) ==
    /\ id \notin DOMAIN table
    /\ \A g \in Handlers : "id" \in DOMAIN req[g] => req[g].id # id
    /\ \A g \in Handlers : "rows" \in DOMAIN req[g] => id \notin DOMAIN req[g].rows

\* One request at a time.
Orderly == Cardinality(mode.handlers) = 1

\* The process may stop, or be deployed anew, while requests are in flight.
Interrupted == "crash" \in mode.faults \/ "redeploy" \in mode.calls
=============================================================================
