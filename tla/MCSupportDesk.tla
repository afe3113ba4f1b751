--------------------------- MODULE MCSupportDesk ----------------------------
EXTENDS SupportDesk

MCRequests ==
    [p1 |-> [source |-> "yekoli", complete |-> TRUE], p2 |-> [source |-> "yekoli", complete |-> FALSE]]

Promise(response, resolution) == [response |-> response, resolution |-> resolution]

Base == [handlers |-> {1}, ids |-> {1}, prompt |-> TRUE, log |-> 0, last |-> 0, faults |-> 0, leaves |-> FALSE,
         requests |-> {}, managed |-> {}, policies |-> [P1 |-> Promise(10, 10)], created |-> {}, fresh |-> {"P1"},
         assignees |-> {Unassigned}, assigning |-> FALSE, visibilities |-> {}, statuses |-> {},
         reasons |-> {None}, codes |-> {None}, notes |-> {None}, priorities |-> {}]

\* A ticket that pauses, resumes and is answered, with sweeps in time.
Timing ==
    [Base EXCEPT !.log = 3, !.last = 12, !.created = {"open"}, !.visibilities = {"client"},
                 !.statuses = {"open", "pending"}, !.reasons = {None, "vendor"}]

\* One that is resolved and reopened.
Reopening ==
    [Base EXCEPT !.log = 4, !.last = 4, !.created = {"open"}, !.statuses = {"open", "pending", "resolved"},
                 !.reasons = {"client"}, !.codes = {"corrige"}]

\* Everything a request may say, one at a time.
Editing ==
    [Base EXCEPT !.log = 3, !.ids = {1, 2}, !.created = {"open", "pending", "closed"}, !.visibilities = {"internal"},
                 !.statuses = Statuses, !.reasons = {None, "vendor"}, !.codes = Codes \cup {None},
                 !.notes = {None, TRUE, FALSE}, !.assigning = TRUE, !.assignees = {Unassigned, "m1"},
                 !.priorities = {"P2"}]

\* The same by two people at once.
Overlapping ==
    [Base EXCEPT !.handlers = {1, 2}, !.ids = {1, 2}, !.log = 3, !.created = {"open"}, !.visibilities = {"client"},
                 !.statuses = {"pending", "closed"}, !.codes = {"corrige"}, !.priorities = {"P2"}]

\* Sweeps that take long, fail, or are cut short.
SlowSweeps ==
    [Base EXCEPT !.prompt = FALSE, !.log = 1, !.last = 6, !.faults = 1, !.leaves = TRUE, !.created = {"open"},
                 !.assignees = {"m1"}, !.policies = [P1 |-> Promise(None, 5)]]

\* Targets that change under a running clock.
Retargeting ==
    [Base EXCEPT !.log = 2, !.last = 6, !.created = {"open"}, !.managed = {"P1"},
                 !.policies = [P1 |-> Promise(None, 5)]]

\* Requests of the applications.
Ingesting == [Base EXCEPT !.ids = {1, 2, 3}, !.requests = {"p1", "p2"}, !.faults = 2]

MCModes == {Timing, Reopening, Editing, Overlapping, SlowSweeps, Retargeting, Ingesting}
=============================================================================
