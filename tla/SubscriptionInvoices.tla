------------------------ MODULE SubscriptionInvoices ------------------------
(***************************************************************************)
(* Invoices of the tenants' subscriptions: invoices.service.ts, fed by the *)
(* payment events of nola-billing (payment-events.listener.ts) and by the  *)
(* daily run (invoices-upcoming.scheduler.ts), while operators correct     *)
(* rows by hand.  Events are delivered again until they are acknowledged;  *)
(* the process may stop between any two awaits.                            *)
(***************************************************************************)
EXTENDS Engagements

CONSTANTS
    Payments,       \* id -> [invoice, product, subject]: what an event says
    Subscriptions,  \* id -> [product, renews]: nola-billing's active ones
    Products,       \* the codes a product can be registered under
    Consumers,      \* the subjects, each with a durable consumer of its own
    Scheduler,
    Lead,           \* days between an upcoming invoice and its renewal: 3
    MaxDrawn        \* bound: no adjustment once that many numbers are drawn

VARIABLES
    billed,         \* invoices: id -> row
    published,      \* the payments nola-billing has announced
    stream,         \* JetStream: the payments not acknowledged
    catalogue,      \* the products with a brand
    worker,         \* consumers and scheduler -> where they await
    runs,           \* a daily run is to start
    faults          \* bounded: crashes, failures, acknowledgements lost

subscribed == <<billed, published, stream, catalogue, worker, runs, faults>>
Resting == [at |-> "rest"]
Booting == [at |-> "boot"]
Deaf == [at |-> "deaf"]

\* Where the workers are when the process starts; consumers for which nothing
\* is sent are left bound.
Started == [w \in Consumers \cup {Scheduler} |->
               IF w \in Consumers /\ mode.payments # {} THEN Booting ELSE Resting]

Works(w, r) == worker' = [worker EXCEPT ![w] = r]

BilledInvoice(subscription, due, status, payment) ==
    [subscription |-> subscription, due |-> due, status |-> status, payment |-> payment]

Elsewhere == UNCHANGED <<today, req, mode>>

-----------------------------------------------------------------------------
\* bootstrap(): a durable consumer is bound as it was left, one after the other,
\* whether or not the stream could be declared.
Bind(c) ==
    /\ worker[c] = Booting
    /\ Works(c, Resting)
    /\ UNCHANGED <<sequence, billed, published, stream, catalogue, runs, faults>> /\ Elsewhere

\* A source that does not bind takes no other with it: it stays deaf, and what
\* is sent to it in the stream, until the next start.
BindFails(c) ==
    /\ worker[c] = Booting
    /\ faults < mode.faults
    /\ faults' = faults + 1
    /\ Works(c, Deaf)
    /\ UNCHANGED <<sequence, billed, published, stream, catalogue, runs>> /\ Elsewhere

\* NATS is not there after 30 attempts, or the bus does not start.
BootFails ==
    /\ mode.payments # {}
    /\ \A c \in Consumers : worker[c] = Booting
    /\ faults < mode.faults
    /\ faults' = faults + 1
    /\ worker' = [w \in DOMAIN worker |-> IF w \in Consumers THEN Deaf ELSE worker[w]]
    /\ UNCHANGED <<sequence, billed, published, stream, catalogue, runs>> /\ Elsewhere

\* nola-billing announces a payment on one of the two subjects, of an invoice of
\* its own, of none, or of one of HQ's, which it knows once it stands.
Publish(p) ==
    /\ p \in mode.payments \ published
    /\ Payments[p].invoice \in Numbers => Payments[p].invoice \in DOMAIN billed
    /\ published' = published \cup {p}
    /\ stream' = stream \cup {p}
    /\ UNCHANGED <<sequence, billed, catalogue, worker, runs, faults>> /\ Elsewhere

\* createProduct: the brand of a product can be resolved from now on.
RegisterProduct(code) ==
    /\ mode.payments # {}
    /\ code \notin catalogue
    /\ catalogue' = catalogue \cup {code}
    /\ UNCHANGED <<sequence, billed, published, stream, worker, runs, faults>> /\ Elsewhere

\* The brand is resolved before any number is drawn; without one the handler
\* throws and the event stays in the stream.
Deliver(c, p) ==
    /\ worker[c] = Resting
    /\ p \in stream
    /\ Payments[p].subject = c
    /\ Payments[p].product \in catalogue
    /\ Works(c, [at |-> "invoice number", payment |-> p])
    /\ UNCHANGED <<sequence, billed, published, stream, catalogue, runs, faults>> /\ Elsewhere

DrawInvoiceNumber(c) ==
    /\ worker[c].at = "invoice number"
    /\ Draws("FAC")
    /\ Works(c, [at |-> "receipt number", payment |-> worker[c].payment,
                 number |-> NextNumber("FAC")])
    /\ UNCHANGED <<billed, published, stream, catalogue, runs, faults>> /\ Elsewhere

DrawReceiptNumber(c) ==
    /\ worker[c].at = "receipt number"
    /\ Draws("REC")
    /\ LET p == worker[c].payment
           id == IF Payments[p].invoice = None THEN worker[c].number ELSE Payments[p].invoice
       IN  Works(c, [at |-> "find invoice", payment |-> p, id |-> id])
    /\ UNCHANGED <<billed, published, stream, catalogue, runs, faults>> /\ Elsewhere

\* The PDF is rendered and the notification sent; then the row is looked up.
FindInvoice(c) ==
    /\ worker[c].at = "find invoice"
    /\ LET p == worker[c].payment
           id == worker[c].id
           row == IF id \in DOMAIN billed
                  THEN [billed[id] EXCEPT !.status = "paid", !.payment = p]
                  ELSE BilledInvoice(None, today, "paid", p)
       IN  Works(c, [at |-> "save", payment |-> p, id |-> id, row |-> row])
    /\ UNCHANGED <<sequence, billed, published, stream, catalogue, runs, faults>> /\ Elsewhere

SavePayment(c) ==
    /\ worker[c].at = "save"
    /\ billed' = With(billed, worker[c].id, worker[c].row)
    /\ Works(c, [at |-> "ack", payment |-> worker[c].payment])
    /\ UNCHANGED <<sequence, published, stream, catalogue, runs, faults>> /\ Elsewhere

Acknowledge(c) ==
    /\ worker[c].at = "ack"
    /\ stream' = stream \ {worker[c].payment}
    /\ Works(c, Resting)
    /\ UNCHANGED <<sequence, billed, published, catalogue, runs, faults>> /\ Elsewhere

InHand(c) == worker[c] \notin {Resting, Booting, Deaf}

\* Mutant: the listener swallows the error.
DeliveryDropped(c) ==
    /\ InHand(c)
    /\ faults < mode.faults
    /\ faults' = faults + 1
    /\ stream' = stream \ {worker[c].payment}
    /\ Works(c, Resting)
    /\ UNCHANGED <<sequence, billed, published, catalogue, runs>> /\ Elsewhere

\* An await of the handler fails, or the acknowledgement is lost: the event is
\* delivered again.
DeliveryFails(c) ==
    /\ InHand(c)
    /\ faults < mode.faults
    /\ faults' = faults + 1
    /\ Works(c, Resting)
    /\ UNCHANGED <<sequence, billed, published, stream, catalogue, runs>> /\ Elsewhere

-----------------------------------------------------------------------------
NextDay ==
    /\ mode.clock
    /\ today < LastDay
    /\ today' = today + 1
    /\ runs' = (mode.renewing # {})
    /\ UNCHANGED <<sequence, billed, published, stream, catalogue, worker, faults, req, mode>>

\* The subscriptions renewing on the day targeted, as nola-billing lists them.
RunStarts ==
    /\ runs /\ worker[Scheduler] = Resting
    /\ runs' = FALSE
    /\ Works(Scheduler, [at |-> "next", target |-> today + Lead,
                         left |-> {s \in mode.renewing :
                                     Subscriptions[s].renews = today + Lead}])
    /\ UNCHANGED <<sequence, billed, published, stream, catalogue, faults>> /\ Elsewhere

\* Mutant: only an invoice still pending counts.
AlreadyPending(existing) == existing.status = "pending"

AlreadyInvoiced(existing) == existing.status # "cancelled"

Found(s, due) == {id \in DOMAIN billed : billed[id].subscription = s /\ billed[id].due = due}

\* findOne({ subscriptionId, due }): one of the rows there are, whichever.
ConsiderSubscription(s) ==
    /\ worker[Scheduler].at = "next"
    /\ s \in worker[Scheduler].left
    /\ LET rest == [worker[Scheduler] EXCEPT !.left = @ \ {s}]
           found == Found(s, rest.target)
           branded == Subscriptions[s].product \in catalogue
       IN  \/ /\ ~branded \/ \E id \in found : AlreadyInvoiced(billed[id])
              /\ Works(Scheduler, rest)
           \/ /\ branded
              /\ found = {} \/ \E id \in found : ~AlreadyInvoiced(billed[id])
              /\ Works(Scheduler, [at |-> "number", subscription |-> s, rest |-> rest])
    /\ UNCHANGED <<sequence, billed, published, stream, catalogue, runs, faults>> /\ Elsewhere

DrawUpcomingNumber ==
    /\ worker[Scheduler].at = "number"
    /\ Draws("FAC")
    /\ Works(Scheduler, [at |-> "save upcoming", id |-> NextNumber("FAC"),
                         subscription |-> worker[Scheduler].subscription,
                         rest |-> worker[Scheduler].rest])
    /\ UNCHANGED <<billed, published, stream, catalogue, runs, faults>> /\ Elsewhere

SaveUpcoming ==
    /\ worker[Scheduler].at = "save upcoming"
    /\ billed' = With(billed, worker[Scheduler].id,
          BilledInvoice(worker[Scheduler].subscription, worker[Scheduler].rest.target, "pending", None))
    /\ Works(Scheduler, worker[Scheduler].rest)
    /\ UNCHANGED <<sequence, published, stream, catalogue, runs, faults>> /\ Elsewhere

RunEnds ==
    /\ worker[Scheduler].at = "next"
    /\ worker[Scheduler].left = {}
    /\ Works(Scheduler, Resting)
    /\ UNCHANGED <<sequence, billed, published, stream, catalogue, runs, faults>> /\ Elsewhere

\* nola-billing is unreachable, or a save fails: the run is over until tomorrow.
RunFails ==
    /\ worker[Scheduler] # Resting
    /\ faults < mode.faults
    /\ faults' = faults + 1
    /\ Works(Scheduler, Resting)
    /\ UNCHANGED <<sequence, billed, published, stream, catalogue, runs>> /\ Elsewhere

\* The process stops and starts again: nothing in flight survives, the stream
\* does, and a run starts shortly after the boot.
Restart ==
    /\ mode.payments # {} \/ mode.renewing # {}
    /\ faults < mode.faults
    /\ faults' = faults + 1
    /\ worker' = Started
    /\ req' = [h \in Handlers |-> Idle]
    /\ runs' = (mode.renewing # {})
    /\ UNCHANGED <<sequence, today, mode, billed, published, stream, catalogue>>

-----------------------------------------------------------------------------
\* create(): an adjustment entered by hand, under a number typed or drawn; a
\* number drawn is lost when it is refused.
CreateAdjustment(h, typed, status) ==
    LET id == IF typed = None THEN NextNumber("FAC") ELSE typed
    IN  /\ MayStart(h)
        /\ sequence["FAC"] < MaxDrawn
        /\ IF typed = None THEN Draws("FAC") ELSE UNCHANGED sequence
        /\ Awaits(h, IF id \in DOMAIN billed THEN Idle
                     ELSE [at |-> "save billed", id |-> id,
                           row |-> BilledInvoice(None, today, status, None)])
        /\ UNCHANGED <<today, subscribed>>

SetStatus(h, id, status) ==
    /\ MayStart(h)
    /\ id \in DOMAIN billed
    /\ Awaits(h, [at |-> "save billed", id |-> id, row |-> [billed[id] EXCEPT !.status = status]])
    /\ UNCHANGED <<sequence, today, subscribed>>

SaveBilled(h) ==
    /\ req[h].at = "save billed"
    /\ billed' = With(billed, req[h].id, req[h].row)
    /\ Ends(h)
    /\ UNCHANGED <<sequence, today, published, stream, catalogue, worker, runs, faults>>
=============================================================================
