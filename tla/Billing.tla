------------------------------ MODULE Billing -------------------------------
(***************************************************************************)
(* The money side of HQ: the documents people write (BusinessDocuments)    *)
(* and the invoices of subscriptions (SubscriptionInvoices), numbered from *)
(* the same counters.                                                      *)
(***************************************************************************)
EXTENDS BusinessDocuments, SubscriptionInvoices

vars == <<sequence, today, req, mode, documents, subscribed>>

\* mode says what a behaviour explores: the requests that may overlap, the rows
\* it starts from, and what the requests may say.
ASSUME BillingAssumption ==
    /\ None \notin Nat /\ Keep \notin Nat /\ Keep # None
    /\ {None, Keep} \cap (Numbers \cup InvoiceStatuses \cup QuoteStatuses \cup ReminderStatuses \cup BOOLEAN) = {}
    /\ Rates \subseteq Nat /\ None \notin Opportunities \cup DOMAIN Subscriptions \cup DOMAIN Payments
    /\ Scheduler \notin Consumers /\ IsFiniteSet(Handlers)
    /\ None \notin Clients \cup Projects
    /\ \A m \in Modes :
          /\ m.handlers \subseteq Handlers /\ m.clock \in BOOLEAN
          /\ m.payments \subseteq DOMAIN Payments /\ m.renewing \subseteq DOMAIN Subscriptions
          /\ m.catalogue \subseteq Products /\ m.faults \in Nat
          /\ m.invoices \in [DOMAIN m.invoices -> InvoiceRows] /\ DOMAIN m.invoices \subseteq Invoices
          /\ m.quotes \in [DOMAIN m.quotes -> QuoteRows] /\ DOMAIN m.quotes \subseteq Quotes
          /\ m.opportunities \in [DOMAIN m.opportunities -> OpportunityRows]
          /\ m.contracts \in [DOMAIN m.contracts -> ContractRows]
          /\ m.clients \subseteq Clients /\ m.projects \subseteq Projects
          /\ m.stages \subseteq ContractStatuses /\ m.ends \subseteq Nat \cup {None}
          /\ m.engaging \subseteq {"opportunities", "contracts", "expenses", "times", "invoices"}
          /\ m.amounts \subseteq Nat /\ m.rates \subseteq Rates /\ m.dues \subseteq Nat
          /\ m.lines \subseteq Nat \cup {None} /\ m.typed \subseteq Numbers

Init ==
    /\ mode \in Modes
    /\ sequence = [prefix \in Prefixes |-> 0]
    /\ today = 0
    /\ req = [h \in Handlers |-> Idle]
    /\ invoices = mode.invoices
    /\ quotes = mode.quotes
    /\ opportunities = mode.opportunities
    /\ contracts = mode.contracts
    /\ expenses = [id \in {} |-> None]
    /\ times = [id \in {} |-> None]
    /\ home = [i \in WorkItems |-> None]
    /\ reminders = [f \in {} |-> None]
    /\ billed = [id \in {} |-> None]
    /\ published = {}
    /\ stream = {}
    /\ catalogue = mode.catalogue
    /\ worker = Started
    /\ runs = (mode.renewing # {})
    /\ faults = 0

-----------------------------------------------------------------------------
Kept(values) == values \cup {Keep}

TieBodies == [client : mode.clients, project : mode.projects, contract : DOMAIN contracts \cup {None}]

TiePatches ==
    IF "invoices" \in mode.engaging
    THEN [client : Kept(mode.clients), project : Kept(mode.projects),
          contract : Kept(DOMAIN contracts \cup {None})]
    ELSE [client : {Keep}, project : {Keep}, contract : {Keep}]

OpportunityBodies == [client : mode.clients, project : mode.projects \cup {None}, won : BOOLEAN]

OpportunityPatches ==
    [client : Kept(mode.clients), project : Kept(mode.projects \cup {None}), won : Kept(BOOLEAN)]

ContractBodies ==
    [client : mode.clients, project : mode.projects \cup {None},
     opportunity : DOMAIN opportunities \cup {None}, status : mode.stages, end : mode.ends]

ContractPatches ==
    [client : Kept(mode.clients), project : Kept(mode.projects \cup {None}),
     opportunity : Kept(DOMAIN opportunities \cup {None}), status : Kept(mode.stages), end : Kept(mode.ends)]

ExpenseBodies == [project : mode.projects, contract : DOMAIN contracts \cup {None}]
ExpensePatches == [project : Kept(mode.projects), contract : Kept(DOMAIN contracts \cup {None})]

TimeBodies == [project : mode.projects, item : WorkItems \cup {None}]
TimePatches == [project : Kept(mode.projects), item : Kept(WorkItems \cup {None})]

InvoiceBodies ==
    [tie : TieBodies, amount : mode.amounts, paid : mode.amounts, rate : mode.rates, lines : mode.lines,
     status : mode.statuses, due : mode.dues]

InvoicePatches ==
    [tie : TiePatches, number : mode.typed \cup {Keep}, amount : mode.amounts \cup {Keep},
     paid : mode.amounts \cup {Keep}, rate : mode.rates \cup {Keep},
     lines : (mode.lines \ {None}) \cup {Keep}, status : mode.statuses \cup {Keep},
     due : mode.dues \cup {Keep}]

QuoteBodies ==
    [client : mode.clients, project : mode.projects \cup {None},
     lines : mode.lines \ {None}, rate : mode.rates, status : {"draft"}, due : mode.dues,
     opportunity : DOMAIN opportunities \cup {None}]

QuotePatches ==
    [number : {Keep}, lines : (mode.lines \ {None}) \cup {Keep}, rate : mode.rates \cup {Keep},
     status : mode.decisions \cup {Keep}, due : mode.dues \cup {Keep},
     client : Kept(mode.clients), project : Kept(mode.projects), opportunity : Kept(DOMAIN opportunities)]

InvoiceRequest(h) ==
    \/ \E i \in mode.writable, typed \in mode.typed \cup {None}, row \in InvoiceBodies :
          CreateInvoice(h, i, typed, row)
    \/ \E i \in Invoices, dto \in InvoicePatches : UpdateInvoice(h, i, dto)
    \/ \E i \in Invoices : MarkPaid(h, i) \/ VoidReceipt(h, i)

QuoteRequest(h) ==
    \/ \E q \in Quotes, row \in QuoteBodies : CreateQuote(h, q, None, row)
    \/ \E q \in Quotes, dto \in QuotePatches : UpdateQuote(h, q, dto)
    \/ \E q \in Quotes, status \in {"draft", "sent"}, due \in mode.dues :
          ConvertQuote(h, q, status, due)

Engages(kind) == kind \in mode.engaging

EngagementRequest(h) ==
    \/ Engages("opportunities") /\ \E o \in Opportunities :
          \/ \E row \in OpportunityBodies : CreateOpportunity(h, o, row)
          \/ \E dto \in OpportunityPatches : UpdateOpportunity(h, o, dto)
    \/ Engages("contracts") /\ \E c \in Contracts :
          \/ \E row \in ContractBodies : CreateContract(h, c, row)
          \/ \E dto \in ContractPatches : UpdateContract(h, c, dto)
    \/ Engages("expenses") /\ \E e \in Expenses :
          \/ \E row \in ExpenseBodies : CreateExpense(h, e, row)
          \/ \E dto \in ExpensePatches : UpdateExpense(h, e, dto)
    \/ Engages("times") /\ \E t \in TimeEntries :
          \/ \E row \in TimeBodies : CreateTimeEntry(h, t, row)
          \/ \E dto \in TimePatches : UpdateTimeEntry(h, t, dto)
    \/ Engages("times") /\ \E i \in WorkItems, p \in mode.projects : MoveWorkItem(h, i, p)

ReminderRequest(h) ==
    /\ mode.reminding
    /\ \/ ListReminders(h)
       \/ \E f \in Fingerprints, status \in ReminderStatuses : UpdateReminder(h, f, status)

DocumentStep(h) ==
    \/ SaveInvoice(h) \/ Mint(h)
    \/ SaveQuote(h) \/ WinOpportunity(h)
    \/ (\E i \in mode.writable : BillQuote(h, i)) \/ QuoteNotBilled(h) \/ AcceptQuote(h)
    \/ (\E f \in Fingerprints : FindReminder(h, f)) \/ SaveAutomatic(h)
    \/ FindObsolete(h) \/ DismissObsolete(h) \/ SaveReminder(h)

Documents ==
    /\ \E h \in Handlers : \/ InvoiceRequest(h) \/ QuoteRequest(h) \/ ReminderRequest(h)
                           \/ DocumentStep(h)
    /\ UNCHANGED subscribed

ConsumerStep(c) ==
    \/ Bind(c)
    \/ DrawInvoiceNumber(c) \/ DrawReceiptNumber(c) \/ FindInvoice(c) \/ SavePayment(c)
    \/ Acknowledge(c)

SchedulerStep ==
    \/ (\E s \in DOMAIN Subscriptions : ConsiderSubscription(s))
    \/ DrawUpcomingNumber \/ SaveUpcoming \/ RunEnds

OperatorRequest(h) ==
    \/ \E typed \in mode.typed \cup {None}, status \in mode.adjusts : CreateAdjustment(h, typed, status)
    \/ \E id \in DOMAIN billed, status \in mode.adjusts : SetStatus(h, id, status)

Engaged ==
    /\ \E h \in Handlers : EngagementRequest(h) \/ SaveEngagement(h)
    /\ UNCHANGED <<invoices, quotes, reminders>>
    /\ UNCHANGED subscribed

Billed ==
    /\ \/ \E p \in DOMAIN Payments : Publish(p) \/ \E c \in Consumers : Deliver(c, p)
       \/ \E code \in Products : RegisterProduct(code)
       \/ \E c \in Consumers : ConsumerStep(c) \/ DeliveryFails(c) \/ BindFails(c)
       \/ BootFails
       \/ NextDay \/ RunStarts \/ SchedulerStep \/ RunFails \/ Restart
       \/ \E h \in Handlers : OperatorRequest(h) \/ SaveBilled(h)
    /\ UNCHANGED documents

Next == Documents \/ Engaged \/ Billed

Spec == Init /\ [][Next]_vars

\* NATS is there, JetStream delivers what is not acknowledged, and the database
\* answers.
FairSpec ==
    /\ Spec
    /\ \A c \in Consumers :
          /\ WF_vars(ConsumerStep(c) /\ UNCHANGED documents)
          /\ \A p \in DOMAIN Payments : WF_vars(Deliver(c, p) /\ UNCHANGED documents)

-----------------------------------------------------------------------------
\* "Minted once, by markPaid()": the receipt of an invoice, the amounts under it
\* and its voiding are never taken back.
ReceiptKept(was, is) ==
    was.receipt # None =>
        /\ is.receipt = was.receipt
        /\ is.amount = was.amount /\ is.paid = was.paid /\ is.rate = was.rate
        /\ is.lines = was.lines
        /\ was.voided => is.voided

\* Once minted, the receipt of an invoice stands, and so does what it was given
\* for, whatever requests follow or overlap (markPaid(), updateInvoice()).
ReceiptsStand ==
    [][\A i \in DOMAIN invoices : ReceiptKept(invoices[i], invoices'[i])]_vars

\* The same when requests follow one another: no chain of updates, payments and
\* voidings takes a receipt back or changes what it was given for.
ReceiptsStandInOrder ==
    [][Orderly => \A i \in DOMAIN invoices : ReceiptKept(invoices[i], invoices'[i])]_vars

Syncing(h) == req[h].at \in {"sync", "upsert", "dismiss"} /\ req'[h] # req[h]

\* A synchronisation that nothing overlaps or interrupts reopens no reminder that
\* was closed, and leaves pending ones for nothing but what is due, all of which
\* has one.
SyncSettles ==
    [][\A h \in Handlers : Orderly /\ mode.faults = 0 /\ Syncing(h) =>
          /\ \A f \in DOMAIN reminders : reminders[f] # "pending" => reminders'[f] = reminders[f]
          /\ req'[h] = Idle =>
                /\ {f \in DOMAIN reminders' : reminders'[f] = "pending"} \subseteq req[h].due
                /\ req[h].due \subseteq DOMAIN reminders']_vars

TiesOf(table) ==
    [i \in DOMAIN table |-> <<table[i].client, table[i].project, table[i].contract>>]

\* The request that saves a quote has had other links checked than the quote keeps.
CheckedElsewhere(q) ==
    \E h \in Handlers :
        /\ req[h].at = "save quote" /\ req[h].id = q
        /\ req[h].tie # QuoteTie(req[h].row, NoPatch)

\* "La facture et le contrat doivent avoir le meme client", "le temps et le
\* ticket doivent appartenir au meme projet" and their like: whatever a request
\* changes and leaves out, the links it writes agree with what they point to at
\* that moment, wherever that has been moved before.  Only a quote whose request
\* names other links than the quote keeps may be saved with links that disagree
\* (updateQuote()).
TiesAgree ==
    [][Orderly =>
          /\ EngagementsAgree
          /\ \A q \in Written(quotes, quotes') :
                CheckedElsewhere(q) \/ FollowsOpportunity(quotes'[q], opportunities')
          /\ \A i \in Written(TiesOf(invoices), TiesOf(invoices')) :
                BillsContract(invoices'[i], contracts')]_vars

\* What operators do leaves the run alone: they give no number of the counter's,
\* and cancel nothing that they could take up again.
HandsOff == "cancelled" \notin mode.adjusts /\ \A n \in mode.typed : n[1] # "FAC"

\* "Only 1 non-cancelled invoice exists per (subscriptionId, due) pair", across
\* restarts, failed runs, payments and the corrections of operators.
OneUpcomingInvoice ==
    LET standing == {id \in DOMAIN billed : billed[id].subscription # None /\ billed[id].status # "cancelled"}
    IN  HandsOff =>
           \A a, b \in standing :
              billed[a].subscription = billed[b].subscription /\ billed[a].due = billed[b].due => a = b

Corrected(id) == id \in DOMAIN billed /\ billed[id].status \in mode.adjusts

\* "At-least-once processing": an announced payment of a product that has a
\* brand gets its row, whatever fails or stops between its announcement and its
\* acknowledgement, unless its consumer is left unbound: "le prochain demarrage
\* le reprendra".  What is recorded lasts until an operator who read the row of
\* that invoice before the payment saves his correction over it (setStatus()).
PaymentsRecorded ==
    \A p \in DOMAIN Payments :
        p \in published /\ Payments[p].product \in catalogue
            ~> \/ \E id \in DOMAIN billed : billed[id].payment = p
               \/ Corrected(Payments[p].invoice)
               \/ worker[Payments[p].subject] = Deaf
=============================================================================
