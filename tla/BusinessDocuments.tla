------------------------- MODULE BusinessDocuments --------------------------
(***************************************************************************)
(* Quotes, invoices and receipts (business.service.ts) with the reminders  *)
(* and conversions of business-operations.service.ts.  An update reads the *)
(* row, checks what it read, and saves the whole row later; a line list is *)
(* its subtotal; wording is left out.                                      *)
(***************************************************************************)
EXTENDS Engagements

CONSTANTS
    Invoices, Quotes,   \* ids
    Rates,              \* tax rates, in percent
    Horizon,            \* days before a date at which it is near: 7
    ContractHorizon,    \* the same for the end of a contract: 14
    MaxReceipts         \* bound: receipts drawn in a behaviour

VARIABLES
    invoices,       \* business_invoices and their lines: id -> row
    quotes,         \* business_quotes and their lines: id -> row
    reminders       \* automatic business_reminders: fingerprint -> status

documents == <<invoices, quotes, reminders, engagements>>

-----------------------------------------------------------------------------
InvoiceStatuses == {"draft", "sent", "partial", "paid", "overdue", "cancelled"}
QuoteStatuses == {"draft", "sent", "accepted", "rejected", "expired"}
ReminderStatuses == {"pending", "done", "dismissed"}

\* lines: the subtotal of the lines, None without lines.  receipt stands for
\* receipt_number and verification_token, always written together.
InvoiceRows ==
    [client : Clients, project : Projects, contract : Contracts \cup {None},
     number : Numbers, amount : Nat, paid : Nat, rate : Rates, lines : Nat \cup {None},
     status : InvoiceStatuses, receipt : Numbers \cup {None}, voided : BOOLEAN,
     due : Nat]

QuoteRows ==
    [client : Clients, project : Projects \cup {None},
     number : Numbers, lines : Nat, rate : Rates, total : Nat, status : QuoteStatuses,
     opportunity : Opportunities \cup {None}, due : Nat]

Fingerprints == ({"invoice"} \X Invoices) \cup ({"quote"} \X Quotes) \cup ({"contract"} \X Contracts)

\* Math.round(subtotal * rate / 100), amounts being natural numbers.
Tax(subtotal, rate) == (subtotal * rate + 50) \div 100
Total(subtotal, rate) == subtotal + Tax(subtotal, rate)

\* "Le total des lignes et de la taxe ...", "Le taux de taxe nécessite ...".
AddsUp(amount, lines, rate) ==
    IF lines = None THEN rate = 0 ELSE Total(lines, rate) = amount

PaymentStatus(requested, amount, paid) ==
    IF paid >= amount /\ amount > 0 THEN "paid"
    ELSE IF paid > 0 THEN "partial"
    ELSE IF requested \in {"paid", "partial"} THEN "sent" ELSE requested

NumberFree(table, number, id) ==
    \A k \in DOMAIN table \ {id} : table[k].number # number

\* uuid_generate_v4: an id nothing has.
FreshIn(table, id) == id \notin DOMAIN table

-----------------------------------------------------------------------------
\* createInvoice: refused, and its transaction undone with the number it drew,
\* when the number is somebody else's.
Invoice(i, typed, row) ==
    LET number == IF typed = None THEN NextNumber("FAC") ELSE typed
    IN  /\ FreshIn(invoices, i)
        /\ BillsContract(row.tie, contracts)
        /\ row.paid <= row.amount
        /\ AddsUp(row.amount, row.lines, row.rate)
        /\ NumberFree(invoices, number, i)
        /\ invoices' = With(invoices, i,
              [client |-> row.tie.client, project |-> row.tie.project,
               contract |-> row.tie.contract, number |-> number, amount |-> row.amount, paid |-> row.paid, rate |-> row.rate,
               lines |-> row.lines, due |-> row.due, receipt |-> None, voided |-> FALSE,
               status |-> PaymentStatus(row.status, row.amount, row.paid)])
        /\ IF typed = None THEN Draws("FAC") ELSE UNCHANGED sequence

CreateInvoice(h, i, typed, row) ==
    /\ MayStart(h)
    /\ Invoice(i, typed, row)
    /\ UNCHANGED <<today, quotes, reminders, engagements, req, mode>>

ChangesFinancials(item, dto) ==
    \/ Given(dto.amount, item.amount) # item.amount
    \/ Given(dto.paid, item.paid) # item.paid
    \/ Given(dto.rate, item.rate) # item.rate
    \/ dto.lines # Keep

PatchedInvoice(item, dto) ==
    LET amount == Given(dto.amount, item.amount)
        paid   == Given(dto.paid, item.paid)
    IN  [Patched(item, dto.tie) EXCEPT
                     !.number = Given(dto.number, @), !.amount = amount, !.paid = paid,
                     !.rate = Given(dto.rate, @), !.lines = Given(dto.lines, @),
                     !.due = Given(dto.due, @),
                     !.status = PaymentStatus(Given(dto.status, @), amount, paid)]

UpdateInvoice(h, i, dto) ==
    /\ MayStart(h)
    /\ i \in DOMAIN invoices
    /\ invoices[i].receipt = None \/ ~ChangesFinancials(invoices[i], dto)
    /\ LET row == PatchedInvoice(invoices[i], dto)
       IN  /\ BillsContract(CheckedTie(invoices[i], dto.tie), contracts)
           /\ NumberFree(invoices, row.number, i)
           /\ row.paid <= row.amount
           /\ AddsUp(row.amount, row.lines, row.rate)
           /\ Awaits(h, [at |-> "save invoice", id |-> i, row |-> row, lines |-> dto.lines])
    /\ UNCHANGED <<sequence, today, documents>>

VoidReceipt(h, i) ==
    /\ MayStart(h)
    /\ i \in DOMAIN invoices
    /\ invoices[i].receipt # None
    /\ ~invoices[i].voided
    /\ Awaits(h, [at |-> "save invoice", id |-> i, row |-> [invoices[i] EXCEPT !.voided = TRUE],
                  lines |-> Keep])
    /\ UNCHANGED <<sequence, today, documents>>

\* The whole row that was read and changed, unless another invoice has taken
\* the number meanwhile; the lines are a table apart, rewritten when given.
Saved(table, id, row, lines) ==
    IF NumberFree(table, row.number, id)
    THEN [table EXCEPT ![id] = [row EXCEPT !.lines = Given(lines, table[id].lines)]]
    ELSE table

SaveInvoice(h) ==
    /\ req[h].at = "save invoice"
    /\ invoices' = Saved(invoices, req[h].id, req[h].row, req[h].lines)
    /\ Ends(h)
    /\ UNCHANGED <<sequence, today, quotes, reminders, engagements>>

\* Bound on the receipts.
MayMint ==
    sequence["REC"] + Cardinality({g \in Handlers : req[g].at = "mint"}) < MaxReceipts

\* Mutant: markPaid does not look for a receipt.
MarkPaidAgain(h, i) ==
    /\ MayStart(h)
    /\ i \in DOMAIN invoices
    /\ invoices[i].status # "cancelled"
    /\ MayMint
    /\ Awaits(h, [at |-> "mint", id |-> i, row |-> invoices[i]])
    /\ UNCHANGED <<sequence, today, documents>>

MarkPaid(h, i) ==
    /\ MayStart(h)
    /\ i \in DOMAIN invoices
    /\ invoices[i].status # "cancelled"
    /\ invoices[i].receipt = None
    /\ MayMint
    /\ Awaits(h, [at |-> "mint", id |-> i, row |-> invoices[i]])
    /\ UNCHANGED <<sequence, today, documents>>

\* markPaid's transaction: the number drawn and the row saved, or neither.
Mint(h) ==
    /\ req[h].at = "mint"
    /\ LET paid == [req[h].row EXCEPT !.paid = req[h].row.amount, !.status = "paid",
                                      !.receipt = NextNumber("REC")]
       IN  invoices' = Saved(invoices, req[h].id, paid, Keep)
    /\ IF NumberFree(invoices, req[h].row.number, req[h].id)
       THEN Draws("REC") ELSE UNCHANGED sequence
    /\ Ends(h)
    /\ UNCHANGED <<today, quotes, reminders, engagements>>

-----------------------------------------------------------------------------
CreateQuote(h, q, typed, row) ==
    LET number == IF typed = None THEN NextNumber("DEV") ELSE typed
    IN  /\ MayStart(h)
        /\ FreshIn(quotes, q)
        /\ FollowsOpportunity(row, opportunities)
        /\ NumberFree(quotes, number, q)
        /\ IF typed = None THEN Draws("DEV") ELSE UNCHANGED sequence
        /\ quotes' = With(quotes, q,
              [client |-> row.client, number |-> number, lines |-> row.lines, rate |-> row.rate,
               total |-> Total(row.lines, row.rate), status |-> row.status,
               project |-> row.project, opportunity |-> row.opportunity, due |-> row.due])
        /\ UNCHANGED <<today, invoices, reminders, engagements, req, mode>>

\* The totals of a quote are computed again by every update; its client, and a
\* project or an opportunity it has already, are saved as the relations that were
\* read with it, whatever the body says.
PatchedQuote(quote, dto) ==
    LET lines == Given(dto.lines, quote.lines)
        rate  == Given(dto.rate, quote.rate)
    IN  [quote EXCEPT !.lines = lines, !.rate = rate, !.total = Total(lines, rate),
                      !.number = Given(dto.number, @), !.status = Given(dto.status, @),
                      !.due = Given(dto.due, @),
                      !.project = IF @ = None THEN Given(dto.project, @) ELSE @,
                      !.opportunity = IF @ = None THEN Given(dto.opportunity, @) ELSE @]

\* assertQuoteLinks() is asked about the links of the body, all the same.
QuoteTie(quote, dto) ==
    [f \in {"client", "project", "opportunity"} |-> Given(dto[f], quote[f])]

ReadsQuote(h, q, dto) ==
    LET row == PatchedQuote(quotes[q], dto)
        tie == QuoteTie(quotes[q], dto)
    IN  /\ FollowsOpportunity(tie, opportunities)
        /\ NumberFree(quotes, row.number, q)
        /\ Awaits(h, [at |-> "save quote", id |-> q, row |-> row, tie |-> tie,
                      lines |-> dto.lines, accepts |-> dto.status = "accepted"])

UpdateQuote(h, q, dto) ==
    /\ MayStart(h)
    /\ q \in DOMAIN quotes
    /\ ReadsQuote(h, q, dto)
    /\ UNCHANGED <<sequence, today, documents>>

\* What is won is the opportunity of the body.
SaveQuote(h) ==
    /\ req[h].at = "save quote"
    /\ quotes' = Saved(quotes, req[h].id, req[h].row, req[h].lines)
    /\ IF /\ NumberFree(quotes, req[h].row.number, req[h].id)
          /\ req[h].accepts /\ req[h].tie.opportunity # None
       THEN Awaits(h, [at |-> "win", opportunity |-> req[h].tie.opportunity])
       ELSE Ends(h)
    /\ UNCHANGED <<sequence, today, invoices, reminders, engagements>>

WinOpportunity(h) ==
    /\ req[h].at = "win"
    /\ opportunities' = [opportunities EXCEPT ![req[h].opportunity].won = TRUE]
    /\ Ends(h)
    /\ UNCHANGED <<sequence, today, invoices, quotes, reminders, contracts, expenses, times, home>>

ConvertQuote(h, q, status, due) ==
    /\ MayStart(h)
    /\ q \in DOMAIN quotes
    /\ quotes[q].project # None
    /\ Awaits(h, [at |-> "bill quote", id |-> q, quote |-> quotes[q],
                  status |-> status, due |-> due])
    /\ UNCHANGED <<sequence, today, documents>>

\* The invoice has the quote's lines, rate and total; the quote is accepted
\* afterwards, by a request's worth of steps of its own.
BillQuote(h, i) ==
    /\ req[h].at = "bill quote"
    /\ LET quote == req[h].quote
           tie == [client |-> quote.client, project |-> quote.project, contract |-> None]
       IN  /\ Invoice(i, None, [tie |-> tie, amount |-> quote.total, paid |-> 0, rate |-> quote.rate,
                                lines |-> quote.lines, status |-> req[h].status,
                                due |-> req[h].due])
           /\ IF quote.status = "accepted" THEN Ends(h)
              ELSE Awaits(h, [at |-> "accept quote", id |-> req[h].id])
    /\ UNCHANGED <<today, quotes, reminders, engagements>>

\* createInvoice refuses: the number it would draw is taken, or the quote's
\* total is not that of its lines.
QuoteNotBilled(h) ==
    /\ req[h].at = "bill quote"
    /\ \/ \E k \in DOMAIN invoices : invoices[k].number = NextNumber("FAC")
       \/ ~AddsUp(req[h].quote.total, req[h].quote.lines, req[h].quote.rate)
    /\ Ends(h)
    /\ UNCHANGED <<sequence, today, documents>>

NoPatch == [number |-> Keep, lines |-> Keep, rate |-> Keep, status |-> Keep, due |-> Keep,
            client |-> Keep, project |-> Keep, opportunity |-> Keep]

AcceptQuote(h) ==
    /\ req[h].at = "accept quote"
    /\ ReadsQuote(h, req[h].id, [NoPatch EXCEPT !.status = "accepted"])
    /\ UNCHANGED <<sequence, today, documents>>

-----------------------------------------------------------------------------
\* What syncAutomaticReminders keeps a reminder for.
Near(date, days) == date <= today + days

InvoiceDue(i) == Near(invoices[i].due, Horizon) /\ invoices[i].status \notin {"paid", "cancelled", "draft"}
QuoteDue(q) == Near(quotes[q].due, Horizon) /\ quotes[q].status \in {"draft", "sent"}
ContractDue(c) ==
    /\ contracts[c].end # None /\ Near(contracts[c].end, ContractHorizon)
    /\ contracts[c].status \in {"signed", "active"}

DueNow == {<<"invoice", i>> : i \in {k \in DOMAIN invoices : InvoiceDue(k)}}
          \cup {<<"quote", q>> : q \in {k \in DOMAIN quotes : QuoteDue(k)}}
          \cup {<<"contract", c>> : c \in {k \in DOMAIN contracts : ContractDue(k)}}

StatusOf(f) == IF f \in DOMAIN reminders THEN reminders[f] ELSE None

ListReminders(h) ==
    /\ MayStart(h)
    /\ Awaits(h, [at |-> "sync", left |-> DueNow, due |-> DueNow])
    /\ UNCHANGED <<sequence, today, documents>>

\* Mutant: only done reminders count as closed.
FindReminderNotDismissed(h, f) ==
    /\ req[h].at = "sync" /\ f \in req[h].left
    /\ LET rest == [req[h] EXCEPT !.left = @ \ {f}]
       IN  IF StatusOf(f) = "done" THEN Awaits(h, rest)
           ELSE Awaits(h, [at |-> "upsert", new |-> StatusOf(f) = None,
                           fingerprint |-> f, rest |-> rest])
    /\ UNCHANGED <<sequence, today, documents>>

\* upsertAutomatic: a reminder a person closed is left alone ...
FindReminder(h, f) ==
    /\ req[h].at = "sync" /\ f \in req[h].left
    /\ LET rest == [req[h] EXCEPT !.left = @ \ {f}]
       IN  IF StatusOf(f) \in {"done", "dismissed"} THEN Awaits(h, rest)
           ELSE Awaits(h, [at |-> "upsert", new |-> StatusOf(f) = None,
                           fingerprint |-> f, rest |-> rest])
    /\ UNCHANGED <<sequence, today, documents>>

\* ... and the others are saved pending; a second insert of one fingerprint
\* fails the request.
SaveAutomatic(h) ==
    /\ req[h].at = "upsert"
    /\ IF req[h].new /\ req[h].fingerprint \in DOMAIN reminders
       THEN Ends(h) /\ UNCHANGED reminders
       ELSE /\ reminders' = With(reminders, req[h].fingerprint, "pending")
            /\ Awaits(h, req[h].rest)
    /\ UNCHANGED <<sequence, today, invoices, quotes, engagements>>

FindObsolete(h) ==
    /\ req[h].at = "sync" /\ req[h].left = {}
    /\ LET obsolete == {f \in DOMAIN reminders \ req[h].due : reminders[f] = "pending"}
       IN  Awaits(h, [at |-> "dismiss", obsolete |-> obsolete, due |-> req[h].due])
    /\ UNCHANGED <<sequence, today, documents>>

DismissObsolete(h) ==
    /\ req[h].at = "dismiss"
    /\ reminders' = [f \in DOMAIN reminders |->
                        IF f \in req[h].obsolete THEN "dismissed" ELSE reminders[f]]
    /\ Ends(h)
    /\ UNCHANGED <<sequence, today, invoices, quotes, engagements>>

UpdateReminder(h, f, status) ==
    /\ MayStart(h)
    /\ f \in DOMAIN reminders
    /\ Awaits(h, [at |-> "save reminder", fingerprint |-> f, status |-> status])
    /\ UNCHANGED <<sequence, today, documents>>

SaveReminder(h) ==
    /\ req[h].at = "save reminder"
    /\ reminders' = [reminders EXCEPT ![req[h].fingerprint] = req[h].status]
    /\ Ends(h)
    /\ UNCHANGED <<sequence, today, invoices, quotes, engagements>>
=============================================================================
