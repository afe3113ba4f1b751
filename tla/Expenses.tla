------------------------------ MODULE Expenses ------------------------------
(***************************************************************************)
(* The internal spend (studio-expenses.service.ts): rows an operator       *)
(* writes, rows made each month from recurring templates, and rows         *)
(* synchronised from the invoices the hosting provider settled.  Either    *)
(* run looks before it inserts, row by row, and may stop after any of      *)
(* them; both are asked again.                                             *)
(***************************************************************************)
EXTENDS Requests, FiniteSetsExt

CONSTANTS
    Months,         \* an interval: the months of dates
    Invoices,       \* of the provider
    ExpenseIds      \* bound on the rows

ASSUME ExpensesAssumption == ExpenseIds \subseteq Nat /\ None \notin Invoices

VARIABLES
    settled,        \* external: the provider's paid invoices, invoice -> month
    expenses,       \* id -> a row of studio_expenses
    issued          \* history: the ids given, which are not given again

spend == <<settled, expenses, issued>>

\* StudioExpense: the columns that decide.  `ours` is the workspace, or the
\* description, of the provider's template; `basis` the invoices its forecast is
\* the average of.
Expense(recurring, source, ours, month) ==
    [recurring |-> recurring, source |-> source, ours |-> ours, month |-> month,
     template |-> None, invoice |-> None, basis |-> {}]

SpendInit == settled = << >> /\ expenses = << >> /\ issued = {}

\* external: another invoice is paid, later than those before.
Settle(invoice) ==
    /\ "sync" \in mode.calls /\ invoice \notin DOMAIN settled
    /\ \E month \in Months :
         /\ \A i \in DOMAIN settled : settled[i] < month
         /\ settled' = With(settled, invoice, month)
    /\ UNCHANGED <<mode, req, expenses, issued>>

Fresh == Min(ExpenseIds \ issued)

Inserts(row) ==
    /\ issued # ExpenseIds /\ issued' = issued \cup {Fresh}
    /\ expenses' = With(expenses, Fresh, row)

Stays == UNCHANGED <<expenses, issued>>

\* create(): a similar invoice only warns.
CreateExpense(row) ==
    /\ "expense" \in mode.calls /\ Inserts(row)
    /\ UNCHANGED <<mode, req, settled>>

Manual(id) == id \in DOMAIN expenses /\ expenses[id].source = "manual"

\* update(): what came from the provider is refused; the row is saved whole.
UpdateExpense(h, id, dto) ==
    /\ MayStart(h) /\ "expense" \in mode.calls /\ Manual(id)
    /\ Awaits(h, [at |-> "expense", id |-> id,
                  row |-> [expenses[id] EXCEPT !.recurring = Given(dto.recurring, @), !.ours = Given(dto.ours, @),
                                               !.month = Given(dto.month, @)]])
    /\ UNCHANGED spend

SaveExpense(h) ==
    /\ At(h, "expense") /\ Ends(h)
    /\ expenses' = With(expenses, req[h].id, req[h].row)
    /\ UNCHANGED <<settled, issued>>

RemoveExpense(id) ==
    /\ "expense" \in mode.calls /\ Manual(id)
    /\ expenses' = Without(expenses, {id})
    /\ UNCHANGED <<mode, req, settled, issued>>

-----------------------------------------------------------------------------
(* syncRailwayInvoices() *)

\* The invoices as the provider lists them, paid ones; a call that is lost ends
\* the request.
FetchSettled(h) ==
    /\ MayStart(h) /\ "sync" \in mode.calls
    /\ Awaits(h, [at |-> "template", paid |-> settled])
    /\ UNCHANGED spend

Templates == {id \in DOMAIN expenses : expenses[id].recurring}

\* With the template in hand, each invoice is looked up.
Syncs(h, paid, id, row) ==
    Awaits(h, [at |-> "invoices", paid |-> paid, left |-> DOMAIN paid, id |-> id, row |-> row])

\* The template of the workspace, else the one so described, else a new one.
FindTemplate(h) ==
    /\ At(h, "template")
    /\ LET found == {id \in Templates : expenses[id].ours}
       IN  \/ \E id \in found : Syncs(h, req[h].paid, id, expenses[id])
           \/ found = {} /\ Awaits(h, [req[h] EXCEPT !.at = "newTemplate"])
    /\ UNCHANGED spend

InsertTemplate(h) ==
    /\ At(h, "newTemplate")
    /\ \E month \in Months : LET row == Expense(TRUE, "railway", TRUE, month)
                             IN  Inserts(row) /\ Syncs(h, req[h].paid, Fresh, row)
    /\ UNCHANGED settled

Known(invoice) == \E i \in DOMAIN expenses : expenses[i].invoice = invoice

\* One invoice: looked up by its id, then inserted.
SyncInvoice(h, invoice) ==
    /\ At(h, "invoices") /\ invoice \in req[h].left
    /\ LET r == req[h]
           rest == r.left \ {invoice}
       IN  Awaits(h, IF Known(invoice) THEN [r EXCEPT !.left = rest]
                     ELSE [at |-> "newInvoice", paid |-> r.paid, left |-> rest, id |-> r.id, row |-> r.row, invoice |-> invoice])
    /\ UNCHANGED spend

InsertInvoice(h) ==
    /\ At(h, "newInvoice")
    /\ LET r == req[h]
       IN  /\ Inserts([Expense(FALSE, "railway", TRUE, r.paid[r.invoice]) EXCEPT !.template = r.id, !.invoice = r.invoice])
           /\ Awaits(h, [at |-> "invoices", paid |-> r.paid, left |-> r.left, id |-> r.id, row |-> r.row])
    /\ UNCHANGED settled

\* The last three invoices, of those that were listed.
Last3(paid) == {i \in DOMAIN paid : Cardinality({j \in DOMAIN paid : paid[j] > paid[i]}) < 3}

\* The template is saved whole, with the forecast, and is the provider's now.
SaveForecast(h) ==
    /\ At(h, "invoices") /\ req[h].left = {} /\ Ends(h)
    /\ LET paid == req[h].paid
       IN  expenses' = With(expenses, req[h].id, [req[h].row EXCEPT !.source = "railway", !.basis = Last3(paid)])
    /\ UNCHANGED <<settled, issued>>

-----------------------------------------------------------------------------
(* generateMonthlyRecurring() *)

GenerateMonthly(h, month) ==
    /\ MayStart(h) /\ "generate" \in mode.calls
    /\ Awaits(h, [at |-> "month", month |-> month, left |-> [id \in Templates |-> expenses[id]]])
    /\ UNCHANGED spend

OfMonth(month) == {i \in DOMAIN expenses : expenses[i].month = month}

\* Mutant: only the template's own row of the month counts.
ReadMonthOwn(h) ==
    /\ At(h, "month")
    /\ Awaits(h, [at |-> "monthly", month |-> req[h].month, left |-> req[h].left, those |-> OfMonth(req[h].month)])
    /\ UNCHANGED spend

\* The rows of the month, once for all templates.
ReadMonth(h) ==
    /\ At(h, "month")
    /\ LET rows == OfMonth(req[h].month)
       IN  Awaits(h, [at |-> "monthly", month |-> req[h].month, left |-> req[h].left,
                      those |-> rows \cup {expenses[i].template : i \in rows}])
    /\ UNCHANGED spend

\* A template that has a row of the month, or is one, is passed over.
GenerateOne(h, id) ==
    /\ At(h, "monthly") /\ id \in DOMAIN req[h].left
    /\ LET t == req[h].left[id]
           rest == Without(req[h].left, {id})
       IN  /\ IF t.source = "railway" \/ id \in req[h].those THEN Stays
              ELSE Inserts([Expense(FALSE, t.source, t.ours, req[h].month) EXCEPT !.template = id])
           /\ Awaits(h, IF rest = << >> THEN Idle ELSE [req[h] EXCEPT !.left = rest])
    /\ UNCHANGED settled

MonthlyDone(h) == At(h, "monthly") /\ req[h].left = << >> /\ Ends(h) /\ UNCHANGED spend

SpendStep ==
    \/ \E invoice \in Invoices : Settle(invoice)
    \/ \E row \in mode.rows : CreateExpense(row)
    \/ \E id \in ExpenseIds : RemoveExpense(id)
    \/ \E h \in Handlers :
         \/ \E id \in ExpenseIds, dto \in mode.edits : UpdateExpense(h, id, dto)
         \/ SaveExpense(h) \/ FetchSettled(h) \/ FindTemplate(h) \/ InsertTemplate(h)
         \/ InsertInvoice(h) \/ SaveForecast(h)
         \/ \E invoice \in Invoices : SyncInvoice(h, invoice)
         \/ \E month \in Months : GenerateMonthly(h, month)
         \/ ReadMonth(h) \/ (\E id \in ExpenseIds : GenerateOne(h, id)) \/ MonthlyDone(h)

Redates == \E dto \in mode.edits : dto.month # Keep

\* An operator may write a row under an invoice's id.
Types == \E row \in mode.rows : row.invoice # None

\* A charge appears once however often the runs are asked for, wherever they
\* stopped before and whatever is edited meanwhile: a template has one row a month
\* unless rows are given other dates, and an invoice one row unless an operator
\* writes its id himself, as long as requests do not overlap; and what a
\* synchronisation has passed has its row (syncRailwayInvoices(),
\* generateMonthlyRecurring()).
ChargedOnce ==
    /\ Orderly => \A i, j \in DOMAIN expenses : i # j =>
         /\ ~Types /\ expenses[i].invoice # None => expenses[i].invoice # expenses[j].invoice
         /\ (~Redates /\ expenses[i].template # None /\ expenses[i].invoice = None /\ expenses[j].invoice = None
              /\ expenses[i].template = expenses[j].template) => expenses[i].month # expenses[j].month
    /\ ~Types => \A h \in Handlers : At(h, "invoices") =>
         \A invoice \in DOMAIN req[h].paid \ req[h].left : Known(invoice)
=============================================================================
