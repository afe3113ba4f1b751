----------------------------- MODULE MCBilling ------------------------------
EXTENDS Billing


MCPayments ==
    [p1 |-> [invoice |-> <<"EXT", 1>>, product |-> "yekoli", subject |-> "k1"],
     p2 |-> [invoice |-> None, product |-> "yekoli", subject |-> "k2"],
     p3 |-> [invoice |-> <<"FAC", 1>>, product |-> "yekoli", subject |-> "k1"]]

MCSubscriptions == [s1 |-> [product |-> "yekoli", renews |-> 1]]

NoRows == [i \in {} |-> None]

Base == [handlers |-> {1}, clock |-> FALSE, payments |-> {}, renewing |-> {}, catalogue |-> {"yekoli"}, faults |-> 0, reminding |-> FALSE,
         invoices |-> NoRows, quotes |-> NoRows, writable |-> {}, amounts |-> {}, rates |-> {},
         lines |-> {}, typed |-> {}, statuses |-> {}, dues |-> {}, opportunities |-> NoRows,
         contracts |-> NoRows, clients |-> {"c1"}, projects |-> {"j1"}, stages |-> {}, ends |-> {},
         engaging |-> {}, decisions |-> {}, adjusts |-> {}]

Invoice1 == [client |-> "c1", project |-> "j1", contract |-> None,
             number |-> <<"FAC", 7>>, amount |-> 2, paid |-> 0, rate |-> 0, lines |-> None,
             status |-> "sent", receipt |-> None, voided |-> FALSE, due |-> 2]

Quote1 == [client |-> "c1", project |-> "j1",
           number |-> <<"DEV", 7>>, lines |-> 1, rate |-> 0, total |-> 1, status |-> "sent",
           opportunity |-> None, due |-> 2]

Opportunity1 == [client |-> "c1", project |-> None, won |-> FALSE]

Contract1 == [client |-> "c1", project |-> None, opportunity |-> None, status |-> "signed", end |-> 2]

\* One invoice, two requests at once: what a receipt is worth.
Receipts ==
    [Base EXCEPT !.handlers = {1, 2}, !.invoices = [i \in {1} |-> Invoice1], !.amounts = {1, 2},
                 !.statuses = {"sent", "cancelled"}]

\* Amounts, lines and taxes of an invoice.
Amending ==
    [Base EXCEPT !.writable = {1}, !.amounts = {0, 3}, !.rates = {0, 50}, !.lines = {None, 2},
                 !.statuses = {"draft"}, !.dues = {1}]

\* Two invoices numbered by hand and by the counter.
Numbering ==
    [Base EXCEPT !.writable = {1, 2}, !.amounts = {0, 3}, !.rates = {0}, !.lines = {None},
                 !.statuses = {"draft"}, !.dues = {1}, !.typed = {<<"FAC", 1>>}]

\* A quote, its opportunity, and the invoices it is converted into.
Quoting ==
    [Base EXCEPT !.writable = {1, 2}, !.rates = {0, 50}, !.lines = {2}, !.dues = {1},
                 !.opportunities = [o \in {"o1"} |-> Opportunity1], !.engaging = {"opportunities"},
                 !.decisions = {"accepted"}]

\* Reminders of an invoice and a quote whose dates come near and move away.
Reminding ==
    [Base EXCEPT !.reminding = TRUE, !.clock = TRUE, !.invoices = [i \in {1} |-> Invoice1],
                 !.quotes = [i \in {1} |-> Quote1], !.statuses = {"sent", "cancelled"}, !.dues = {1, 2},
                 !.decisions = {"sent", "rejected"}]

RemindersOverlap == [Reminding EXCEPT !.handlers = {1, 2}, !.quotes = NoRows, !.dues = {2}]

\* An opportunity and a contract that follows it, then a quote.
Contracting ==
    [Base EXCEPT !.clients = Clients, !.projects = Projects, !.stages = {"draft"}, !.ends = {None},
                 !.engaging = {"opportunities", "contracts"}]

Offering ==
    [Base EXCEPT !.clients = Clients, !.projects = Projects, !.lines = {2}, !.rates = {0}, !.dues = {1},
                 !.engaging = {"opportunities"}]

\* What is billed to a contract, and what is charged to it.
Charging ==
    [Base EXCEPT !.clients = Clients, !.projects = Projects, !.stages = {"draft"}, !.ends = {None},
                 !.writable = {1}, !.amounts = {0}, !.rates = {0}, !.lines = {None},
                 !.statuses = {"draft"}, !.dues = {1}, !.engaging = {"contracts", "invoices"}]

Spending == [Charging EXCEPT !.engaging = {"contracts", "expenses"}]

\* Hours on tickets that change project.
Timing == [Base EXCEPT !.projects = Projects, !.engaging = {"times"}]

\* Contracts that come to their end.
Ending ==
    [Base EXCEPT !.reminding = TRUE, !.clock = TRUE, !.contracts = [c \in {"ct1"} |-> Contract1],
                 !.stages = {"active", "completed"}, !.ends = {None, 2, 4}, !.engaging = {"contracts"}]

\* Two payments, and an operator who corrects rows.
Paying ==
    [Base EXCEPT !.payments = {"p1", "p2"}, !.catalogue = {}, !.adjusts = {"late"}, !.faults = 1]

\* Daily runs, failing and interrupted, and an operator who corrects rows.
Renewing ==
    [Base EXCEPT !.renewing = {"s1"}, !.clock = TRUE, !.adjusts = {"paid", "late"}, !.faults = 3]

\* Numbers drawn by a payment and a run at once.
PayingAndRenewing ==
    [Base EXCEPT !.payments = {"p2"}, !.renewing = {"s1"}, !.clock = TRUE, !.faults = 1]

\* An upcoming invoice is paid, and corrected, while runs fail and start again.
PayingUpcoming ==
    [Base EXCEPT !.payments = {"p3"}, !.renewing = {"s1"}, !.adjusts = {"late"}, !.faults = 1]

MCModes == {Receipts, Amending, Numbering, Quoting, Reminding, RemindersOverlap,
            Contracting, Offering, Charging, Spending, Timing, Ending, Paying,
            Renewing, PayingAndRenewing, PayingUpcoming}

OverlappingReceipts == {Receipts}
=============================================================================
