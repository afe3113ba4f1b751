---------------------------- MODULE Engagements -----------------------------
(***************************************************************************)
(* What a commercial document is tied to: opportunities and contracts,     *)
(* the expenses charged to a contract and the hours to a work item         *)
(* (business.service.ts, business-operations.service.ts).  A request       *)
(* checks the row it would write against the rows it points to, and saves  *)
(* the whole row later; amounts, numbers of contracts and wording are left *)
(* out, and so are clients, which nothing removes.                         *)
(*                                                                         *)
(* Documents take their numbers from counters, those of subscriptions too  *)
(* (business-number-sequence.ts).  A number is its prefix and its rank:    *)
(* one year is modelled, and every year has counters of its own.           *)
(***************************************************************************)
EXTENDS Requests

CONSTANTS
    LastDay,        \* bound on the calendar
    Clients, Projects,
    Opportunities, Contracts, Expenses, TimeEntries,    \* ids
    WorkItems

VARIABLES
    sequence,       \* business_number_sequences: prefix -> last_value
    today,
    opportunities,  \* business_opportunities: id -> row
    contracts,      \* business_contracts: id -> row
    expenses,       \* business_expenses: id -> row
    times,          \* project_time_entries: id -> row
    home            \* work_items: id -> its project

engagements == <<opportunities, contracts, expenses, times, home>>

Prefixes == {"FAC", "REC", "DEV"}
Numbers == Prefixes \X (Nat \ {0})

\* INSERT ... ON CONFLICT DO UPDATE ... RETURNING: one statement.
NextNumber(prefix) == <<prefix, sequence[prefix] + 1>>
Draws(prefix) == sequence' = [sequence EXCEPT ![prefix] = @ + 1]

-----------------------------------------------------------------------------
ContractStatuses == {"draft", "sent", "signed", "active", "completed", "cancelled"}

OpportunityRows == [client : Clients, project : Projects \cup {None}, won : BOOLEAN]

ContractRows ==
    [client : Clients, project : Projects \cup {None}, opportunity : Opportunities \cup {None},
     status : ContractStatuses, end : Nat \cup {None}]

ExpenseRows == [project : Projects, contract : Contracts \cup {None}]

TimeRows == [project : Projects, item : WorkItems \cup {None}]

-----------------------------------------------------------------------------
SameProject(a, b) == a = None \/ b = None \/ a = b

\* assertOpportunity(), and assertQuoteLinks() for a quote.
FollowsOpportunity(row, table) ==
    row.opportunity # None =>
        /\ row.opportunity \in DOMAIN table
        /\ table[row.opportunity].client = row.client
        /\ SameProject(row.project, table[row.opportunity].project)

\* "La depense et le contrat doivent appartenir au meme projet".
FollowsContract(row, table) ==
    row.contract # None =>
        /\ row.contract \in DOMAIN table
        /\ table[row.contract].project \in {None, row.project}

\* assertInvoiceContract(): the client too.
BillsContract(row, table) ==
    /\ FollowsContract(row, table)
    /\ row.contract # None => table[row.contract].client = row.client

\* assertTimeLinks().
FollowsItem(row, table) == row.item # None => table[row.item] = row.project

\* dto.x ?? item.x: a null in the body is checked as if it were absent ...
Effective(value, current) == IF value = None THEN current ELSE Given(value, current)

CheckedTie(row, dto) == [f \in DOMAIN dto |-> Effective(dto[f], row[f])]

\* ... and written all the same, by Object.assign.
Patched(row, dto) == [f \in DOMAIN row |-> IF f \in DOMAIN dto THEN Given(dto[f], row[f]) ELSE row[f]]

-----------------------------------------------------------------------------
Writes(h, table, id, row) ==
    /\ Awaits(h, [at |-> "save engagement", table |-> table, id |-> id, row |-> row])
    /\ UNCHANGED <<sequence, today, engagements>>

CreateOpportunity(h, o, row) ==
    MayStart(h) /\ o \notin DOMAIN opportunities /\ Writes(h, "opportunities", o, row)

\* A move of the opportunity asks nothing of what follows it.
UpdateOpportunity(h, o, dto) ==
    MayStart(h) /\ o \in DOMAIN opportunities
    /\ Writes(h, "opportunities", o, Patched(opportunities[o], dto))

CreateContract(h, c, row) ==
    /\ MayStart(h) /\ c \notin DOMAIN contracts
    /\ FollowsOpportunity(row, opportunities)
    /\ Writes(h, "contracts", c, row)

UpdateContract(h, c, dto) ==
    /\ MayStart(h) /\ c \in DOMAIN contracts
    /\ FollowsOpportunity(CheckedTie(contracts[c], dto), opportunities)
    /\ Writes(h, "contracts", c, Patched(contracts[c], dto))

CreateExpense(h, e, row) ==
    /\ MayStart(h) /\ e \notin DOMAIN expenses
    /\ FollowsContract(row, contracts)
    /\ Writes(h, "expenses", e, row)

UpdateExpense(h, e, dto) ==
    /\ MayStart(h) /\ e \in DOMAIN expenses
    /\ FollowsContract(CheckedTie(expenses[e], dto), contracts)
    /\ Writes(h, "expenses", e, Patched(expenses[e], dto))

CreateTimeEntry(h, t, row) ==
    /\ MayStart(h) /\ t \notin DOMAIN times
    /\ FollowsItem(row, home)
    /\ Writes(h, "times", t, row)

\* Mutant: only the links the body gives are checked.
UpdateTimeEntryAsGiven(h, t, dto) ==
    /\ MayStart(h) /\ t \in DOMAIN times
    /\ dto.item \in WorkItems => FollowsItem(CheckedTie(times[t], dto), home)
    /\ Writes(h, "times", t, Patched(times[t], dto))

UpdateTimeEntry(h, t, dto) ==
    /\ MayStart(h) /\ t \in DOMAIN times
    /\ FollowsItem(CheckedTie(times[t], dto), home)
    /\ Writes(h, "times", t, Patched(times[t], dto))

\* A ticket changes project without a look at the hours spent on it.
MoveWorkItem(h, i, project) ==
    /\ MayStart(h)
    /\ home' = [home EXCEPT ![i] = project]
    /\ UNCHANGED <<sequence, today, req, mode, opportunities, contracts, expenses, times>>

Stored(h, name, table) ==
    IF req[h].table = name THEN With(table, req[h].id, req[h].row) ELSE table

SaveEngagement(h) ==
    /\ req[h].at = "save engagement"
    /\ opportunities' = Stored(h, "opportunities", opportunities)
    /\ contracts' = Stored(h, "contracts", contracts)
    /\ expenses' = Stored(h, "expenses", expenses)
    /\ times' = Stored(h, "times", times)
    /\ Ends(h)
    /\ UNCHANGED <<sequence, today, home>>

-----------------------------------------------------------------------------
\* The rows a step writes agree with those they point to.
Written(before, after) == {k \in DOMAIN after : k \notin DOMAIN before \/ before[k] # after[k]}

EngagementsAgree ==
    /\ \A c \in Written(contracts, contracts') : FollowsOpportunity(contracts'[c], opportunities')
    /\ \A e \in Written(expenses, expenses') : FollowsContract(expenses'[e], contracts')
    /\ \A t \in Written(times, times') : FollowsItem(times'[t], home')
=============================================================================
