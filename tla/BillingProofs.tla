--------------------------- MODULE BillingProofs ----------------------------
(***************************************************************************)
(* Proofs about the money side of HQ: what a receipt was given for stands, *)
(* the links a request writes agree with what they point to, and a         *)
(* synchronisation of reminders settles them.                              *)
(*                                                                         *)
(* The three follow from what the requests in flight hold: a request reads *)
(* a row and checks what it will write, and writes later.  PapersInv says  *)
(* what each await still knows of the tables, when nothing overlaps it.    *)
(***************************************************************************)
EXTENDS Billing, FiniteSetTheorems, TLAPS

TieFields == {"client", "project", "contract"}

InvoiceFields ==
    TieFields \cup {"number", "amount", "paid", "rate", "lines", "status", "receipt", "voided", "due"}

QuoteFields ==
    {"client", "project", "number", "lines", "rate", "total", "status", "opportunity", "due"}

Shaped(table, fields) == \A id \in DOMAIN table : DOMAIN table[id] = fields

RowsShaped ==
    /\ Shaped(invoices, InvoiceFields) /\ Shaped(quotes, QuoteFields)
    /\ Shaped(opportunities, {"client", "project", "won"})
    /\ Shaped(contracts, {"client", "project", "opportunity", "status", "end"})
    /\ Shaped(expenses, {"project", "contract"}) /\ Shaped(times, {"project", "item"})
    /\ \A f \in DOMAIN reminders : reminders[f] \in ReminderStatuses

Tie(row) == <<row.client, row.project, row.contract>>

-----------------------------------------------------------------------------
\* What a request r knows of the rows it is about to write; `lone` says that no
\* other request may have come between.
InvoiceInHand(r, lone, I, C) ==
    /\ r.at \in {"save invoice", "mint"} =>
          r.id \in DOMAIN I /\ DOMAIN r.row = InvoiceFields
    /\ lone /\ r.at = "save invoice" =>
          /\ ReceiptKept(I[r.id], [r.row EXCEPT !.lines = Given(r.lines, I[r.id].lines)])
          /\ Tie(r.row) = Tie(I[r.id]) \/ BillsContract(r.row, C)
    /\ lone /\ r.at = "mint" => r.row = I[r.id] /\ r.row.receipt = None

QuoteInHand(r, lone, Q, O) ==
    /\ r.at \in {"save quote", "bill quote", "accept quote"} => r.id \in DOMAIN Q
    /\ r.at = "save quote" => DOMAIN r.row = QuoteFields
    /\ lone /\ r.at = "save quote" => FollowsOpportunity(r.tie, O)

EngagementInHand(r, lone, O, C, H) ==
    r.at = "save engagement" =>
        /\ r.table = "opportunities" => DOMAIN r.row = {"client", "project", "won"}
        /\ r.table = "contracts" =>
              /\ DOMAIN r.row = {"client", "project", "opportunity", "status", "end"}
              /\ lone => FollowsOpportunity(r.row, O)
        /\ r.table = "expenses" =>
              DOMAIN r.row = {"project", "contract"} /\ (lone => FollowsContract(r.row, C))
        /\ r.table = "times" =>
              DOMAIN r.row = {"project", "item"} /\ (lone => FollowsItem(r.row, H))

Pending(R) == {f \in DOMAIN R : R[f] = "pending"}

\* A list of reminders under way: what is due and treated has its reminder.
Listing(r, lone, treated) ==
    /\ r.at = "sync" /\ {"at", "left", "due"} \subseteq DOMAIN r
    /\ lone => r.due \subseteq treated \cup r.left

ReminderInHand(r, lone, R) ==
    /\ r.at = "sync" => Listing(r, lone, DOMAIN R)
    /\ r.at = "upsert" =>
          /\ Listing(r.rest, lone, DOMAIN R \cup {r.fingerprint})
          /\ lone => IF r.new THEN r.fingerprint \notin DOMAIN R ELSE r.fingerprint \in Pending(R)
    /\ lone /\ r.at = "dismiss" => r.obsolete = Pending(R) \ r.due /\ r.due \subseteq DOMAIN R
    /\ r.at = "save reminder" => r.status \in ReminderStatuses

InHandOK(r, lone, I, Q, O, C, H, R) ==
    /\ InvoiceInHand(r, lone, I, C) /\ QuoteInHand(r, lone, Q, O)
    /\ EngagementInHand(r, lone, O, C, H) /\ ReminderInHand(r, lone, R)

RequestsKnow ==
    /\ req = [h \in Handlers |-> req[h]]
    /\ \A h \in Handlers :
          /\ req[h].at # "idle" => h \in mode.handlers
          /\ InHandOK(req[h], Orderly, invoices, quotes, opportunities, contracts, home, reminders)

\* The inductive invariant behind the three action properties.
PapersInv == mode \in Modes /\ RowsShaped /\ RequestsKnow /\ faults \in Nat

-----------------------------------------------------------------------------
\* A step leaves alone what a receipt was given for, writes links that agree
\* with what they point to, and settles the reminders a synchronisation is about.
ReceiptsKept == Orderly => \A i \in DOMAIN invoices : ReceiptKept(invoices[i], invoices'[i])

LinksAgree ==
    Orderly =>
        /\ EngagementsAgree
        /\ \A q \in Written(quotes, quotes') :
              CheckedElsewhere(q) \/ FollowsOpportunity(quotes'[q], opportunities')
        /\ \A i \in Written(TiesOf(invoices), TiesOf(invoices')) : BillsContract(invoices'[i], contracts')

Settled ==
    \A h \in Handlers : Orderly /\ mode.faults = 0 /\ Syncing(h) =>
        /\ \A f \in DOMAIN reminders : reminders[f] # "pending" => reminders'[f] = reminders[f]
        /\ req'[h] = Idle =>
              /\ {f \in DOMAIN reminders' : reminders'[f] = "pending"} \subseteq req[h].due
              /\ req[h].due \subseteq DOMAIN reminders'

GoodStep == PapersInv' /\ ReceiptsKept /\ LinksAgree /\ Settled

\* In order, one handler makes every request.
LEMMA OneHand ==
    ASSUME BillingAssumption, mode \in Modes, Orderly, NEW g \in mode.handlers, NEW h \in mode.handlers
    PROVE  g = h
<1>1. IsFiniteSet(mode.handlers)
  BY FS_Subset DEF BillingAssumption
<1>2. PICK x : mode.handlers = {x}
  BY <1>1, FS_Singleton DEF Orderly
<1> QED BY <1>2

LEMMA IdleAt == Idle.at = "idle"
BY DEF Idle

\* An idle request knows nothing.
LEMMA IdleKnows ==
    ASSUME NEW r, r.at = "idle", NEW lone, NEW I, NEW Q, NEW O, NEW C, NEW H, NEW R
    PROVE  InHandOK(r, lone, I, Q, O, C, H, R)
BY DEF InHandOK, InvoiceInHand, QuoteInHand, EngagementInHand, ReminderInHand

\* What a request knows when others may come between is kept as long as no row
\* goes.
LEMMA KnownApart ==
    ASSUME NEW r, NEW lone \in BOOLEAN, NEW I, NEW Q, NEW O, NEW C, NEW H, NEW R,
           NEW J, NEW P, NEW N, NEW D, NEW G, NEW S,
           InHandOK(r, lone, I, Q, O, C, H, R), ~lone, DOMAIN I \subseteq DOMAIN J, DOMAIN Q \subseteq DOMAIN P
    PROVE  InHandOK(r, lone, J, P, N, D, G, S)
BY DEF InHandOK, InvoiceInHand, QuoteInHand, EngagementInHand, ReminderInHand, Listing

\* A step of one request: the others know what they knew.
LEMMA OthersKnow ==
    ASSUME BillingAssumption, mode \in Modes, RequestsKnow, NEW h \in Handlers, h \in mode.handlers,
           NEW r, Awaits(h, r),
           DOMAIN invoices \subseteq DOMAIN invoices', DOMAIN quotes \subseteq DOMAIN quotes',
           InHandOK(r, Orderly, invoices', quotes', opportunities', contracts', home', reminders')
    PROVE  RequestsKnow'
<1>1. UNCHANGED mode /\ req' = [req EXCEPT ![h] = r] /\ DOMAIN req = Handlers /\ Orderly' = Orderly
  BY DEF Awaits, RequestsKnow, Orderly
<1>2. ASSUME NEW g \in Handlers
      PROVE  /\ req'[g].at # "idle" => g \in mode'.handlers
             /\ InHandOK(req'[g], Orderly, invoices', quotes', opportunities', contracts', home', reminders')
  <2>1. CASE g = h
    <3>1. req'[g] = r
      BY <1>1, <2>1
    <3> QED BY <1>1, <2>1, <3>1
  <2>2. CASE g # h
    <3>1. req'[g] = req[g]
      BY <1>1, <2>2
    <3>2. req[g].at # "idle" => g \in mode.handlers
      BY DEF RequestsKnow
    <3>3. CASE Orderly
      <4>1. req[g].at = "idle"
        BY <2>2, <3>2, <3>3, OneHand
      <4> QED BY <3>1, <4>1, IdleKnows
    <3>4. CASE ~Orderly
      <4>1. Orderly \in BOOLEAN
        BY DEF Orderly
      <4>2. InHandOK(req[g], Orderly, invoices, quotes, opportunities, contracts, home, reminders)
        BY DEF RequestsKnow
      <4>3. InHandOK(req[g], Orderly, invoices', quotes', opportunities', contracts', home', reminders')
        BY <3>4, <4>1, <4>2, KnownApart
      <4> QED BY <1>1, <3>1, <3>2, <4>3
    <3> QED BY <3>3, <3>4
  <2> QED BY <2>1, <2>2
<1> QED BY <1>1, <1>2 DEF RequestsKnow

\* Where no row changes, none is written.
LEMMA NothingWritten ==
    ASSUME UNCHANGED documents
    PROVE  ReceiptsKept /\ LinksAgree /\ (RowsShaped => RowsShaped')
<1>1. UNCHANGED <<invoices, quotes, reminders, opportunities, contracts, expenses, times, home>>
  BY DEF documents, engagements
<1>2. ReceiptsKept
  BY <1>1 DEF ReceiptsKept, ReceiptKept
<1>3. LinksAgree
  BY <1>1 DEF LinksAgree, EngagementsAgree, Written, TiesOf
<1>4. RowsShaped => RowsShaped'
  BY <1>1 DEF RowsShaped, Shaped
<1> QED BY <1>2, <1>3, <1>4

\* A request that reads, and remembers r; a synchronisation remembers it is one.
LEMMA Read ==
    ASSUME BillingAssumption, PapersInv, NEW h \in Handlers, h \in mode.handlers, NEW r, Awaits(h, r),
           UNCHANGED <<documents, faults>>,
           InHandOK(r, Orderly, invoices, quotes, opportunities, contracts, home, reminders),
           req[h].at \notin {"sync", "upsert", "dismiss"} \/ r.at # "idle"
    PROVE  GoodStep
<1>1. UNCHANGED <<invoices, quotes, reminders, opportunities, contracts, expenses, times, home, mode, faults>>
  BY DEF documents, engagements, Awaits
<1>2. RequestsKnow'
  BY <1>1, OthersKnow DEF PapersInv
<1>3. PapersInv'
  BY <1>1, <1>2, NothingWritten DEF PapersInv
<1>4. ASSUME NEW g \in Handlers, Syncing(g)
      PROVE  reminders' = reminders /\ req'[g] # Idle
  <2>1. req' = [req EXCEPT ![h] = r] /\ DOMAIN req = Handlers
    BY DEF Awaits, PapersInv, RequestsKnow
  <2>2. g = h
    BY <1>4, <2>1 DEF Syncing
  <2>3. req'[g] = r /\ r.at # "idle"
    BY <1>4, <2>1, <2>2 DEF Syncing
  <2> QED BY <1>1, <2>3, IdleAt
<1>5. Settled
  BY <1>4 DEF Settled
<1> QED BY <1>3, <1>5, NothingWritten DEF GoodStep

\* A request that writes, and is done: what it writes is to be shown.
LEMMA Wrote ==
    ASSUME BillingAssumption, PapersInv, NEW h \in Handlers, h \in mode.handlers, NEW r, Awaits(h, r),
           InHandOK(r, Orderly, invoices', quotes', opportunities', contracts', home', reminders'),
           DOMAIN invoices \subseteq DOMAIN invoices', DOMAIN quotes \subseteq DOMAIN quotes',
           RowsShaped', faults' = faults, ReceiptsKept, LinksAgree,
           req[h].at \in {"sync", "upsert", "dismiss"} => Settled
    PROVE  GoodStep
<1>1. RequestsKnow'
  BY OthersKnow DEF PapersInv
<1>2. PapersInv'
  BY <1>1 DEF PapersInv, Awaits
<1>3. Settled
  <2>1. req' = [req EXCEPT ![h] = r] /\ DOMAIN req = Handlers
    BY DEF Awaits, PapersInv, RequestsKnow
  <2> QED BY <2>1 DEF Settled, Syncing
<1> QED BY <1>2, <1>3 DEF GoodStep

-----------------------------------------------------------------------------
\* What the bodies of requests leave of a row.
LEMMA PatchedShape == \A row, dto : DOMAIN Patched(row, dto) = DOMAIN row
BY DEF Patched

\* The links that were checked are those that are written: a null is checked as
\* what was there, and asks nothing once it is.
LEMMA PatchedBills ==
    ASSUME None \notin Clients \cup Projects, NEW row, NEW dto, NEW table,
           DOMAIN dto = TieFields, TieFields \subseteq DOMAIN row,
           dto.client # None, dto.project # None, BillsContract(CheckedTie(row, dto), table)
    PROVE  BillsContract(Patched(row, dto), table)
<1>1. /\ CheckedTie(row, dto).client = Effective(dto.client, row.client)
      /\ CheckedTie(row, dto).project = Effective(dto.project, row.project)
      /\ CheckedTie(row, dto).contract = Effective(dto.contract, row.contract)
  BY DEF CheckedTie, TieFields
<1>2. /\ Patched(row, dto).client = Given(dto.client, row.client)
      /\ Patched(row, dto).project = Given(dto.project, row.project)
      /\ Patched(row, dto).contract = Given(dto.contract, row.contract)
  BY DEF Patched, TieFields
<1> DEFINE checked == CheckedTie(row, dto)
           patched == Patched(row, dto)
<1>3. checked.client = patched.client /\ checked.project = patched.project
  BY <1>1, <1>2 DEF Effective
<1>4. patched.contract # None => checked.contract = patched.contract
  BY <1>1, <1>2 DEF Effective, Given
<1> HIDE DEF checked, patched
<1>5. BillsContract(checked, table)
  BY DEF checked
<1>6. BillsContract(patched, table)
  BY <1>3, <1>4, <1>5 DEF BillsContract, FollowsContract
<1> QED BY <1>6 DEF patched

-----------------------------------------------------------------------------
\* The table of invoices after a step that writes the row k and none other.
LEMMA InvoiceWritten ==
    ASSUME PapersInv, NEW k, NEW row, DOMAIN row = InvoiceFields,
           DOMAIN invoices' = DOMAIN invoices \cup {k}, invoices'[k] = row,
           \A i \in DOMAIN invoices \ {k} : invoices'[i] = invoices[i],
           UNCHANGED <<quotes, reminders, engagements>>,
           Orderly /\ k \in DOMAIN invoices => ReceiptKept(invoices[k], row),
           Orderly => \/ k \in DOMAIN invoices /\ Tie(row) = Tie(invoices[k])
                      \/ BillsContract(row, contracts)
    PROVE  RowsShaped' /\ ReceiptsKept /\ LinksAgree
<1>1. UNCHANGED <<quotes, reminders, opportunities, contracts, expenses, times, home>>
  BY DEF engagements
<1>2. RowsShaped'
  BY <1>1 DEF PapersInv, RowsShaped, Shaped
<1>3. ReceiptsKept
  BY DEF ReceiptsKept, ReceiptKept
<1>4. ASSUME Orderly, NEW i \in Written(TiesOf(invoices), TiesOf(invoices'))
      PROVE  BillsContract(invoices'[i], contracts')
  <2>1. /\ i \in DOMAIN invoices'
        /\ i \notin DOMAIN invoices \/ Tie(invoices[i]) # Tie(invoices'[i])
    BY DEF Written, TiesOf, Tie
  <2>2. i = k
    BY <2>1
  <2> QED BY <1>1, <1>4, <2>1, <2>2
<1>5. LinksAgree
  BY <1>1, <1>4 DEF LinksAgree, EngagementsAgree, Written
<1> QED BY <1>2, <1>3, <1>5

\* A new invoice bills the contract it names.
LEMMA InvoiceAdded ==
    ASSUME PapersInv, NEW i, NEW typed, NEW row, Invoice(i, typed, row),
           UNCHANGED <<quotes, reminders, engagements>>
    PROVE  DOMAIN invoices \subseteq DOMAIN invoices' /\ RowsShaped' /\ ReceiptsKept /\ LinksAgree
<1> DEFINE number == IF typed = None THEN NextNumber("FAC") ELSE typed
           new == [client |-> row.tie.client, project |-> row.tie.project,
                   contract |-> row.tie.contract, number |-> number, amount |-> row.amount,
                   paid |-> row.paid, rate |-> row.rate, lines |-> row.lines, due |-> row.due,
                   receipt |-> None, voided |-> FALSE,
                   status |-> PaymentStatus(row.status, row.amount, row.paid)]
<1>1. i \notin DOMAIN invoices /\ invoices' = With(invoices, i, new) /\ BillsContract(row.tie, contracts)
  BY DEF Invoice, FreshIn
<1>2. DOMAIN new = InvoiceFields
  BY DEF InvoiceFields, TieFields
<1>3. new.client = row.tie.client /\ new.project = row.tie.project /\ new.contract = row.tie.contract
  OBVIOUS
<1>4. PICK it : it = new
  OBVIOUS
<1> HIDE DEF new
<1>5. BillsContract(it, contracts)
  BY <1>1, <1>3, <1>4 DEF BillsContract, FollowsContract
<1>6. /\ DOMAIN invoices' = DOMAIN invoices \cup {i} /\ invoices'[i] = it
      /\ \A k \in DOMAIN invoices \ {i} : invoices'[k] = invoices[k]
  BY <1>1, <1>4 DEF With
<1>7. DOMAIN it = InvoiceFields
  BY <1>2, <1>4
<1> QED BY <1>1, <1>5, <1>6, <1>7, InvoiceWritten

\* A row saved whole: the lines are those given, or those that are there.
LEMMA InvoiceSaved ==
    ASSUME PapersInv, NEW k \in DOMAIN invoices, NEW row, NEW lines, DOMAIN row = InvoiceFields,
           invoices' = Saved(invoices, k, row, lines), UNCHANGED <<quotes, reminders, engagements>>,
           Orderly => ReceiptKept(invoices[k], [row EXCEPT !.lines = Given(lines, invoices[k].lines)]),
           Orderly => Tie(row) = Tie(invoices[k]) \/ BillsContract(row, contracts)
    PROVE  DOMAIN invoices' = DOMAIN invoices /\ RowsShaped' /\ ReceiptsKept /\ LinksAgree
<1>1. CASE NumberFree(invoices, row.number, k)
  <2>1. PICK new : new = [row EXCEPT !.lines = Given(lines, invoices[k].lines)]
    OBVIOUS
  <2>2. invoices' = [invoices EXCEPT ![k] = new]
    BY <1>1, <2>1 DEF Saved
  <2>3. DOMAIN new = InvoiceFields /\ new.client = row.client /\ new.project = row.project
        /\ new.contract = row.contract
    BY <2>1 DEF InvoiceFields, TieFields
  <2>4. Tie(new) = Tie(row) /\ (BillsContract(row, contracts) => BillsContract(new, contracts))
    BY <2>3 DEF Tie, BillsContract, FollowsContract
  <2>5. Orderly => ReceiptKept(invoices[k], new)
    BY <2>1
  <2>6. /\ DOMAIN invoices' = DOMAIN invoices \cup {k} /\ invoices'[k] = new
        /\ \A i \in DOMAIN invoices \ {k} : invoices'[i] = invoices[i]
    BY <2>2
  <2>7. RowsShaped' /\ ReceiptsKept /\ LinksAgree
    BY <2>3, <2>4, <2>5, <2>6, InvoiceWritten
  <2> QED BY <2>6, <2>7
<1>2. CASE ~NumberFree(invoices, row.number, k)
  <2>1. UNCHANGED documents
    BY <1>2 DEF Saved, documents
  <2> QED BY <2>1, NothingWritten DEF PapersInv, documents
<1> QED BY <1>1, <1>2

\* What an update makes of an invoice.
LEMMA PatchedInvoiceFields ==
    ASSUME NEW item, NEW dto, DOMAIN item = InvoiceFields, DOMAIN dto.tie = TieFields,
           NEW row, row = PatchedInvoice(item, dto)
    PROVE  /\ DOMAIN row = InvoiceFields
           /\ row.amount = Given(dto.amount, item.amount) /\ row.paid = Given(dto.paid, item.paid)
           /\ row.rate = Given(dto.rate, item.rate) /\ row.lines = Given(dto.lines, item.lines)
           /\ row.receipt = item.receipt /\ row.voided = item.voided
           /\ \A f \in TieFields : row[f] = Patched(item, dto.tie)[f]
<1>1. PICK linked : linked = Patched(item, dto.tie)
  OBVIOUS
<1>2. DOMAIN linked = InvoiceFields /\ linked.receipt = item.receipt /\ linked.voided = item.voided
      /\ linked.rate = item.rate /\ linked.lines = item.lines
  BY <1>1 DEF Patched, InvoiceFields, TieFields
<1>3. PICK status, number, due :
          row = [linked EXCEPT !.number = number, !.amount = Given(dto.amount, item.amount),
                               !.paid = Given(dto.paid, item.paid), !.rate = Given(dto.rate, item.rate),
                               !.lines = Given(dto.lines, item.lines), !.due = due, !.status = status]
  BY <1>1, <1>2 DEF PatchedInvoice, InvoiceFields, TieFields
<1> QED BY <1>1, <1>2, <1>3 DEF InvoiceFields, TieFields

\* An update that is let through keeps the receipt, and bills the contract.
LEMMA UpdateReads ==
    ASSUME BillingAssumption, PapersInv, NEW h \in Handlers, NEW i, NEW dto \in InvoicePatches,
           UpdateInvoice(h, i, dto), UNCHANGED subscribed
    PROVE  GoodStep
<1>1. PICK item : item = invoices[i]
  OBVIOUS
<1>2. PICK row : row = PatchedInvoice(item, dto)
  OBVIOUS
<1>3. PICK r : r = [at |-> "save invoice", id |-> i, row |-> row, lines |-> dto.lines]
  OBVIOUS
<1>4. /\ MayStart(h) /\ i \in DOMAIN invoices
      /\ item.receipt = None \/ ~ChangesFinancials(item, dto)
      /\ BillsContract(CheckedTie(item, dto.tie), contracts)
      /\ Awaits(h, r) /\ UNCHANGED documents
  BY <1>1, <1>2, <1>3 DEF UpdateInvoice
<1>5. DOMAIN item = InvoiceFields
  BY <1>1, <1>4 DEF PapersInv, RowsShaped, Shaped
<1>6. DOMAIN dto.tie = TieFields /\ dto.tie.client # None /\ dto.tie.project # None
  BY DEF BillingAssumption, PapersInv, InvoicePatches, TiePatches, TieFields, Kept
<1>7. /\ DOMAIN row = InvoiceFields
      /\ row.amount = Given(dto.amount, item.amount) /\ row.paid = Given(dto.paid, item.paid)
      /\ row.rate = Given(dto.rate, item.rate) /\ row.lines = Given(dto.lines, item.lines)
      /\ row.receipt = item.receipt /\ row.voided = item.voided
      /\ \A f \in TieFields : row[f] = Patched(item, dto.tie)[f]
  BY <1>2, <1>5, <1>6, PatchedInvoiceFields
<1>8. BillsContract(Patched(item, dto.tie), contracts)
  BY <1>4, <1>5, <1>6, PatchedBills DEF BillingAssumption, InvoiceFields
<1>9. BillsContract(row, contracts)
  BY <1>7, <1>8 DEF BillsContract, FollowsContract, TieFields
<1>10. ReceiptKept(item, [row EXCEPT !.lines = Given(dto.lines, item.lines)])
  <2>1. PICK is : is = [row EXCEPT !.lines = Given(dto.lines, item.lines)]
    OBVIOUS
  <2>2. /\ is.receipt = row.receipt /\ is.amount = row.amount /\ is.paid = row.paid
        /\ is.rate = row.rate /\ is.voided = row.voided /\ is.lines = Given(dto.lines, item.lines)
    BY <1>7, <2>1 DEF InvoiceFields, TieFields
  <2>3. item.receipt # None =>
          /\ is.amount = item.amount /\ is.paid = item.paid /\ is.rate = item.rate
          /\ is.lines = item.lines
    BY <1>4, <1>7, <2>2 DEF ChangesFinancials, Given
  <2>4. ReceiptKept(item, is)
    BY <1>7, <2>2, <2>3 DEF ReceiptKept
  <2> QED BY <2>1, <2>4
<1>11. InHandOK(r, Orderly, invoices, quotes, opportunities, contracts, home, reminders)
  BY <1>1, <1>3, <1>4, <1>7, <1>9, <1>10
  DEF InHandOK, InvoiceInHand, QuoteInHand, EngagementInHand, ReminderInHand
<1> QED BY <1>4, <1>11, Read DEF MayStart, subscribed

LEMMA InvoiceRequests ==
    ASSUME BillingAssumption, PapersInv, NEW h \in Handlers, InvoiceRequest(h), UNCHANGED subscribed
    PROVE  GoodStep
<1>1. ASSUME NEW i, NEW typed, NEW row, CreateInvoice(h, i, typed, row)
      PROVE  GoodStep
  <2>1. /\ MayStart(h) /\ UNCHANGED <<quotes, reminders, engagements, req, mode>>
        /\ Invoice(i, typed, row)
    BY <1>1 DEF CreateInvoice
  <2>2. DOMAIN invoices \subseteq DOMAIN invoices' /\ RowsShaped' /\ ReceiptsKept /\ LinksAgree
    BY <2>1, InvoiceAdded
  <2>3. PICK r : r = req[h]
    OBVIOUS
  <2>4. Awaits(h, r) /\ r.at = "idle" /\ h \in mode.handlers
    BY <2>1, <2>3 DEF Awaits, MayStart, PapersInv, RequestsKnow
  <2>5. InHandOK(r, Orderly, invoices', quotes', opportunities', contracts', home', reminders')
    BY <2>4, IdleKnows
  <2> QED BY <2>1, <2>2, <2>3, <2>4, <2>5, Wrote DEF subscribed
<1>2. ASSUME NEW i, MarkPaid(h, i)
      PROVE  GoodStep
  <2>1. PICK r : r = [at |-> "mint", id |-> i, row |-> invoices[i]]
    OBVIOUS
  <2>2. /\ MayStart(h) /\ i \in DOMAIN invoices /\ invoices[i].receipt = None
        /\ Awaits(h, r) /\ UNCHANGED documents
    BY <1>2, <2>1 DEF MarkPaid
  <2>3. DOMAIN invoices[i] = InvoiceFields
    BY <2>2 DEF PapersInv, RowsShaped, Shaped
  <2>4. InHandOK(r, Orderly, invoices, quotes, opportunities, contracts, home, reminders)
    BY <2>1, <2>2, <2>3
    DEF InHandOK, InvoiceInHand, QuoteInHand, EngagementInHand, ReminderInHand
  <2> QED BY <2>2, <2>4, Read DEF MayStart, subscribed
<1>3. ASSUME NEW i, VoidReceipt(h, i)
      PROVE  GoodStep
  <2>1. PICK row : row = [invoices[i] EXCEPT !.voided = TRUE]
    OBVIOUS
  <2>2. PICK r : r = [at |-> "save invoice", id |-> i, row |-> row, lines |-> Keep]
    OBVIOUS
  <2>3. /\ MayStart(h) /\ i \in DOMAIN invoices /\ Awaits(h, r) /\ UNCHANGED documents
    BY <1>3, <2>1, <2>2 DEF VoidReceipt
  <2>4. DOMAIN invoices[i] = InvoiceFields
    BY <2>3 DEF PapersInv, RowsShaped, Shaped
  <2>5. /\ DOMAIN row = InvoiceFields /\ Tie(row) = Tie(invoices[i])
        /\ ReceiptKept(invoices[i], [row EXCEPT !.lines = Given(Keep, invoices[i].lines)])
    BY <2>1, <2>4 DEF ReceiptKept, Given, Tie, InvoiceFields, TieFields
  <2>6. InHandOK(r, Orderly, invoices, quotes, opportunities, contracts, home, reminders)
    BY <2>2, <2>3, <2>5
    DEF InHandOK, InvoiceInHand, QuoteInHand, EngagementInHand, ReminderInHand
  <2> QED BY <2>3, <2>6, Read DEF MayStart, subscribed
<1> QED BY <1>1, <1>2, <1>3, UpdateReads DEF InvoiceRequest

\* The saves of invoices, and the minting of a receipt.
LEMMA InvoiceSaves ==
    ASSUME BillingAssumption, PapersInv, NEW h \in Handlers, SaveInvoice(h) \/ Mint(h), UNCHANGED subscribed
    PROVE  GoodStep
<1>1. PICK r : r = req[h]
  OBVIOUS
<1>2. h \in mode.handlers /\ r.id \in DOMAIN invoices /\ DOMAIN r.row = InvoiceFields
      /\ InvoiceInHand(r, Orderly, invoices, contracts)
  BY <1>1, IdleAt DEF SaveInvoice, Mint, PapersInv, RequestsKnow, InHandOK, InvoiceInHand
<1>3. Awaits(h, Idle) /\ UNCHANGED <<quotes, reminders, engagements>> /\ req[h].at \in {"save invoice", "mint"}
  BY DEF SaveInvoice, Mint, Ends
<1>4. InHandOK(Idle, Orderly, invoices', quotes', opportunities', contracts', home', reminders')
  BY IdleAt, IdleKnows
<1>5. ASSUME NEW row, NEW lines, DOMAIN row = InvoiceFields, invoices' = Saved(invoices, r.id, row, lines),
             Orderly => ReceiptKept(invoices[r.id], [row EXCEPT !.lines = Given(lines, invoices[r.id].lines)]),
             Orderly => Tie(row) = Tie(invoices[r.id]) \/ BillsContract(row, contracts)
      PROVE  GoodStep
  <2>1. DOMAIN invoices' = DOMAIN invoices /\ RowsShaped' /\ ReceiptsKept /\ LinksAgree
    BY <1>2, <1>3, <1>5, InvoiceSaved
  <2> QED BY <1>2, <1>3, <1>4, <2>1, Wrote DEF subscribed
<1>6. CASE SaveInvoice(h)
  <2>1. /\ invoices' = Saved(invoices, r.id, r.row, r.lines)
        /\ r.at = "save invoice"
    BY <1>1, <1>6 DEF SaveInvoice
  <2> QED BY <1>2, <1>5, <2>1 DEF InvoiceInHand
<1>7. CASE Mint(h)
  <2>1. PICK paid : paid = [r.row EXCEPT !.paid = r.row.amount, !.status = "paid", !.receipt = NextNumber("REC")]
    OBVIOUS
  <2>2. invoices' = Saved(invoices, r.id, paid, Keep) /\ r.at = "mint"
    BY <1>1, <1>7, <2>1 DEF Mint
  <2>3. DOMAIN paid = InvoiceFields /\ Tie(paid) = Tie(r.row)
    BY <1>2, <2>1 DEF Tie, InvoiceFields, TieFields
  <2>4. Orderly => invoices[r.id].receipt = None /\ r.row = invoices[r.id]
    BY <1>2, <2>2 DEF InvoiceInHand
  <2> QED BY <1>5, <2>2, <2>3, <2>4 DEF ReceiptKept
<1> QED BY <1>6, <1>7

-----------------------------------------------------------------------------
\* The table of quotes after a step that writes the row k and none other.
LEMMA QuoteWritten ==
    ASSUME PapersInv, NEW k, NEW row, DOMAIN row = QuoteFields,
           DOMAIN quotes' = DOMAIN quotes \cup {k}, quotes'[k] = row,
           \A q \in DOMAIN quotes \ {k} : quotes'[q] = quotes[q],
           UNCHANGED <<invoices, reminders, engagements>>,
           Orderly => CheckedElsewhere(k) \/ FollowsOpportunity(row, opportunities)
    PROVE  RowsShaped' /\ ReceiptsKept /\ LinksAgree
<1>1. UNCHANGED <<invoices, reminders, opportunities, contracts, expenses, times, home>>
  BY DEF engagements
<1>2. RowsShaped'
  BY <1>1 DEF PapersInv, RowsShaped, Shaped
<1>3. ReceiptsKept
  BY <1>1 DEF ReceiptsKept, ReceiptKept
<1>4. LinksAgree
  BY <1>1 DEF LinksAgree, EngagementsAgree, Written, TiesOf
<1> QED BY <1>2, <1>3, <1>4

LEMMA QuoteSaved ==
    ASSUME PapersInv, NEW k \in DOMAIN quotes, NEW row, NEW lines, DOMAIN row = QuoteFields,
           quotes' = Saved(quotes, k, row, lines), UNCHANGED <<invoices, reminders, engagements>>,
           Orderly => CheckedElsewhere(k) \/ FollowsOpportunity(row, opportunities)
    PROVE  DOMAIN quotes' = DOMAIN quotes /\ RowsShaped' /\ ReceiptsKept /\ LinksAgree
<1>1. CASE NumberFree(quotes, row.number, k)
  <2>1. PICK new : new = [row EXCEPT !.lines = Given(lines, quotes[k].lines)]
    OBVIOUS
  <2>2. quotes' = [quotes EXCEPT ![k] = new]
    BY <1>1, <2>1 DEF Saved
  <2>3. DOMAIN new = QuoteFields /\ new.client = row.client /\ new.project = row.project
        /\ new.opportunity = row.opportunity
    BY <2>1 DEF QuoteFields
  <2>4. FollowsOpportunity(row, opportunities) => FollowsOpportunity(new, opportunities)
    BY <2>3 DEF FollowsOpportunity
  <2>5. /\ DOMAIN quotes' = DOMAIN quotes \cup {k} /\ quotes'[k] = new
        /\ \A q \in DOMAIN quotes \ {k} : quotes'[q] = quotes[q]
    BY <2>2
  <2>6. RowsShaped' /\ ReceiptsKept /\ LinksAgree
    BY <2>3, <2>4, <2>5, QuoteWritten
  <2> QED BY <2>5, <2>6
<1>2. CASE ~NumberFree(quotes, row.number, k)
  <2>1. UNCHANGED documents
    BY <1>2 DEF Saved, documents
  <2> QED BY <2>1, NothingWritten DEF PapersInv, documents
<1> QED BY <1>1, <1>2

\* A request that reads a quote and patches it has its links checked.
LEMMA QuoteRead ==
    ASSUME BillingAssumption, PapersInv, NEW h \in Handlers, h \in mode.handlers,
           NEW q \in DOMAIN quotes, NEW dto, ReadsQuote(h, q, dto), UNCHANGED documents,
           UNCHANGED subscribed, req[h].at \notin {"sync", "upsert", "dismiss"}
    PROVE  GoodStep
<1>1. PICK row : row = PatchedQuote(quotes[q], dto)
  OBVIOUS
<1>2. PICK r : r = [at |-> "save quote", id |-> q, row |-> row, tie |-> QuoteTie(quotes[q], dto),
                    lines |-> dto.lines, accepts |-> dto.status = "accepted"]
  OBVIOUS
<1>3. Awaits(h, r) /\ FollowsOpportunity(r.tie, opportunities)
  BY <1>1, <1>2 DEF ReadsQuote
<1>4. DOMAIN quotes[q] = QuoteFields
  BY DEF PapersInv, RowsShaped, Shaped
<1>5. DOMAIN row = QuoteFields
  BY <1>1, <1>4 DEF PatchedQuote
<1>6. InHandOK(r, Orderly, invoices, quotes, opportunities, contracts, home, reminders)
  BY <1>2, <1>3, <1>5
  DEF InHandOK, InvoiceInHand, QuoteInHand, EngagementInHand, ReminderInHand
<1> QED BY <1>3, <1>6, Read DEF subscribed

LEMMA QuoteRequests ==
    ASSUME BillingAssumption, PapersInv, NEW h \in Handlers, QuoteRequest(h), UNCHANGED subscribed
    PROVE  GoodStep
<1>1. ASSUME NEW q, NEW row, CreateQuote(h, q, None, row)
      PROVE  GoodStep
  <2>1. PICK new : new = [client |-> row.client, number |-> NextNumber("DEV"), lines |-> row.lines,
                          rate |-> row.rate, total |-> Total(row.lines, row.rate), status |-> row.status,
                          project |-> row.project, opportunity |-> row.opportunity, due |-> row.due]
    OBVIOUS
  <2>2. /\ MayStart(h) /\ UNCHANGED <<invoices, reminders, engagements, req, mode>>
        /\ q \notin DOMAIN quotes /\ FollowsOpportunity(row, opportunities)
        /\ quotes' = With(quotes, q, new)
    BY <1>1, <2>1 DEF CreateQuote, FreshIn
  <2>3. DOMAIN new = QuoteFields
    BY <2>1 DEF QuoteFields
  <2>4. FollowsOpportunity(new, opportunities)
    BY <2>1, <2>2 DEF FollowsOpportunity
  <2>5. /\ DOMAIN quotes' = DOMAIN quotes \cup {q} /\ quotes'[q] = new
        /\ \A k \in DOMAIN quotes \ {q} : quotes'[k] = quotes[k]
    BY <2>2 DEF With
  <2>6. RowsShaped' /\ ReceiptsKept /\ LinksAgree
    BY <2>2, <2>3, <2>4, <2>5, QuoteWritten
  <2>7. PICK r : r = req[h]
    OBVIOUS
  <2>8. Awaits(h, r) /\ r.at = "idle" /\ h \in mode.handlers
    BY <2>2, <2>7 DEF Awaits, MayStart, PapersInv, RequestsKnow
  <2>9. InHandOK(r, Orderly, invoices', quotes', opportunities', contracts', home', reminders')
    BY <2>8, IdleKnows
  <2> QED BY <2>2, <2>5, <2>6, <2>7, <2>8, <2>9, Wrote DEF subscribed
<1>2. ASSUME NEW q, NEW dto, UpdateQuote(h, q, dto)
      PROVE  GoodStep
  BY <1>2, QuoteRead DEF UpdateQuote, MayStart
<1>3. ASSUME NEW q, NEW status, NEW due, ConvertQuote(h, q, status, due)
      PROVE  GoodStep
  <2>1. PICK r : r = [at |-> "bill quote", id |-> q, quote |-> quotes[q], status |-> status, due |-> due]
    OBVIOUS
  <2>2. MayStart(h) /\ q \in DOMAIN quotes /\ Awaits(h, r) /\ UNCHANGED documents
    BY <1>3, <2>1 DEF ConvertQuote
  <2>3. InHandOK(r, Orderly, invoices, quotes, opportunities, contracts, home, reminders)
    BY <2>1, <2>2 DEF InHandOK, InvoiceInHand, QuoteInHand, EngagementInHand, ReminderInHand
  <2> QED BY <2>2, <2>3, Read DEF MayStart, subscribed
<1> QED BY <1>1, <1>2, <1>3 DEF QuoteRequest

\* Saving a quote, winning its opportunity, billing and accepting it.
LEMMA QuoteSaves ==
    ASSUME BillingAssumption, PapersInv, NEW h \in Handlers, UNCHANGED subscribed,
           \/ SaveQuote(h) \/ WinOpportunity(h) \/ QuoteNotBilled(h) \/ AcceptQuote(h)
           \/ \E i \in mode.writable : BillQuote(h, i)
    PROVE  GoodStep
<1>1. PICK r : r = req[h]
  OBVIOUS
<1>2. /\ h \in mode.handlers /\ QuoteInHand(r, Orderly, quotes, opportunities)
      /\ req[h].at \notin {"sync", "upsert", "dismiss"}
  BY <1>1, IdleAt
  DEF SaveQuote, WinOpportunity, QuoteNotBilled, AcceptQuote, BillQuote, PapersInv, RequestsKnow, InHandOK
<1>3. CASE SaveQuote(h)
  <2>1. /\ quotes' = Saved(quotes, r.id, r.row, r.lines) /\ r.at = "save quote"
        /\ UNCHANGED <<invoices, reminders, engagements>>
    BY <1>1, <1>3 DEF SaveQuote
  <2>2. DOMAIN quotes' = DOMAIN quotes /\ RowsShaped' /\ ReceiptsKept /\ LinksAgree
    <3>1. r.id \in DOMAIN quotes /\ DOMAIN r.row = QuoteFields /\ (Orderly => FollowsOpportunity(r.tie, opportunities))
      BY <1>2, <2>1 DEF QuoteInHand
    <3>2. CASE r.tie # QuoteTie(r.row, NoPatch)
      <4>1. CheckedElsewhere(r.id)
        BY <1>1, <2>1, <3>2 DEF CheckedElsewhere
      <4> QED BY <2>1, <3>1, <4>1, QuoteSaved
    <3>3. CASE r.tie = QuoteTie(r.row, NoPatch)
      <4>1. r.tie.client = r.row.client /\ r.tie.project = r.row.project /\ r.tie.opportunity = r.row.opportunity
        BY <3>3 DEF QuoteTie, NoPatch, Given
      <4>2. Orderly => FollowsOpportunity(r.row, opportunities)
        BY <3>1, <4>1 DEF FollowsOpportunity
      <4> QED BY <2>1, <3>1, <4>2, QuoteSaved
    <3> QED BY <3>2, <3>3
  <2>3. PICK next : Awaits(h, next) /\ next.at \in {"win", "idle"}
    <3>1. PICK won : won = [at |-> "win", opportunity |-> req[h].tie.opportunity]
      OBVIOUS
    <3>2. Awaits(h, Idle) \/ Awaits(h, won)
      BY <1>3, <3>1 DEF SaveQuote, Ends
    <3>3. won.at = "win" /\ Idle.at = "idle"
      BY <3>1, IdleAt
    <3> QED BY <3>2, <3>3
  <2>4. InHandOK(next, Orderly, invoices', quotes', opportunities', contracts', home', reminders')
    BY <2>3 DEF InHandOK, InvoiceInHand, QuoteInHand, EngagementInHand, ReminderInHand
  <2> QED BY <1>2, <2>1, <2>2, <2>3, <2>4, Wrote DEF subscribed
<1>4. CASE WinOpportunity(h)
  <2>1. /\ opportunities' = [opportunities EXCEPT ![r.opportunity].won = TRUE] /\ Awaits(h, Idle)
        /\ UNCHANGED <<invoices, quotes, reminders, contracts, expenses, times, home>>
    BY <1>1, <1>4 DEF WinOpportunity, Ends
  <2>2. ReceiptsKept /\ LinksAgree
    BY <2>1 DEF ReceiptsKept, ReceiptKept, LinksAgree, EngagementsAgree, Written, TiesOf
  <2>3. RowsShaped'
    BY <2>1 DEF PapersInv, RowsShaped, Shaped
  <2>4. InHandOK(Idle, Orderly, invoices', quotes', opportunities', contracts', home', reminders')
    BY IdleAt, IdleKnows
  <2> QED BY <1>2, <2>1, <2>2, <2>3, <2>4, Wrote DEF subscribed
<1>5. CASE QuoteNotBilled(h)
  <2>1. Awaits(h, Idle) /\ UNCHANGED documents
    BY <1>5 DEF QuoteNotBilled, Ends
  <2>2. InHandOK(Idle, Orderly, invoices, quotes, opportunities, contracts, home, reminders)
    BY IdleAt, IdleKnows
  <2> QED BY <1>2, <2>1, <2>2, Read DEF subscribed
<1>6. CASE AcceptQuote(h)
  <2>1. PICK dto : ReadsQuote(h, r.id, dto)
    BY <1>1, <1>6 DEF AcceptQuote
  <2>2. r.id \in DOMAIN quotes /\ UNCHANGED documents
    BY <1>1, <1>2, <1>6 DEF AcceptQuote, QuoteInHand
  <2> QED BY <1>2, <2>1, <2>2, QuoteRead
<1>7. ASSUME NEW i, BillQuote(h, i)
      PROVE  GoodStep
  <2>1. PICK row : Invoice(i, None, row)
    BY <1>7 DEF BillQuote
  <2>2. /\ UNCHANGED <<quotes, reminders, engagements>> /\ r.at = "bill quote"
    BY <1>1, <1>7 DEF BillQuote
  <2>3. PICK next : Awaits(h, next) /\ (next.at = "idle" \/ (next.at = "accept quote" /\ next.id = r.id))
    <3>1. PICK accepting : accepting = [at |-> "accept quote", id |-> r.id]
      OBVIOUS
    <3>2. Awaits(h, Idle) \/ Awaits(h, accepting)
      BY <1>1, <1>7, <3>1 DEF BillQuote, Ends
    <3>3. accepting.at = "accept quote" /\ accepting.id = r.id /\ Idle.at = "idle"
      BY <3>1, IdleAt
    <3> QED BY <3>2, <3>3
  <2>4. DOMAIN invoices \subseteq DOMAIN invoices' /\ RowsShaped' /\ ReceiptsKept /\ LinksAgree
    BY <2>1, <2>2, InvoiceAdded
  <2>5. InHandOK(next, Orderly, invoices', quotes', opportunities', contracts', home', reminders')
    BY <1>2, <2>2, <2>3 DEF InHandOK, InvoiceInHand, QuoteInHand, EngagementInHand, ReminderInHand
  <2> QED BY <1>2, <2>2, <2>3, <2>4, <2>5, Wrote DEF subscribed
<1> QED BY <1>3, <1>4, <1>5, <1>6, <1>7

-----------------------------------------------------------------------------
LEMMA PatchedFollows ==
    ASSUME NEW row, NEW dto, NEW table, {"client", "project", "opportunity"} \subseteq DOMAIN dto,
           {"client", "project", "opportunity"} \subseteq DOMAIN row, dto.client # None,
           FollowsOpportunity(CheckedTie(row, dto), table)
    PROVE  FollowsOpportunity(Patched(row, dto), table)
<1>1. PICK checked, patched : checked = CheckedTie(row, dto) /\ patched = Patched(row, dto)
  OBVIOUS
<1>2. /\ checked.client = Effective(dto.client, row.client)
      /\ checked.project = Effective(dto.project, row.project)
      /\ checked.opportunity = Effective(dto.opportunity, row.opportunity)
  BY <1>1 DEF CheckedTie
<1>3. /\ patched.client = Given(dto.client, row.client)
      /\ patched.project = Given(dto.project, row.project)
      /\ patched.opportunity = Given(dto.opportunity, row.opportunity)
  BY <1>1 DEF Patched
<1>4. /\ checked.client = patched.client /\ (patched.project # None => checked.project = patched.project)
      /\ patched.opportunity # None => checked.opportunity = patched.opportunity
  BY <1>2, <1>3 DEF Effective, Given
<1>5. FollowsOpportunity(patched, table)
  BY <1>1, <1>4 DEF FollowsOpportunity, SameProject
<1> QED BY <1>1, <1>5

LEMMA PatchedCharges ==
    ASSUME NEW row, NEW dto, NEW table, {"project", "contract"} \subseteq DOMAIN dto,
           {"project", "contract"} \subseteq DOMAIN row, dto.project # None,
           FollowsContract(CheckedTie(row, dto), table)
    PROVE  FollowsContract(Patched(row, dto), table)
<1>1. PICK checked, patched : checked = CheckedTie(row, dto) /\ patched = Patched(row, dto)
  OBVIOUS
<1>2. /\ checked.project = patched.project
      /\ patched.contract # None => checked.contract = patched.contract
  BY <1>1 DEF CheckedTie, Patched, Effective, Given
<1>3. FollowsContract(patched, table)
  BY <1>1, <1>2 DEF FollowsContract
<1> QED BY <1>1, <1>3

LEMMA PatchedSpends ==
    ASSUME NEW row, NEW dto, NEW table, {"project", "item"} \subseteq DOMAIN dto,
           {"project", "item"} \subseteq DOMAIN row, dto.project # None,
           FollowsItem(CheckedTie(row, dto), table)
    PROVE  FollowsItem(Patched(row, dto), table)
<1>1. PICK checked, patched : checked = CheckedTie(row, dto) /\ patched = Patched(row, dto)
  OBVIOUS
<1>2. /\ checked.project = patched.project /\ (patched.item # None => checked.item = patched.item)
  BY <1>1 DEF CheckedTie, Patched, Effective, Given
<1>3. FollowsItem(patched, table)
  BY <1>1, <1>2 DEF FollowsItem
<1> QED BY <1>1, <1>3

\* A checked engagement is about to be written.
LEMMA EngagementRead ==
    ASSUME BillingAssumption, PapersInv, NEW h \in Handlers, MayStart(h), NEW table, NEW id, NEW row,
           Writes(h, table, id, row), UNCHANGED <<invoices, quotes, reminders>>, UNCHANGED subscribed,
           table = "opportunities" => DOMAIN row = {"client", "project", "won"},
           table = "contracts" =>
              DOMAIN row = {"client", "project", "opportunity", "status", "end"} /\ FollowsOpportunity(row, opportunities),
           table = "expenses" => DOMAIN row = {"project", "contract"} /\ FollowsContract(row, contracts),
           table = "times" => DOMAIN row = {"project", "item"} /\ FollowsItem(row, home)
    PROVE  GoodStep
<1>1. PICK r : r = [at |-> "save engagement", table |-> table, id |-> id, row |-> row]
  OBVIOUS
<1>2. Awaits(h, r) /\ UNCHANGED documents
  BY <1>1 DEF Writes, documents
<1>3. InHandOK(r, Orderly, invoices, quotes, opportunities, contracts, home, reminders)
  BY <1>1 DEF InHandOK, InvoiceInHand, QuoteInHand, EngagementInHand, ReminderInHand
<1> QED BY <1>2, <1>3, Read DEF MayStart, subscribed

LEMMA EngagementRequests ==
    ASSUME BillingAssumption, PapersInv, NEW h \in Handlers, EngagementRequest(h),
           UNCHANGED <<invoices, quotes, reminders>>, UNCHANGED subscribed
    PROVE  GoodStep
<1>0. /\ None \notin mode.clients \cup mode.projects
      /\ None # Keep
  BY DEF BillingAssumption, PapersInv
<1>1. ASSUME NEW o, NEW row \in OpportunityBodies, CreateOpportunity(h, o, row)
      PROVE  GoodStep
  <2>1. DOMAIN row = {"client", "project", "won"}
    BY DEF OpportunityBodies
  <2> QED BY <1>1, <2>1, EngagementRead DEF CreateOpportunity
<1>2. ASSUME NEW o, NEW dto \in OpportunityPatches, UpdateOpportunity(h, o, dto)
      PROVE  GoodStep
  <2>1. DOMAIN Patched(opportunities[o], dto) = {"client", "project", "won"}
    BY <1>2, PatchedShape DEF UpdateOpportunity, PapersInv, RowsShaped, Shaped
  <2> QED BY <1>2, <2>1, EngagementRead DEF UpdateOpportunity
<1>3. ASSUME NEW c, NEW row \in ContractBodies, CreateContract(h, c, row)
      PROVE  GoodStep
  <2>1. DOMAIN row = {"client", "project", "opportunity", "status", "end"}
    BY DEF ContractBodies
  <2> QED BY <1>3, <2>1, EngagementRead DEF CreateContract
<1>4. ASSUME NEW c, NEW dto \in ContractPatches, UpdateContract(h, c, dto)
      PROVE  GoodStep
  <2>1. DOMAIN contracts[c] = {"client", "project", "opportunity", "status", "end"}
    BY <1>4 DEF UpdateContract, PapersInv, RowsShaped, Shaped
  <2>2. DOMAIN dto = {"client", "project", "opportunity", "status", "end"} /\ dto.client # None
    BY <1>0 DEF ContractPatches, Kept
  <2>3. FollowsOpportunity(Patched(contracts[c], dto), opportunities)
    BY <1>4, <2>1, <2>2, PatchedFollows DEF UpdateContract
  <2> QED BY <1>4, <2>1, <2>3, PatchedShape, EngagementRead DEF UpdateContract
<1>5. ASSUME NEW e, NEW row \in ExpenseBodies, CreateExpense(h, e, row)
      PROVE  GoodStep
  <2>1. DOMAIN row = {"project", "contract"}
    BY DEF ExpenseBodies
  <2> QED BY <1>5, <2>1, EngagementRead DEF CreateExpense
<1>6. ASSUME NEW e, NEW dto \in ExpensePatches, UpdateExpense(h, e, dto)
      PROVE  GoodStep
  <2>1. DOMAIN expenses[e] = {"project", "contract"}
    BY <1>6 DEF UpdateExpense, PapersInv, RowsShaped, Shaped
  <2>2. DOMAIN dto = {"project", "contract"} /\ dto.project # None
    BY <1>0 DEF ExpensePatches, Kept
  <2>3. FollowsContract(Patched(expenses[e], dto), contracts)
    BY <1>6, <2>1, <2>2, PatchedCharges DEF UpdateExpense
  <2> QED BY <1>6, <2>1, <2>3, PatchedShape, EngagementRead DEF UpdateExpense
<1>7. ASSUME NEW t, NEW row \in TimeBodies, CreateTimeEntry(h, t, row)
      PROVE  GoodStep
  <2>1. DOMAIN row = {"project", "item"}
    BY DEF TimeBodies
  <2> QED BY <1>7, <2>1, EngagementRead DEF CreateTimeEntry
<1>8. ASSUME NEW t, NEW dto \in TimePatches, UpdateTimeEntry(h, t, dto)
      PROVE  GoodStep
  <2>1. DOMAIN times[t] = {"project", "item"}
    BY <1>8 DEF UpdateTimeEntry, PapersInv, RowsShaped, Shaped
  <2>2. DOMAIN dto = {"project", "item"} /\ dto.project # None
    BY <1>0 DEF TimePatches, Kept
  <2>3. FollowsItem(Patched(times[t], dto), home)
    BY <1>8, <2>1, <2>2, PatchedSpends DEF UpdateTimeEntry
  <2> QED BY <1>8, <2>1, <2>3, PatchedShape, EngagementRead DEF UpdateTimeEntry
<1>9. ASSUME NEW i, NEW p, MoveWorkItem(h, i, p)
      PROVE  GoodStep
  <2>1. MayStart(h) /\ UNCHANGED <<req, mode, invoices, quotes, reminders, opportunities, contracts, expenses, times>>
    BY <1>9 DEF MoveWorkItem
  <2>2. ReceiptsKept /\ LinksAgree
    BY <2>1 DEF ReceiptsKept, ReceiptKept, LinksAgree, EngagementsAgree, Written, TiesOf
  <2>3. RowsShaped'
    BY <2>1 DEF PapersInv, RowsShaped, Shaped
  <2>4. PICK r : r = req[h]
    OBVIOUS
  <2>5. Awaits(h, r) /\ r.at = "idle" /\ h \in mode.handlers
    BY <2>1, <2>4 DEF Awaits, MayStart, PapersInv, RequestsKnow
  <2>6. InHandOK(r, Orderly, invoices', quotes', opportunities', contracts', home', reminders')
    BY <2>5, IdleKnows
  <2> QED BY <2>1, <2>2, <2>3, <2>4, <2>5, <2>6, Wrote DEF subscribed
<1> QED BY <1>1, <1>2, <1>3, <1>4, <1>5, <1>6, <1>7, <1>8, <1>9 DEF EngagementRequest

\* The row that was checked is stored; nothing it points to has moved since.
LEMMA EngagementSaves ==
    ASSUME BillingAssumption, PapersInv, NEW h \in Handlers, SaveEngagement(h),
           UNCHANGED <<invoices, quotes, reminders>>, UNCHANGED subscribed
    PROVE  GoodStep
<1>1. PICK r : r = req[h]
  OBVIOUS
<1>2. /\ h \in mode.handlers /\ req[h].at \notin {"sync", "upsert", "dismiss"}
      /\ EngagementInHand(r, Orderly, opportunities, contracts, home) /\ r.at = "save engagement"
  BY <1>1, IdleAt DEF SaveEngagement, PapersInv, RequestsKnow, InHandOK
<1>3. /\ opportunities' = IF r.table = "opportunities" THEN With(opportunities, r.id, r.row) ELSE opportunities
      /\ contracts' = IF r.table = "contracts" THEN With(contracts, r.id, r.row) ELSE contracts
      /\ expenses' = IF r.table = "expenses" THEN With(expenses, r.id, r.row) ELSE expenses
      /\ times' = IF r.table = "times" THEN With(times, r.id, r.row) ELSE times
      /\ UNCHANGED home /\ Awaits(h, Idle)
  BY <1>1 DEF SaveEngagement, Stored, Ends
<1>4. RowsShaped'
  BY <1>2, <1>3 DEF PapersInv, RowsShaped, Shaped, With, EngagementInHand
<1>5. ReceiptsKept
  BY DEF ReceiptsKept, ReceiptKept
<1>6. ASSUME Orderly PROVE EngagementsAgree
  <2>1. ASSUME NEW c \in Written(contracts, contracts')
        PROVE  FollowsOpportunity(contracts'[c], opportunities')
    BY <1>2, <1>3, <1>6, <2>1 DEF Written, With, EngagementInHand
  <2>2. ASSUME NEW e \in Written(expenses, expenses')
        PROVE  FollowsContract(expenses'[e], contracts')
    BY <1>2, <1>3, <1>6, <2>2 DEF Written, With, EngagementInHand
  <2>3. ASSUME NEW t \in Written(times, times')
        PROVE  FollowsItem(times'[t], home')
    BY <1>2, <1>3, <1>6, <2>3 DEF Written, With, EngagementInHand
  <2> QED BY <2>1, <2>2, <2>3 DEF EngagementsAgree
<1>7. LinksAgree
  BY <1>6 DEF LinksAgree, Written, TiesOf
<1>8. InHandOK(Idle, Orderly, invoices', quotes', opportunities', contracts', home', reminders')
  BY IdleAt, IdleKnows
<1> QED BY <1>2, <1>3, <1>4, <1>5, <1>7, <1>8, Wrote DEF subscribed

-----------------------------------------------------------------------------
\* A step of a synchronisation that writes reminders and nothing else.
LEMMA RemindersWritten ==
    ASSUME PapersInv, UNCHANGED <<invoices, quotes, engagements>>,
           \A f \in DOMAIN reminders' : reminders'[f] \in ReminderStatuses
    PROVE  RowsShaped' /\ ReceiptsKept /\ LinksAgree
<1>1. UNCHANGED <<invoices, quotes, opportunities, contracts, expenses, times, home>>
  BY DEF engagements
<1>2. RowsShaped'
  BY <1>1 DEF PapersInv, RowsShaped, Shaped
<1>3. ReceiptsKept /\ LinksAgree
  BY <1>1 DEF ReceiptsKept, ReceiptKept, LinksAgree, EngagementsAgree, Written, TiesOf
<1> QED BY <1>2, <1>3

\* What the request itself settles is all there is to settle.
LEMMA SettledByOne ==
    ASSUME PapersInv, NEW h \in Handlers, NEW r, Awaits(h, r),
           Orderly =>
              /\ \A f \in DOMAIN reminders : reminders[f] # "pending" => reminders'[f] = reminders[f]
              /\ r.at = "idle" =>
                    /\ {f \in DOMAIN reminders' : reminders'[f] = "pending"} \subseteq req[h].due
                    /\ req[h].due \subseteq DOMAIN reminders'
    PROVE  Settled
<1>1. req' = [req EXCEPT ![h] = r] /\ req = [g \in Handlers |-> req[g]]
  BY DEF Awaits, PapersInv, RequestsKnow
<1>2. ASSUME NEW g \in Handlers, Syncing(g)
      PROVE  g = h /\ req'[g] = r
  BY <1>1, <1>2 DEF Syncing
<1> QED BY <1>2, IdleAt DEF Settled

LEMMA ReminderRequests ==
    ASSUME BillingAssumption, PapersInv, NEW h \in Handlers, ReminderRequest(h), UNCHANGED subscribed
    PROVE  GoodStep
<1>1. CASE ListReminders(h)
  <2>1. PICK r : r = [at |-> "sync", left |-> DueNow, due |-> DueNow]
    OBVIOUS
  <2>2. MayStart(h) /\ Awaits(h, r) /\ UNCHANGED documents
    BY <1>1, <2>1 DEF ListReminders
  <2>3. InHandOK(r, Orderly, invoices, quotes, opportunities, contracts, home, reminders)
    BY <2>1 DEF InHandOK, InvoiceInHand, QuoteInHand, EngagementInHand, ReminderInHand, Listing
  <2> QED BY <2>2, <2>3, Read DEF MayStart, subscribed
<1>2. ASSUME NEW f, NEW status \in ReminderStatuses, UpdateReminder(h, f, status)
      PROVE  GoodStep
  <2>1. PICK r : r = [at |-> "save reminder", fingerprint |-> f, status |-> status]
    OBVIOUS
  <2>2. MayStart(h) /\ Awaits(h, r) /\ UNCHANGED documents
    BY <1>2, <2>1 DEF UpdateReminder
  <2>3. InHandOK(r, Orderly, invoices, quotes, opportunities, contracts, home, reminders)
    BY <2>1 DEF InHandOK, InvoiceInHand, QuoteInHand, EngagementInHand, ReminderInHand
  <2> QED BY <2>2, <2>3, Read DEF MayStart, subscribed
<1> QED BY <1>1, <1>2 DEF ReminderRequest

\* A reminder is found closed, and passed over, or open or missing, and kept in
\* hand to be written.
LEMMA ReminderFound ==
    ASSUME BillingAssumption, PapersInv, NEW h \in Handlers, NEW f, FindReminder(h, f), UNCHANGED subscribed
    PROVE  GoodStep
<1>1. PICK r : r = req[h]
  OBVIOUS
<1>2. PICK rest : rest = [r EXCEPT !.left = @ \ {f}]
  OBVIOUS
<1>3. PICK kept : kept = [at |-> "upsert", new |-> StatusOf(f) = None, fingerprint |-> f, rest |-> rest]
  OBVIOUS
<1>4. /\ r.at = "sync" /\ f \in r.left /\ UNCHANGED documents
      /\ IF StatusOf(f) \in {"done", "dismissed"} THEN Awaits(h, rest) ELSE Awaits(h, kept)
  BY <1>1, <1>2, <1>3 DEF FindReminder
<1>5. h \in mode.handlers /\ Listing(r, Orderly, DOMAIN reminders)
  BY <1>1, <1>4, IdleAt DEF PapersInv, RequestsKnow, InHandOK, ReminderInHand
<1>6. /\ rest.at = "sync" /\ {"at", "left", "due"} \subseteq DOMAIN rest
      /\ rest.due = r.due /\ rest.left = r.left \ {f}
  BY <1>2, <1>4, <1>5 DEF Listing
<1>7. /\ StatusOf(f) = None <=> f \notin DOMAIN reminders
      /\ f \in DOMAIN reminders => StatusOf(f) = reminders[f] /\ reminders[f] \in ReminderStatuses
  BY DEF StatusOf, BillingAssumption, PapersInv, RowsShaped
<1>8. CASE StatusOf(f) \in {"done", "dismissed"}
  <2>1. f \in DOMAIN reminders
    BY <1>7, <1>8 DEF BillingAssumption, ReminderStatuses
  <2>2. Listing(rest, Orderly, DOMAIN reminders)
    BY <1>5, <1>6, <2>1 DEF Listing
  <2>3. InHandOK(rest, Orderly, invoices, quotes, opportunities, contracts, home, reminders)
    BY <1>6, <2>2 DEF InHandOK, InvoiceInHand, QuoteInHand, EngagementInHand, ReminderInHand
  <2>4. Awaits(h, rest) /\ rest.at # "idle"
    BY <1>4, <1>6, <1>8
  <2> QED BY <1>4, <1>5, <2>3, <2>4, Read DEF subscribed
<1>9. CASE StatusOf(f) \notin {"done", "dismissed"}
  <2>1. f \in DOMAIN reminders => f \in Pending(reminders)
    BY <1>7, <1>9 DEF Pending, ReminderStatuses
  <2>2. Listing(rest, Orderly, DOMAIN reminders \cup {f})
    BY <1>5, <1>6 DEF Listing
  <2>3. kept.at = "upsert" /\ kept.rest = rest /\ kept.fingerprint = f
        /\ kept.new = (f \notin DOMAIN reminders)
    BY <1>3, <1>7
  <2>4. InHandOK(kept, Orderly, invoices, quotes, opportunities, contracts, home, reminders)
    BY <2>1, <2>2, <2>3 DEF InHandOK, InvoiceInHand, QuoteInHand, EngagementInHand, ReminderInHand
  <2>5. Awaits(h, kept) /\ kept.at # "idle"
    BY <1>4, <1>9, <2>3
  <2> QED BY <1>4, <1>5, <2>4, <2>5, Read DEF subscribed
<1> QED BY <1>8, <1>9

\* A reminder is written only when it was open or missing, and obsolete ones are
\* dismissed last.
LEMMA ReminderSaves ==
    ASSUME BillingAssumption, PapersInv, NEW h \in Handlers, UNCHANGED subscribed,
           SaveAutomatic(h) \/ FindObsolete(h) \/ DismissObsolete(h) \/ SaveReminder(h)
    PROVE  GoodStep
<1>1. PICK r : r = req[h]
  OBVIOUS
<1>2. h \in mode.handlers /\ ReminderInHand(r, Orderly, reminders)
  BY <1>1, IdleAt
  DEF SaveAutomatic, FindObsolete, DismissObsolete, SaveReminder, PapersInv, RequestsKnow, InHandOK
<1>3. \A f \in DOMAIN reminders : reminders[f] \in ReminderStatuses
  BY DEF PapersInv, RowsShaped
<1>4. \A x : InHandOK(Idle, x, invoices', quotes', opportunities', contracts', home', reminders')
  BY IdleAt, IdleKnows
<1>5. CASE FindObsolete(h)
  <2>1. PICK next : next = [at |-> "dismiss", due |-> r.due,
                            obsolete |-> {f \in DOMAIN reminders \ r.due : reminders[f] = "pending"}]
    OBVIOUS
  <2>2. r.at = "sync" /\ r.left = {} /\ Awaits(h, next) /\ UNCHANGED documents
    BY <1>1, <1>5, <2>1 DEF FindObsolete
  <2>3. next.obsolete = Pending(reminders) \ next.due
    BY <2>1 DEF Pending
  <2>4. InHandOK(next, Orderly, invoices, quotes, opportunities, contracts, home, reminders)
    BY <1>2, <2>1, <2>2, <2>3
    DEF InHandOK, InvoiceInHand, QuoteInHand, EngagementInHand, ReminderInHand, Listing
  <2>5. next.at # "idle"
    BY <2>1
  <2> QED BY <1>2, <2>2, <2>4, <2>5, Read DEF subscribed
<1>6. CASE SaveAutomatic(h)
  <2>1. /\ r.at = "upsert" /\ UNCHANGED <<invoices, quotes, engagements>>
        /\ IF r.new /\ r.fingerprint \in DOMAIN reminders
           THEN Awaits(h, Idle) /\ UNCHANGED reminders
           ELSE reminders' = With(reminders, r.fingerprint, "pending") /\ Awaits(h, r.rest)
    BY <1>1, <1>6 DEF SaveAutomatic, Ends
  <2>2. Listing(r.rest, Orderly, DOMAIN reminders \cup {r.fingerprint})
    BY <1>2, <2>1 DEF ReminderInHand
  <2>3. CASE r.new /\ r.fingerprint \in DOMAIN reminders
    <3>1. ~Orderly
      BY <1>2, <2>1, <2>3 DEF ReminderInHand
    <3>2. Awaits(h, Idle) /\ UNCHANGED documents
      BY <2>1, <2>3 DEF documents
    <3>3. RowsShaped' /\ ReceiptsKept /\ LinksAgree
      BY <3>2, NothingWritten DEF PapersInv
    <3>4. Settled
      BY <3>1 DEF Settled
    <3> QED BY <1>2, <1>4, <3>2, <3>3, <3>4, Wrote DEF subscribed, documents
  <2>4. CASE ~(r.new /\ r.fingerprint \in DOMAIN reminders)
    <3>1. reminders' = With(reminders, r.fingerprint, "pending") /\ Awaits(h, r.rest)
      BY <2>1, <2>4
    <3>2. DOMAIN reminders' = DOMAIN reminders \cup {r.fingerprint}
      BY <3>1 DEF With
    <3>3. \A f \in DOMAIN reminders' : reminders'[f] \in ReminderStatuses
      BY <1>3, <3>1 DEF With, ReminderStatuses
    <3>4. RowsShaped' /\ ReceiptsKept /\ LinksAgree
      BY <2>1, <3>3, RemindersWritten
    <3>5. Orderly => r.fingerprint \notin DOMAIN reminders \/ reminders[r.fingerprint] = "pending"
      BY <1>2, <2>1 DEF ReminderInHand, Pending
    <3>6. r.rest.at = "sync" /\ Listing(r.rest, Orderly, DOMAIN reminders')
      BY <2>2, <3>2 DEF Listing
    <3>7. Settled
      <4>1. Orderly => \A f \in DOMAIN reminders : reminders[f] # "pending" => reminders'[f] = reminders[f]
        BY <3>1, <3>5 DEF With
      <4> QED BY <3>1, <3>6, <4>1, SettledByOne
    <3>8. PICK rest : rest = r.rest
      OBVIOUS
    <3>9. InHandOK(rest, Orderly, invoices', quotes', opportunities', contracts', home', reminders')
      BY <3>6, <3>8 DEF InHandOK, InvoiceInHand, QuoteInHand, EngagementInHand, ReminderInHand
    <3> QED BY <1>2, <2>1, <3>1, <3>4, <3>7, <3>8, <3>9, Wrote DEF subscribed
  <2> QED BY <2>3, <2>4
<1>7. CASE DismissObsolete(h)
  <2>1. /\ r.at = "dismiss" /\ UNCHANGED <<invoices, quotes, engagements>> /\ Awaits(h, Idle)
        /\ reminders' = [f \in DOMAIN reminders |-> IF f \in r.obsolete THEN "dismissed" ELSE reminders[f]]
    BY <1>1, <1>7 DEF DismissObsolete, Ends
  <2>2. \A f \in DOMAIN reminders' : reminders'[f] \in ReminderStatuses
    BY <1>3, <2>1 DEF ReminderStatuses
  <2>3. RowsShaped' /\ ReceiptsKept /\ LinksAgree
    BY <2>1, <2>2, RemindersWritten
  <2>4. Orderly => r.obsolete = Pending(reminders) \ r.due /\ r.due \subseteq DOMAIN reminders
    BY <1>2, <2>1 DEF ReminderInHand
  <2>5. Orderly =>
          /\ \A f \in DOMAIN reminders : reminders[f] # "pending" => reminders'[f] = reminders[f]
          /\ {f \in DOMAIN reminders' : reminders'[f] = "pending"} \subseteq r.due
          /\ r.due \subseteq DOMAIN reminders'
    BY <2>1, <2>4 DEF Pending
  <2>6. Settled
    BY <1>1, <2>1, <2>5, SettledByOne
  <2> QED BY <1>2, <1>4, <2>1, <2>3, <2>6, Wrote DEF subscribed
<1>8. CASE SaveReminder(h)
  <2>1. /\ r.at = "save reminder" /\ UNCHANGED <<invoices, quotes, engagements>> /\ Awaits(h, Idle)
        /\ reminders' = [reminders EXCEPT ![r.fingerprint] = r.status]
    BY <1>1, <1>8 DEF SaveReminder, Ends
  <2>2. \A f \in DOMAIN reminders' : reminders'[f] \in ReminderStatuses
    BY <1>2, <1>3, <2>1 DEF ReminderInHand
  <2>3. RowsShaped' /\ ReceiptsKept /\ LinksAgree
    BY <2>1, <2>2, RemindersWritten
  <2> QED BY <1>1, <1>2, <1>4, <2>1, <2>3, Wrote DEF subscribed
<1> QED BY <1>5, <1>6, <1>7, <1>8

-----------------------------------------------------------------------------
\* The workers of subscriptions touch neither documents nor requests.
LEMMA Apart ==
    ASSUME PapersInv, UNCHANGED <<documents, req, mode>>, faults' \in Nat
    PROVE  GoodStep
<1>1. UNCHANGED <<invoices, quotes, reminders, opportunities, contracts, expenses, times, home>>
  BY DEF documents, engagements
<1>2. RequestsKnow'
  BY <1>1 DEF PapersInv, RequestsKnow, Orderly
<1>3. Settled
  BY DEF Settled, Syncing
<1>4. RowsShaped'
  BY NothingWritten DEF PapersInv
<1>5. PapersInv'
  BY <1>2, <1>4 DEF PapersInv
<1> QED BY <1>3, <1>5, NothingWritten DEF GoodStep

\* A restart forgets the requests, and interrupts only what may be interrupted.
LEMMA Restarted ==
    ASSUME PapersInv, Restart, UNCHANGED documents
    PROVE  GoodStep
<1>1. UNCHANGED <<invoices, quotes, reminders, opportunities, contracts, expenses, times, home, mode>>
  BY DEF documents, engagements, Restart
<1>2. \A g \in Handlers : req'[g] = Idle
  BY DEF Restart
<1>3. req' = [g \in Handlers |-> req'[g]]
  BY DEF Restart
<1>4. ASSUME NEW g \in Handlers
      PROVE  InHandOK(req'[g], Orderly', invoices', quotes', opportunities', contracts', home', reminders')
  BY <1>2, IdleAt, IdleKnows
<1>5. RequestsKnow'
  BY <1>2, <1>3, <1>4, IdleAt DEF RequestsKnow
<1>6. faults' \in Nat /\ mode.faults # 0
  BY DEF Restart, PapersInv
<1>7. Settled
  BY <1>6 DEF Settled
<1>8. PapersInv'
  BY <1>1, <1>5, <1>6, NothingWritten DEF PapersInv
<1> QED BY <1>7, <1>8, NothingWritten DEF GoodStep

LEMMA OperatorSteps ==
    ASSUME BillingAssumption, PapersInv, UNCHANGED documents, NEW h \in Handlers,
           OperatorRequest(h) \/ SaveBilled(h)
    PROVE  GoodStep
<1>1. CASE SaveBilled(h)
  <2>1. Awaits(h, Idle) /\ req[h].at = "save billed" /\ UNCHANGED faults
    BY <1>1 DEF SaveBilled, Ends
  <2>2. h \in mode.handlers
    BY <2>1 DEF PapersInv, RequestsKnow
  <2>3. InHandOK(Idle, Orderly, invoices, quotes, opportunities, contracts, home, reminders)
    BY IdleAt, IdleKnows
  <2> QED BY <2>1, <2>2, <2>3, Read
<1>2. ASSUME NEW r, Awaits(h, r), r.at \in {"idle", "save billed"}, MayStart(h), UNCHANGED faults
      PROVE  GoodStep
  <2>1. InHandOK(r, Orderly, invoices, quotes, opportunities, contracts, home, reminders)
    BY <1>2 DEF InHandOK, InvoiceInHand, QuoteInHand, EngagementInHand, ReminderInHand
  <2> QED BY <1>2, <2>1, Read DEF MayStart
<1>3. ASSUME NEW typed, NEW status, CreateAdjustment(h, typed, status)
      PROVE  GoodStep
  <2>1. PICK id : id = IF typed = None THEN NextNumber("FAC") ELSE typed
    OBVIOUS
  <2>2. PICK r : r = [at |-> "save billed", id |-> id, row |-> BilledInvoice(None, today, status, None)]
    OBVIOUS
  <2>3. (Awaits(h, Idle) \/ Awaits(h, r)) /\ MayStart(h) /\ UNCHANGED faults
    BY <1>3, <2>1, <2>2 DEF CreateAdjustment, subscribed
  <2>4. r.at = "save billed"
    BY <2>2
  <2> QED BY <1>2, <2>3, <2>4, IdleAt
<1>4. ASSUME NEW id, NEW status, SetStatus(h, id, status)
      PROVE  GoodStep
  <2>1. PICK r : r = [at |-> "save billed", id |-> id, row |-> [billed[id] EXCEPT !.status = status]]
    OBVIOUS
  <2>2. Awaits(h, r) /\ MayStart(h) /\ UNCHANGED faults
    BY <1>4, <2>1 DEF SetStatus, subscribed
  <2>3. r.at = "save billed"
    BY <2>1
  <2> QED BY <1>2, <2>2, <2>3
<1> QED BY <1>1, <1>3, <1>4 DEF OperatorRequest

\* The events, the workers, the calendar and the registry of products.
Background ==
    \/ \E p \in DOMAIN Payments : Publish(p) \/ \E c \in Consumers : Deliver(c, p)
    \/ \E code \in Products : RegisterProduct(code)
    \/ \E c \in Consumers : ConsumerStep(c) \/ DeliveryFails(c) \/ BindFails(c)
    \/ BootFails \/ NextDay \/ RunStarts \/ SchedulerStep \/ RunFails

Beside == UNCHANGED <<req, mode>> /\ faults' \in Nat

LEMMA BackgroundIsBeside ==
    ASSUME faults \in Nat, Background
    PROVE  Beside
<1>1. ASSUME NEW p, Publish(p) \/ \E c \in Consumers : Deliver(c, p) PROVE Beside
  BY <1>1 DEF Publish, Deliver, Elsewhere, Beside
<1>2. ASSUME NEW code, RegisterProduct(code) PROVE Beside
  BY <1>2 DEF RegisterProduct, Elsewhere, Beside
<1>3. ASSUME NEW c, BindFails(c) \/ DeliveryFails(c) PROVE Beside
  BY <1>3 DEF BindFails, DeliveryFails, Elsewhere, Beside
<1>4. ASSUME BootFails \/ NextDay \/ RunStarts PROVE Beside
  BY <1>4 DEF BootFails, NextDay, RunStarts, Elsewhere, Beside
<1>5. ASSUME NEW c, ConsumerStep(c) PROVE Beside
  BY <1>5 DEF ConsumerStep, Bind, DrawInvoiceNumber, DrawReceiptNumber, FindInvoice, SavePayment,
              Acknowledge, Elsewhere, Beside
<1>6. ASSUME NEW s, ConsiderSubscription(s) PROVE Beside
  BY <1>6 DEF ConsiderSubscription, Elsewhere, Beside
<1>7. ASSUME DrawUpcomingNumber \/ SaveUpcoming \/ RunEnds PROVE Beside
  BY <1>7 DEF DrawUpcomingNumber, SaveUpcoming, RunEnds, Elsewhere, Beside
<1>8. ASSUME RunFails PROVE Beside
  BY <1>8 DEF RunFails, Elsewhere, Beside
<1> QED BY <1>1, <1>2, <1>3, <1>4, <1>5, <1>6, <1>7, <1>8 DEF Background, SchedulerStep

LEMMA BilledSteps ==
    ASSUME BillingAssumption, PapersInv, Billed
    PROVE  GoodStep
<1>1. UNCHANGED documents /\ (Background \/ Restart \/ \E h \in Handlers : OperatorRequest(h) \/ SaveBilled(h))
  BY DEF Billed, Background
<1> QED BY <1>1, BackgroundIsBeside, Apart, Restarted, OperatorSteps DEF Beside, PapersInv

-----------------------------------------------------------------------------
LEMMA PapersInit == BillingAssumption /\ Init => PapersInv
<1> SUFFICES ASSUME BillingAssumption, Init
             PROVE  PapersInv
  OBVIOUS
<1>1. mode \in Modes /\ faults \in Nat
  BY DEF Init
<1>2. RowsShaped
  <2>1. \A i \in DOMAIN invoices : invoices[i] \in InvoiceRows
    BY DEF Init, BillingAssumption
  <2>2. \A q \in DOMAIN quotes : quotes[q] \in QuoteRows
    BY DEF Init, BillingAssumption
  <2>3. \A o \in DOMAIN opportunities : opportunities[o] \in OpportunityRows
    BY DEF Init, BillingAssumption
  <2>4. \A c \in DOMAIN contracts : contracts[c] \in ContractRows
    BY DEF Init, BillingAssumption
  <2>5. Shaped(invoices, InvoiceFields) /\ Shaped(quotes, QuoteFields)
    BY <2>1, <2>2 DEF Shaped, InvoiceRows, QuoteRows, InvoiceFields, TieFields, QuoteFields
  <2>6. /\ Shaped(opportunities, {"client", "project", "won"})
        /\ Shaped(contracts, {"client", "project", "opportunity", "status", "end"})
    BY <2>3, <2>4 DEF Shaped, OpportunityRows, ContractRows
  <2> QED BY <2>5, <2>6 DEF RowsShaped, Shaped, Init
<1>3. RequestsKnow
  <2>1. req = [g \in Handlers |-> Idle]
    BY DEF Init
  <2> QED BY <2>1, IdleAt, IdleKnows DEF RequestsKnow
<1> QED BY <1>1, <1>2, <1>3 DEF PapersInv

LEMMA PapersNext == BillingAssumption /\ PapersInv /\ Next => GoodStep
<1> SUFFICES ASSUME BillingAssumption, PapersInv, Next
             PROVE  GoodStep
  OBVIOUS
<1>1. ASSUME NEW h \in Handlers, UNCHANGED subscribed,
             InvoiceRequest(h) \/ QuoteRequest(h) \/ ReminderRequest(h) \/ DocumentStep(h)
      PROVE  GoodStep
  BY <1>1, InvoiceRequests, QuoteRequests, ReminderRequests, InvoiceSaves, QuoteSaves, ReminderFound,
     ReminderSaves DEF DocumentStep
<1>2. ASSUME NEW h \in Handlers, UNCHANGED subscribed, UNCHANGED <<invoices, quotes, reminders>>,
             EngagementRequest(h) \/ SaveEngagement(h)
      PROVE  GoodStep
  BY <1>2, EngagementRequests, EngagementSaves
<1> QED BY <1>1, <1>2, BilledSteps DEF Next, Documents, Engaged

\* Nothing happens, or something good does.
LEMMA PapersStep == BillingAssumption /\ PapersInv /\ [Next]_vars => GoodStep
<1>1. ASSUME PapersInv, UNCHANGED vars PROVE GoodStep
  BY <1>1, Apart DEF vars, subscribed, PapersInv
<1> QED BY <1>1, PapersNext

LEMMA PapersKept == Spec => []PapersInv
<1>1. PapersInv /\ [Next]_vars => PapersInv'
  BY BillingAssumption, PapersStep DEF GoodStep
<1>2. Init => PapersInv
  BY BillingAssumption, PapersInit
<1> QED BY <1>1, <1>2, PTL DEF Spec

\* "Minted once, by markPaid()": when requests follow one another, no chain of
\* updates, payments and voidings takes a receipt back or changes the amounts,
\* rate and lines it was given for (updateInvoice(), markPaid(), voidReceipt()).
THEOREM ReceiptsAreKept == Spec => ReceiptsStandInOrder
<1>1. PapersInv /\ [Next]_vars =>
         [Orderly => \A i \in DOMAIN invoices : ReceiptKept(invoices[i], invoices'[i])]_vars
  BY BillingAssumption, PapersStep DEF GoodStep, ReceiptsKept
<1> QED BY <1>1, PapersKept, PTL DEF Spec, ReceiptsStandInOrder

\* The links a request writes agree with what they point to at that moment:
\* quotes and contracts with their opportunity, invoices and expenses with their
\* contract, hours with their ticket (assertQuoteLinks(), assertOpportunity(),
\* assertInvoiceContract(), assertTimeLinks()).  A quote is excused when its
\* request names other links than the quote keeps: those are checked, not saved.
THEOREM LinksAreChecked == Spec => TiesAgree
<1>1. PapersInv /\ [Next]_vars =>
         [Orderly =>
            /\ EngagementsAgree
            /\ \A q \in Written(quotes, quotes') :
              CheckedElsewhere(q) \/ FollowsOpportunity(quotes'[q], opportunities')
            /\ \A i \in Written(TiesOf(invoices), TiesOf(invoices')) :
                  BillsContract(invoices'[i], contracts')]_vars
  BY BillingAssumption, PapersStep DEF GoodStep, LinksAgree
<1> QED BY <1>1, PapersKept, PTL DEF Spec, TiesAgree

\* syncAutomaticReminders() reopens no reminder a person closed, and leaves a
\* pending one for each thing that is due and for nothing else.
THEOREM RemindersAreSettled == Spec => SyncSettles
<1>1. PapersInv /\ [Next]_vars =>
         [\A h \in Handlers : Orderly /\ mode.faults = 0 /\ Syncing(h) =>
            /\ \A f \in DOMAIN reminders : reminders[f] # "pending" => reminders'[f] = reminders[f]
            /\ req'[h] = Idle =>
                  /\ {f \in DOMAIN reminders' : reminders'[f] = "pending"} \subseteq req[h].due
                  /\ req[h].due \subseteq DOMAIN reminders']_vars
  BY BillingAssumption, PapersStep DEF GoodStep, Settled
<1> QED BY <1>1, PapersKept, PTL DEF Spec, SyncSettles

-----------------------------------------------------------------------------
(* One upcoming invoice per subscription and due date.                     *)

BilledFields == {"subscription", "due", "status", "payment"}

\* An id of the counter's has been drawn from it.
Drawn(id) == \A n \in Nat : id = <<"FAC", n>> => n <= sequence["FAC"]

IsRow(row) == DOMAIN row = BilledFields /\ row.status # "cancelled"

\* What is about to be written under an id renews what that id renews already.
Renews(id, row) ==
    IF id \in DOMAIN billed
    THEN /\ row.subscription = billed[id].subscription
         /\ row.subscription # None => row.due = billed[id].due
    ELSE row.subscription = None

\* The number the run is about to use, nobody else holds.
Reserved(id) == worker[Scheduler].at = "save upcoming" => id # worker[Scheduler].id

\* The row somebody holds, and will write.
Holds(r) == IsRow(r.row) /\ Drawn(r.id) /\ Renews(r.id, r.row) /\ Reserved(r.id)

KeyFree(s, due) == \A id \in DOMAIN billed : billed[id].subscription = s => billed[id].due # due

Standing ==
    /\ sequence \in [Prefixes -> Nat]
    /\ \A id \in DOMAIN billed : IsRow(billed[id]) /\ Drawn(id) /\ Reserved(id)
    /\ \A a, b \in DOMAIN billed :
          billed[a].subscription # None /\ billed[a].subscription = billed[b].subscription
          /\ billed[a].due = billed[b].due => a = b

OperatorsHold == \A h \in Handlers : req[h].at = "save billed" => Holds(req[h])

ConsumerHolds(r) ==
    /\ r.at \in {"invoice number", "receipt number", "find invoice", "save", "ack"} => r.payment \in published
    /\ r.at = "receipt number" => Drawn(r.number) /\ Reserved(r.number)
    /\ r.at = "find invoice" => Drawn(r.id) /\ Reserved(r.id)
    /\ r.at = "save" => Holds(r)

ConsumersHold == \A c \in Consumers : ConsumerHolds(worker[c])

\* The rest of a run.
Running(r) == {"at", "left", "target"} \subseteq DOMAIN r /\ r.at = "next" /\ r.left \subseteq DOMAIN Subscriptions

SchedulerHolds(r) ==
    /\ r.at = "next" => Running(r)
    /\ r.at \in {"number", "save upcoming"} =>
          /\ Running(r.rest) /\ r.subscription \in DOMAIN Subscriptions
          /\ KeyFree(r.subscription, r.rest.target)
    /\ r.at = "save upcoming" =>
          Drawn(r.id) /\ r.id \in Numbers /\ r.id[1] = "FAC"

\* The announced payments of HQ's own invoices are of invoices that stand.
Announced ==
    /\ stream \subseteq published /\ published \subseteq DOMAIN Payments
    /\ \A p \in published : Payments[p].invoice \in Numbers => Payments[p].invoice \in DOMAIN billed

BilledInv ==
    HandsOff =>
        /\ worker = [w \in Consumers \cup {Scheduler} |-> worker[w]] /\ req = [h \in Handlers |-> req[h]]
        /\ Standing /\ OperatorsHold /\ ConsumersHold /\ SchedulerHolds(worker[Scheduler]) /\ Announced

Grown == sequence' \in [Prefixes -> Nat] /\ sequence'["FAC"] >= sequence["FAC"]

LEMMA DrawnStays ==
    ASSUME sequence \in [Prefixes -> Nat], Grown, NEW id, Drawn(id)
    PROVE  Drawn(id)'
<1>1. sequence["FAC"] \in Nat /\ sequence'["FAC"] \in Nat
  BY DEF Grown, Prefixes
<1> QED BY <1>1 DEF Drawn, Grown

\* What a draw gives, nobody had.
LEMMA Draw ==
    ASSUME sequence \in [Prefixes -> Nat], NEW prefix \in Prefixes, Draws(prefix),
           NEW number, number = NextNumber("FAC")
    PROVE  /\ Grown /\ ~Drawn(number) /\ number \in Numbers /\ number[1] = "FAC"
           /\ prefix = "FAC" => Drawn(number)'
<1>1. PICK n \in Nat : n = sequence["FAC"]
  BY DEF Prefixes
<1>2. sequence[prefix] \in Nat /\ sequence' = [sequence EXCEPT ![prefix] = @ + 1]
  BY DEF Draws
<1>3. sequence' \in [Prefixes -> Nat]
  BY <1>2
<1>4. Grown
  BY <1>1, <1>2, <1>3 DEF Grown, Prefixes
<1>5. number = <<"FAC", n + 1>>
  BY <1>1 DEF NextNumber
<1>6. ~Drawn(number)
  BY <1>1, <1>5 DEF Drawn
<1>7. number \in Numbers /\ number[1] = "FAC"
  BY <1>5 DEF Numbers, Prefixes
<1>8. prefix = "FAC" => sequence'["FAC"] = n + 1
  BY <1>1, <1>2 DEF Prefixes
<1>9. prefix = "FAC" => Drawn(number)'
  BY <1>5, <1>8 DEF Drawn
<1> QED BY <1>4, <1>6, <1>7, <1>9

\* Where no row is written, what is held is held on.
LEMMA HeldOn ==
    ASSUME sequence \in [Prefixes -> Nat], Grown, UNCHANGED billed, NEW r, Holds(r), Reserved(r.id)'
    PROVE  Holds(r)'
<1>1. Drawn(r.id)'
  BY DrawnStays DEF Holds
<1> QED BY <1>1 DEF Holds, IsRow, Renews

LEMMA StandingOn ==
    ASSUME Standing, Grown, UNCHANGED billed, \A id \in DOMAIN billed : Reserved(id)'
    PROVE  Standing'
<1>1. sequence \in [Prefixes -> Nat] /\ sequence' \in [Prefixes -> Nat]
  BY DEF Standing, Grown
<1>2. \A id \in DOMAIN billed : Drawn(id)'
  BY <1>1, DrawnStays DEF Standing
<1> QED BY <1>1, <1>2 DEF Standing, IsRow

\* A consumer moves on without writing a row.
LEMMA ConsumerMoves ==
    ASSUME BillingAssumption, BilledInv, HandsOff, NEW c \in Consumers, NEW r, Works(c, r),
           UNCHANGED <<billed, req, mode, published>>, stream' \subseteq stream, Grown, ConsumerHolds(r)'
    PROVE  BilledInv'
<1>1. Standing /\ OperatorsHold /\ ConsumersHold /\ SchedulerHolds(worker[Scheduler]) /\ Announced
  BY DEF BilledInv
<1>2. /\ worker' = [worker EXCEPT ![c] = r] /\ worker = [w \in Consumers \cup {Scheduler} |-> worker[w]]
      /\ Scheduler \notin Consumers /\ sequence \in [Prefixes -> Nat]
  BY <1>1 DEF Works, BilledInv, BillingAssumption, Standing
<1>3. UNCHANGED worker[Scheduler] /\ (\A id : Reserved(id) => Reserved(id)')
  BY <1>2 DEF Reserved
<1>4. Standing'
  BY <1>1, <1>3, StandingOn DEF Standing
<1>5. OperatorsHold'
  BY <1>1, <1>2, <1>3, HeldOn DEF OperatorsHold, Holds
<1>6. ASSUME NEW d \in Consumers PROVE ConsumerHolds(worker[d])'
  <2>1. CASE d = c
    BY <1>2, <2>1 DEF ConsumerHolds, Holds, Reserved, Drawn, Renews, IsRow
  <2>2. CASE d # c
    <3>1. worker'[d] = worker[d] /\ ConsumerHolds(worker[d])
      BY <1>1, <1>2, <2>2 DEF ConsumersHold
    <3> QED BY <1>2, <1>3, <3>1, HeldOn, DrawnStays DEF ConsumerHolds, Holds
  <2> QED BY <2>1, <2>2
<1>7. SchedulerHolds(worker[Scheduler])'
  BY <1>1, <1>2, <1>3, DrawnStays DEF SchedulerHolds, Running, KeyFree
<1>8. Announced'
  BY <1>1 DEF Announced
<1>9. worker' = [w \in Consumers \cup {Scheduler} |-> worker'[w]]
  BY <1>2
<1> QED BY <1>4, <1>5, <1>6, <1>7, <1>8, <1>9 DEF BilledInv, ConsumersHold, HandsOff

\* The scheduler moves on without writing a row; a number it takes, nobody had.
LEMMA SchedulerMoves ==
    ASSUME BillingAssumption, BilledInv, HandsOff, NEW r, Works(Scheduler, r),
           UNCHANGED <<billed, req, mode, published, stream>>, Grown, SchedulerHolds(r)',
           r.at = "save upcoming" => ~Drawn(r.id)
    PROVE  BilledInv'
<1>1. Standing /\ OperatorsHold /\ ConsumersHold /\ Announced
  BY DEF BilledInv
<1>2. /\ worker' = [worker EXCEPT ![Scheduler] = r] /\ worker = [w \in Consumers \cup {Scheduler} |-> worker[w]]
      /\ Scheduler \notin Consumers /\ sequence \in [Prefixes -> Nat]
  BY <1>1 DEF Works, BilledInv, BillingAssumption, Standing
<1>3. worker'[Scheduler] = r /\ (\A id : Drawn(id) => Reserved(id)')
  BY <1>2 DEF Reserved
<1>4. Standing'
  BY <1>1, <1>3, StandingOn DEF Standing
<1>5. OperatorsHold'
  BY <1>1, <1>2, <1>3, HeldOn DEF OperatorsHold, Holds
<1>6. ASSUME NEW d \in Consumers PROVE ConsumerHolds(worker[d])'
  <2>1. worker'[d] = worker[d] /\ ConsumerHolds(worker[d])
    BY <1>1, <1>2 DEF ConsumersHold
  <2> QED BY <1>2, <1>3, <2>1, HeldOn, DrawnStays DEF ConsumerHolds, Holds
<1>7. SchedulerHolds(worker[Scheduler])'
  BY <1>3 DEF SchedulerHolds, Running, KeyFree, Drawn
<1>8. Announced'
  BY <1>1 DEF Announced
<1>9. worker' = [w \in Consumers \cup {Scheduler} |-> worker'[w]]
  BY <1>2
<1> QED BY <1>4, <1>5, <1>6, <1>7, <1>8, <1>9 DEF BilledInv, ConsumersHold, HandsOff

\* A request of an operator, or about a document, moves on.
LEMMA RequestMoves ==
    ASSUME BillingAssumption, BilledInv, HandsOff, NEW h \in Handlers, NEW r, Awaits(h, r),
           UNCHANGED subscribed, Grown, r.at = "save billed" => Holds(r)'
    PROVE  BilledInv'
<1>1. Standing /\ OperatorsHold /\ ConsumersHold /\ SchedulerHolds(worker[Scheduler]) /\ Announced
  BY DEF BilledInv
<1>2. /\ req' = [req EXCEPT ![h] = r] /\ UNCHANGED mode /\ req = [g \in Handlers |-> req[g]]
      /\ UNCHANGED <<billed, published, stream, worker>> /\ sequence \in [Prefixes -> Nat]
  BY <1>1 DEF Awaits, BilledInv, subscribed, Standing
<1>3. \A id : Reserved(id) => Reserved(id)'
  BY <1>2 DEF Reserved
<1>4. Standing'
  BY <1>1, <1>2, <1>3, StandingOn DEF Standing
<1>5. ASSUME NEW g \in Handlers, req'[g].at = "save billed" PROVE Holds(req[g])'
  <2>1. CASE g = h
    <3>1. req'[g] = r
      BY <1>2, <2>1
    <3> QED BY <1>5, <3>1 DEF Holds, IsRow, Drawn, Renews, Reserved
  <2>2. CASE g # h
    <3>1. req'[g] = req[g] /\ Holds(req[g])
      BY <1>1, <1>2, <1>5, <2>2 DEF OperatorsHold
    <3> QED BY <1>2, <1>3, <3>1, HeldOn DEF Holds
  <2> QED BY <2>1, <2>2
<1>6. ASSUME NEW d \in Consumers PROVE ConsumerHolds(worker[d])'
  <2>1. worker'[d] = worker[d] /\ ConsumerHolds(worker[d])
    BY <1>1, <1>2 DEF ConsumersHold
  <2> QED BY <1>2, <1>3, <2>1, HeldOn, DrawnStays DEF ConsumerHolds, Holds
<1>7. SchedulerHolds(worker[Scheduler])'
  BY <1>1, <1>2, DrawnStays DEF SchedulerHolds, Running, KeyFree
<1>8. Announced'
  BY <1>1, <1>2 DEF Announced
<1>9. req' = [g \in Handlers |-> req'[g]]
  BY <1>2
<1> QED BY <1>2, <1>4, <1>5, <1>6, <1>7, <1>8, <1>9 DEF BilledInv, ConsumersHold, OperatorsHold, HandsOff

\* A row is written under an id that nobody draws: what the others hold agrees
\* with it still.
LEMMA RowWritten ==
    ASSUME Standing, NEW k, NEW row, billed' = With(billed, k, row), UNCHANGED sequence,
           IsRow(row), Drawn(k), Renews(k, row), Reserved(k),
           worker'[Scheduler] = worker[Scheduler],
           None \notin DOMAIN Subscriptions
    PROVE  /\ Standing' /\ DOMAIN billed' = DOMAIN billed \cup {k}
           /\ \A id : (Drawn(id) => Drawn(id)') /\ (Reserved(id) => Reserved(id)')
           /\ \A r : Holds(r) => Holds(r)'
           /\ \A s \in DOMAIN Subscriptions : \A due : KeyFree(s, due) => KeyFree(s, due)'
<1>1. /\ DOMAIN billed' = DOMAIN billed \cup {k} /\ billed'[k] = row
      /\ \A id \in DOMAIN billed \ {k} : billed'[id] = billed[id]
  BY DEF With
<1>2. \A id : (Drawn(id) => Drawn(id)') /\ (Reserved(id) => Reserved(id)')
  BY DEF Drawn, Reserved
<1>3. ASSUME NEW id, NEW held, Renews(id, held) PROVE Renews(id, held)'
  <2>1. CASE id = k /\ k \in DOMAIN billed
    BY <1>1, <1>3, <2>1 DEF Renews
  <2>2. CASE id = k /\ k \notin DOMAIN billed
    BY <1>1, <1>3, <2>2 DEF Renews
  <2>3. CASE id # k
    BY <1>1, <1>3, <2>3 DEF Renews
  <2> QED BY <2>1, <2>2, <2>3
<1>4. \A r : Holds(r) => Holds(r)'
  BY <1>2, <1>3 DEF Holds, IsRow
<1>5. \A id \in DOMAIN billed : billed'[id].subscription = billed[id].subscription
         /\ (billed[id].subscription # None => billed'[id].due = billed[id].due)
  BY <1>1 DEF Renews
<1>6. k \notin DOMAIN billed => billed'[k].subscription = None
  BY <1>1 DEF Renews
<1>7. ASSUME NEW a \in DOMAIN billed', NEW b \in DOMAIN billed', billed'[a].subscription # None,
             billed'[a].subscription = billed'[b].subscription, billed'[a].due = billed'[b].due
      PROVE  a = b
  <2>1. a \in DOMAIN billed /\ b \in DOMAIN billed
    BY <1>1, <1>6, <1>7
  <2> QED BY <1>5, <1>7, <2>1 DEF Standing
<1>8. \A id \in DOMAIN billed' : IsRow(billed'[id]) /\ Drawn(id)' /\ Reserved(id)'
  BY <1>1, <1>2 DEF Standing
<1>9. Standing'
  BY <1>7, <1>8 DEF Standing, IsRow
<1>10. \A s \in DOMAIN Subscriptions : \A due : KeyFree(s, due) => KeyFree(s, due)'
  BY <1>1, <1>5, <1>6 DEF KeyFree
<1> QED BY <1>1, <1>2, <1>4, <1>9, <1>10

\* A consumer, or an operator, writes the row it holds.
LEMMA HeldIsWritten ==
    ASSUME BillingAssumption, BilledInv, HandsOff, NEW held, Holds(held),
           billed' = With(billed, held.id, held.row), UNCHANGED <<sequence, mode, published, stream>>,
           \/ \E c \in Consumers, p \in published : Works(c, [at |-> "ack", payment |-> p]) /\ UNCHANGED req
           \/ \E h \in Handlers : Ends(h) /\ UNCHANGED worker
    PROVE  BilledInv'
<1>1. Standing /\ OperatorsHold /\ ConsumersHold /\ SchedulerHolds(worker[Scheduler]) /\ Announced
  BY DEF BilledInv
<1>2. /\ worker = [w \in Consumers \cup {Scheduler} |-> worker[w]] /\ req = [g \in Handlers |-> req[g]]
      /\ Scheduler \notin Consumers
  BY <1>1 DEF BilledInv, BillingAssumption
<1> DEFINE Aside ==
        /\ worker' = [w \in Consumers \cup {Scheduler} |-> worker'[w]] /\ req' = [g \in Handlers |-> req'[g]]
        /\ worker'[Scheduler] = worker[Scheduler]
        /\ \A d \in Consumers : worker'[d] = worker[d] \/ \E p \in published : worker'[d] = [at |-> "ack", payment |-> p]
        /\ \A g \in Handlers : req'[g] = req[g] \/ req'[g] = Idle
<1>3. Aside
  <2>1. CASE \E h \in Handlers : Ends(h) /\ UNCHANGED worker
    BY <1>2, <2>1 DEF Ends, Awaits
  <2>2. ASSUME NEW c \in Consumers, NEW p \in published, Works(c, [at |-> "ack", payment |-> p]), UNCHANGED req
        PROVE  Aside
    BY <1>2, <2>2 DEF Works
  <2> QED BY <2>1, <2>2
<1>4. /\ Standing' /\ DOMAIN billed \subseteq DOMAIN billed'
      /\ \A id : (Drawn(id) => Drawn(id)') /\ (Reserved(id) => Reserved(id)')
      /\ \A r : Holds(r) => Holds(r)'
      /\ \A s \in DOMAIN Subscriptions : \A due : KeyFree(s, due) => KeyFree(s, due)'
  <2>1. PICK k, row : k = held.id /\ row = held.row
    OBVIOUS
  <2>2. /\ billed' = With(billed, k, row) /\ IsRow(row) /\ Drawn(k) /\ Renews(k, row) /\ Reserved(k)
        /\ None \notin DOMAIN Subscriptions
    BY <2>1 DEF Holds, BillingAssumption
  <2> QED BY <1>1, <1>3, <2>2, RowWritten
<1>5. OperatorsHold'
  BY <1>1, <1>3, <1>4, IdleAt DEF OperatorsHold
<1>6. ASSUME NEW d \in Consumers PROVE ConsumerHolds(worker[d])'
  <2>1. CASE worker'[d] = worker[d]
    BY <1>1, <1>4, <2>1 DEF ConsumersHold, ConsumerHolds
  <2>2. ASSUME NEW p \in published, worker'[d] = [at |-> "ack", payment |-> p] PROVE ConsumerHolds(worker[d])'
    BY <2>2 DEF ConsumerHolds
  <2> QED BY <1>3, <2>1, <2>2
<1>7. SchedulerHolds(worker[Scheduler])'
  BY <1>1, <1>3, <1>4 DEF SchedulerHolds, Running
<1>8. Announced'
  BY <1>1, <1>4 DEF Announced
<1> QED BY <1>3, <1>4, <1>5, <1>6, <1>7, <1>8 DEF BilledInv, ConsumersHold, HandsOff

\* The scheduler writes the invoice of a key that is free.
LEMMA UpcomingIsWritten ==
    ASSUME BillingAssumption, BilledInv, HandsOff, SaveUpcoming
    PROVE  BilledInv'
<1>1. Standing /\ OperatorsHold /\ ConsumersHold /\ SchedulerHolds(worker[Scheduler]) /\ Announced
  BY DEF BilledInv
<1>2. PICK s : s = worker[Scheduler]
  OBVIOUS
<1>3. PICK row : row = BilledInvoice(s.subscription, s.rest.target, "pending", None)
  OBVIOUS
<1>4. /\ s.at = "save upcoming" /\ billed' = With(billed, s.id, row) /\ Works(Scheduler, s.rest)
      /\ UNCHANGED <<sequence, published, stream, req, mode>>
  BY <1>2, <1>3 DEF SaveUpcoming, Elsewhere
<1>5. /\ Running(s.rest) /\ s.subscription \in DOMAIN Subscriptions /\ KeyFree(s.subscription, s.rest.target)
      /\ Drawn(s.id)
  BY <1>1, <1>2, <1>4 DEF SchedulerHolds
<1>6. /\ IsRow(row) /\ row.subscription = s.subscription /\ row.due = s.rest.target
      /\ row.subscription # None
  BY <1>3, <1>5 DEF BilledInvoice, IsRow, BilledFields, BillingAssumption
<1>7. /\ worker' = [worker EXCEPT ![Scheduler] = s.rest] /\ Scheduler \notin Consumers
      /\ worker = [w \in Consumers \cup {Scheduler} |-> worker[w]]
  BY <1>4 DEF Works, BilledInv, BillingAssumption
<1>8. worker'[Scheduler] = s.rest /\ s.rest.at = "next" /\ \A d \in Consumers : worker'[d] = worker[d]
  BY <1>5, <1>7 DEF Running
<1>9. \A id : Reserved(id)'
  BY <1>8 DEF Reserved
<1>10. /\ s.id \notin DOMAIN billed /\ DOMAIN billed' = DOMAIN billed \cup {s.id} /\ billed'[s.id] = row
       /\ \A id \in DOMAIN billed : billed'[id] = billed[id]
  BY <1>1, <1>2, <1>4 DEF Standing, Reserved, With
<1>11. \A id : Drawn(id) => Drawn(id)'
  BY <1>4 DEF Drawn
<1>12. \A r : Holds(r) => Holds(r)'
  <2>1. ASSUME NEW r, Holds(r) PROVE r.id # s.id
    BY <1>2, <1>4, <2>1 DEF Holds, Reserved
  <2>2. ASSUME NEW r, Holds(r) PROVE Renews(r.id, r.row)'
    BY <1>10, <2>1, <2>2 DEF Holds, Renews
  <2> QED BY <1>9, <1>11, <2>2 DEF Holds, IsRow
<1>13. ASSUME NEW a \in DOMAIN billed', NEW b \in DOMAIN billed', billed'[a].subscription # None,
              billed'[a].subscription = billed'[b].subscription, billed'[a].due = billed'[b].due
       PROVE  a = b
  <2>1. CASE a = s.id /\ b # s.id
    BY <1>5, <1>6, <1>10, <1>13, <2>1 DEF KeyFree
  <2>2. CASE b = s.id /\ a # s.id
    BY <1>5, <1>6, <1>10, <1>13, <2>2 DEF KeyFree
  <2>3. CASE a # s.id /\ b # s.id
    BY <1>1, <1>10, <1>13, <2>3 DEF Standing
  <2> QED BY <2>1, <2>2, <2>3
<1>14. \A id \in DOMAIN billed' : IsRow(billed'[id]) /\ Drawn(id)' /\ Reserved(id)'
  BY <1>1, <1>5, <1>6, <1>9, <1>10, <1>11 DEF Standing
<1>15. Standing'
  BY <1>1, <1>4, <1>13, <1>14 DEF Standing, IsRow
<1>16. OperatorsHold'
  BY <1>1, <1>4, <1>12 DEF OperatorsHold
<1>17. ASSUME NEW d \in Consumers PROVE ConsumerHolds(worker[d])'
  BY <1>1, <1>4, <1>8, <1>9, <1>11, <1>12 DEF ConsumersHold, ConsumerHolds
<1>18. SchedulerHolds(worker[Scheduler])'
  BY <1>5, <1>8 DEF SchedulerHolds, Running
<1>19. Announced'
  BY <1>1, <1>4, <1>10 DEF Announced
<1>20. worker' = [w \in Consumers \cup {Scheduler} |-> worker'[w]]
  BY <1>7
<1> QED BY <1>4, <1>15, <1>16, <1>17, <1>18, <1>19, <1>20 DEF BilledInv, ConsumersHold, HandsOff

-----------------------------------------------------------------------------
\* What the requests about documents do to the rest: they draw numbers.
Moves(h) ==
    /\ \E r : Awaits(h, r) /\ r.at # "save billed"
    /\ UNCHANGED sequence \/ \E prefix \in Prefixes : Draws(prefix)

LEMMA StayingMoves ==
    ASSUME PapersInv, NEW h \in Handlers, MayStart(h), UNCHANGED <<req, mode>>,
           UNCHANGED sequence \/ \E prefix \in Prefixes : Draws(prefix)
    PROVE  Moves(h)
<1>1. PICK r : r = req[h]
  OBVIOUS
<1>2. Awaits(h, r) /\ r.at # "save billed"
  BY <1>1 DEF Awaits, MayStart, PapersInv, RequestsKnow
<1> QED BY <1>2 DEF Moves

LEMMA AwaitingMoves ==
    ASSUME NEW h, NEW r, Awaits(h, r), r.at # "save billed",
           UNCHANGED sequence \/ \E prefix \in Prefixes : Draws(prefix)
    PROVE  Moves(h)
BY DEF Moves

LEMMA InvoicesMove ==
    ASSUME PapersInv, NEW h \in Handlers, InvoiceRequest(h) \/ SaveInvoice(h) \/ Mint(h)
    PROVE  Moves(h)
<1>0. "FAC" \in Prefixes /\ "REC" \in Prefixes
  BY DEF Prefixes
<1>1. ASSUME NEW i, NEW typed, NEW row, CreateInvoice(h, i, typed, row) PROVE Moves(h)
  BY <1>0, <1>1, StayingMoves DEF CreateInvoice, Invoice
<1>2. ASSUME NEW i, NEW dto, UpdateInvoice(h, i, dto) PROVE Moves(h)
  <2>1. PICK r : r.at = "save invoice" /\ Awaits(h, r) /\ UNCHANGED sequence
    <3>1. PICK r : r = [at |-> "save invoice", id |-> i, row |-> PatchedInvoice(invoices[i], dto), lines |-> dto.lines]
      OBVIOUS
    <3>2. Awaits(h, r) /\ UNCHANGED sequence /\ r.at = "save invoice"
      BY <1>2, <3>1 DEF UpdateInvoice
    <3> QED BY <3>2
  <2> QED BY <2>1, AwaitingMoves
<1>3. ASSUME NEW i, MarkPaid(h, i) PROVE Moves(h)
  <2>1. PICK r : r = [at |-> "mint", id |-> i, row |-> invoices[i]]
    OBVIOUS
  <2>2. Awaits(h, r) /\ UNCHANGED sequence /\ r.at = "mint"
    BY <1>3, <2>1 DEF MarkPaid
  <2> QED BY <2>2, AwaitingMoves
<1>4. ASSUME NEW i, VoidReceipt(h, i) PROVE Moves(h)
  <2>1. PICK r : r = [at |-> "save invoice", id |-> i, row |-> [invoices[i] EXCEPT !.voided = TRUE], lines |-> Keep]
    OBVIOUS
  <2>2. Awaits(h, r) /\ UNCHANGED sequence /\ r.at = "save invoice"
    BY <1>4, <2>1 DEF VoidReceipt
  <2> QED BY <2>2, AwaitingMoves
<1>5. ASSUME SaveInvoice(h) \/ Mint(h) PROVE Moves(h)
  <2>1. Awaits(h, Idle) /\ (UNCHANGED sequence \/ Draws("REC"))
    BY <1>5 DEF SaveInvoice, Mint, Ends
  <2> QED BY <1>0, <2>1, IdleAt, AwaitingMoves
<1> QED BY <1>1, <1>2, <1>3, <1>4, <1>5 DEF InvoiceRequest

LEMMA QuotesMove ==
    ASSUME PapersInv, NEW h \in Handlers,
           \/ QuoteRequest(h) \/ SaveQuote(h) \/ WinOpportunity(h) \/ QuoteNotBilled(h) \/ AcceptQuote(h)
           \/ \E i \in mode.writable : BillQuote(h, i)
    PROVE  Moves(h)
<1>0. "DEV" \in Prefixes /\ "FAC" \in Prefixes
  BY DEF Prefixes
<1>1. ASSUME NEW q, NEW row, CreateQuote(h, q, None, row) PROVE Moves(h)
  BY <1>0, <1>1, StayingMoves DEF CreateQuote
<1>2. ASSUME NEW q, NEW dto, ReadsQuote(h, q, dto), UNCHANGED sequence PROVE Moves(h)
  <2>1. PICK r : r = [at |-> "save quote", id |-> q, row |-> PatchedQuote(quotes[q], dto),
                      tie |-> QuoteTie(quotes[q], dto), lines |-> dto.lines, accepts |-> dto.status = "accepted"]
    OBVIOUS
  <2>2. Awaits(h, r) /\ r.at = "save quote"
    BY <1>2, <2>1 DEF ReadsQuote
  <2> QED BY <1>2, <2>2, AwaitingMoves
<1>3. ASSUME NEW q, NEW status, NEW due, ConvertQuote(h, q, status, due) PROVE Moves(h)
  <2>1. PICK r : r = [at |-> "bill quote", id |-> q, quote |-> quotes[q], status |-> status, due |-> due]
    OBVIOUS
  <2>2. Awaits(h, r) /\ UNCHANGED sequence /\ r.at = "bill quote"
    BY <1>3, <2>1 DEF ConvertQuote
  <2> QED BY <2>2, AwaitingMoves
<1>4. ASSUME SaveQuote(h) PROVE Moves(h)
  <2>1. PICK won : won = [at |-> "win", opportunity |-> req[h].tie.opportunity]
    OBVIOUS
  <2>2. Awaits(h, Idle) \/ Awaits(h, won)
    BY <1>4, <2>1 DEF SaveQuote, Ends
  <2>3. UNCHANGED sequence /\ won.at = "win"
    BY <1>4, <2>1 DEF SaveQuote
  <2> QED BY <2>2, <2>3, IdleAt, AwaitingMoves
<1>5. ASSUME WinOpportunity(h) \/ QuoteNotBilled(h) PROVE Moves(h)
  <2>1. Awaits(h, Idle) /\ UNCHANGED sequence
    BY <1>5 DEF WinOpportunity, QuoteNotBilled, Ends
  <2> QED BY <2>1, IdleAt, AwaitingMoves
<1>6. ASSUME NEW i, BillQuote(h, i) PROVE Moves(h)
  <2>1. PICK accepting : accepting = [at |-> "accept quote", id |-> req[h].id]
    OBVIOUS
  <2>2. Awaits(h, Idle) \/ Awaits(h, accepting)
    BY <1>6, <2>1 DEF BillQuote, Ends
  <2>3. Draws("FAC")
    BY <1>6 DEF BillQuote, Invoice
  <2>4. accepting.at = "accept quote"
    BY <2>1
  <2> QED BY <1>0, <2>2, <2>3, <2>4, IdleAt, AwaitingMoves
<1> QED BY <1>1, <1>2, <1>3, <1>4, <1>5, <1>6 DEF QuoteRequest, UpdateQuote, AcceptQuote

LEMMA EngagementsMove ==
    ASSUME PapersInv, NEW h \in Handlers, EngagementRequest(h) \/ SaveEngagement(h)
    PROVE  Moves(h)
<1>1. ASSUME NEW table, NEW id, NEW row, Writes(h, table, id, row) PROVE Moves(h)
  <2>1. PICK r : r = [at |-> "save engagement", table |-> table, id |-> id, row |-> row]
    OBVIOUS
  <2>2. Awaits(h, r) /\ UNCHANGED sequence /\ r.at = "save engagement"
    BY <1>1, <2>1 DEF Writes
  <2> QED BY <2>2, AwaitingMoves
<1>2. ASSUME NEW i, NEW p, MoveWorkItem(h, i, p) PROVE Moves(h)
  BY <1>2, StayingMoves DEF MoveWorkItem
<1>3. ASSUME SaveEngagement(h) PROVE Moves(h)
  BY <1>3, IdleAt, AwaitingMoves DEF SaveEngagement, Ends
<1> QED BY <1>1, <1>2, <1>3
    DEF EngagementRequest, CreateOpportunity, UpdateOpportunity, CreateContract, UpdateContract,
        CreateExpense, UpdateExpense, CreateTimeEntry, UpdateTimeEntry

LEMMA RemindersMove ==
    ASSUME PapersInv, NEW h \in Handlers,
           \/ ReminderRequest(h) \/ \E f \in Fingerprints : FindReminder(h, f)
           \/ SaveAutomatic(h) \/ FindObsolete(h) \/ DismissObsolete(h) \/ SaveReminder(h)
    PROVE  Moves(h)
<1>0. ReminderInHand(req[h], Orderly, reminders)
  BY DEF PapersInv, RequestsKnow, InHandOK
<1>1. ASSUME ListReminders(h) PROVE Moves(h)
  BY <1>1, AwaitingMoves DEF ListReminders
<1>2. ASSUME NEW f, NEW status, UpdateReminder(h, f, status) PROVE Moves(h)
  <2>1. PICK r : r = [at |-> "save reminder", fingerprint |-> f, status |-> status]
    OBVIOUS
  <2>2. Awaits(h, r) /\ UNCHANGED sequence /\ r.at = "save reminder"
    BY <1>2, <2>1 DEF UpdateReminder
  <2> QED BY <2>2, AwaitingMoves
<1>3. ASSUME NEW f, FindReminder(h, f) PROVE Moves(h)
  <2>1. PICK rest : rest = [req[h] EXCEPT !.left = @ \ {f}]
    OBVIOUS
  <2>2. PICK kept : kept = [at |-> "upsert", new |-> StatusOf(f) = None, fingerprint |-> f, rest |-> rest]
    OBVIOUS
  <2>3. (Awaits(h, rest) \/ Awaits(h, kept)) /\ UNCHANGED sequence /\ req[h].at = "sync"
    BY <1>3, <2>1, <2>2 DEF FindReminder
  <2>4. rest.at = "sync" /\ kept.at = "upsert"
    BY <1>0, <2>1, <2>2, <2>3 DEF ReminderInHand, Listing
  <2> QED BY <2>3, <2>4, AwaitingMoves
<1>4. ASSUME SaveAutomatic(h) PROVE Moves(h)
  <2>1. (Awaits(h, Idle) \/ Awaits(h, req[h].rest)) /\ UNCHANGED sequence /\ req[h].rest.at = "sync"
    BY <1>0, <1>4 DEF SaveAutomatic, Ends, ReminderInHand, Listing
  <2>2. PICK rest : rest = req[h].rest
    OBVIOUS
  <2> QED BY <2>1, <2>2, IdleAt, AwaitingMoves
<1>5. ASSUME FindObsolete(h) PROVE Moves(h)
  <2>1. PICK r : r = [at |-> "dismiss", due |-> req[h].due,
                      obsolete |-> {f \in DOMAIN reminders \ req[h].due : reminders[f] = "pending"}]
    OBVIOUS
  <2>2. Awaits(h, r) /\ UNCHANGED sequence /\ r.at = "dismiss"
    BY <1>5, <2>1 DEF FindObsolete
  <2> QED BY <2>2, AwaitingMoves
<1>6. ASSUME DismissObsolete(h) \/ SaveReminder(h) PROVE Moves(h)
  <2>1. Awaits(h, Idle) /\ UNCHANGED sequence
    BY <1>6 DEF DismissObsolete, SaveReminder, Ends
  <2> QED BY <2>1, IdleAt, AwaitingMoves
<1> QED BY <1>1, <1>2, <1>3, <1>4, <1>5, <1>6 DEF ReminderRequest

-----------------------------------------------------------------------------
\* Each step of a consumer.
LEMMA ConsumersKeep ==
    ASSUME BillingAssumption, BilledInv, HandsOff, NEW c \in Consumers,
           ConsumerStep(c) \/ DeliveryFails(c) \/ BindFails(c) \/ \E p \in DOMAIN Payments : Deliver(c, p)
    PROVE  BilledInv'
<1>1. Standing /\ ConsumerHolds(worker[c]) /\ Announced /\ SchedulerHolds(worker[Scheduler])
  BY DEF BilledInv, ConsumersHold
<1>2. sequence \in [Prefixes -> Nat] /\ (UNCHANGED sequence => Grown) /\ "FAC" \in Prefixes /\ "REC" \in Prefixes
  BY <1>1 DEF Standing, Grown, Prefixes
<1>3. PICK w : w = worker[c]
  OBVIOUS
<1>4. CASE Bind(c) \/ BindFails(c)
  <2>1. PICK r : (r = Resting \/ r = Deaf) /\ Works(c, r) /\ UNCHANGED <<sequence, billed, req, mode, published, stream>>
    BY <1>4 DEF Bind, BindFails, Elsewhere
  <2>2. ConsumerHolds(r)'
    <3>1. r.at \in {"rest", "deaf"}
      BY <2>1 DEF Resting, Deaf
    <3> QED BY <3>1 DEF ConsumerHolds
  <2> QED BY <1>2, <2>1, <2>2, ConsumerMoves
<1>5. CASE DeliveryFails(c) \/ Acknowledge(c)
  <2>1. Works(c, Resting) /\ UNCHANGED <<sequence, billed, req, mode, published>> /\ stream' \subseteq stream
    BY <1>5 DEF DeliveryFails, Acknowledge, Elsewhere
  <2>2. PICK r : r = Resting
    OBVIOUS
  <2>3. ConsumerHolds(r)'
    BY <2>2 DEF ConsumerHolds, Resting
  <2> QED BY <1>2, <2>1, <2>2, <2>3, ConsumerMoves
<1>6. ASSUME NEW p, Deliver(c, p) PROVE BilledInv'
  <2>1. PICK r : r = [at |-> "invoice number", payment |-> p]
    OBVIOUS
  <2>2. Works(c, r) /\ UNCHANGED <<sequence, billed, req, mode, published, stream>> /\ p \in published
    BY <1>1, <1>6, <2>1 DEF Deliver, Elsewhere, Announced
  <2>3. ConsumerHolds(r)'
    BY <2>1, <2>2 DEF ConsumerHolds
  <2> QED BY <1>2, <2>2, <2>3, ConsumerMoves
<1>7. CASE DrawInvoiceNumber(c)
  <2>1. PICK number : number = NextNumber("FAC")
    OBVIOUS
  <2>2. PICK r : r = [at |-> "receipt number", payment |-> w.payment, number |-> number]
    OBVIOUS
  <2>3. /\ Works(c, r) /\ Draws("FAC") /\ UNCHANGED <<billed, req, mode, published, stream>>
        /\ w.at = "invoice number"
    BY <1>3, <1>7, <2>1, <2>2 DEF DrawInvoiceNumber, Elsewhere
  <2>4. Grown /\ ~Drawn(number) /\ Drawn(number)'
    BY <1>2, <2>1, <2>3, Draw
  <2>5. worker'[Scheduler] = worker[Scheduler]
    BY <2>3 DEF Works, BilledInv, BillingAssumption
  <2>6. Reserved(number)'
    BY <1>1, <2>4, <2>5 DEF Reserved, SchedulerHolds
  <2>7. ConsumerHolds(r)'
    BY <1>1, <1>3, <2>2, <2>3, <2>4, <2>6 DEF ConsumerHolds
  <2> QED BY <2>3, <2>4, <2>7, ConsumerMoves
<1>8. CASE DrawReceiptNumber(c)
  <2>1. PICK id : id = IF Payments[w.payment].invoice = None THEN w.number ELSE Payments[w.payment].invoice
    OBVIOUS
  <2>2. PICK r : r = [at |-> "find invoice", payment |-> w.payment, id |-> id]
    OBVIOUS
  <2>3. /\ Works(c, r) /\ Draws("REC") /\ UNCHANGED <<billed, req, mode, published, stream>>
        /\ w.at = "receipt number"
    BY <1>3, <1>8, <2>1, <2>2 DEF DrawReceiptNumber, Elsewhere
  <2>4. PICK number : number = NextNumber("FAC")
    OBVIOUS
  <2>5. Grown
    BY <1>2, <2>3, <2>4, Draw
  <2>6. Drawn(id) /\ Reserved(id)
    <3>1. CASE id = w.number
      BY <1>1, <1>3, <2>3, <3>1 DEF ConsumerHolds
    <3>2. CASE id = Payments[w.payment].invoice /\ id \in Numbers
      BY <1>1, <1>3, <2>3, <3>2 DEF ConsumerHolds, Announced, Standing
    <3>3. CASE id \notin Numbers
      <4>1. \A n \in Nat : id = <<"FAC", n>> => n = 0
        BY <3>3 DEF Numbers, Prefixes
      <4>2. Drawn(id)
        BY <1>2, <4>1 DEF Drawn
      <4>3. Reserved(id)
        BY <1>1, <3>3 DEF Reserved, SchedulerHolds
      <4> QED BY <4>2, <4>3
    <3> QED BY <2>1, <3>1, <3>2, <3>3
  <2>7. worker'[Scheduler] = worker[Scheduler]
    BY <2>3 DEF Works, BilledInv, BillingAssumption
  <2>8. Drawn(id)' /\ Reserved(id)'
    BY <1>2, <2>5, <2>6, <2>7, DrawnStays DEF Reserved
  <2>9. ConsumerHolds(r)'
    BY <1>1, <1>3, <2>2, <2>3, <2>8 DEF ConsumerHolds
  <2> QED BY <2>3, <2>5, <2>9, ConsumerMoves
<1>9. CASE FindInvoice(c)
  <2>1. PICK row : row = IF w.id \in DOMAIN billed
                         THEN [billed[w.id] EXCEPT !.status = "paid", !.payment = w.payment]
                         ELSE BilledInvoice(None, today, "paid", w.payment)
    OBVIOUS
  <2>2. PICK r : r = [at |-> "save", payment |-> w.payment, id |-> w.id, row |-> row]
    OBVIOUS
  <2>3. /\ Works(c, r) /\ UNCHANGED <<sequence, billed, req, mode, published, stream>>
        /\ w.at = "find invoice"
    BY <1>3, <1>9, <2>1, <2>2 DEF FindInvoice, Elsewhere
  <2>4. worker'[Scheduler] = worker[Scheduler]
    BY <2>3 DEF Works, BilledInv, BillingAssumption
  <2>5. IsRow(row) /\ Renews(w.id, row)
    <3>1. CASE w.id \in DOMAIN billed
      <4>1. DOMAIN billed[w.id] = BilledFields
        BY <1>1, <3>1 DEF Standing, IsRow
      <4> QED BY <2>1, <3>1, <4>1 DEF IsRow, Renews, BilledFields
    <3>2. CASE w.id \notin DOMAIN billed
      BY <2>1, <3>2 DEF IsRow, Renews, BilledFields, BilledInvoice
    <3> QED BY <3>1, <3>2
  <2>6. Drawn(w.id) /\ Reserved(w.id) /\ w.payment \in published
    BY <1>1, <1>3, <2>3 DEF ConsumerHolds
  <2>7. Holds(r)'
    BY <2>2, <2>3, <2>4, <2>5, <2>6 DEF Holds, IsRow, Renews, Drawn, Reserved
  <2>8. ConsumerHolds(r)'
    BY <2>2, <2>3, <2>6, <2>7 DEF ConsumerHolds
  <2> QED BY <1>2, <2>3, <2>8, ConsumerMoves
<1>10. CASE SavePayment(c)
  <2>1. /\ w.at = "save" /\ billed' = With(billed, w.id, w.row) /\ Works(c, [at |-> "ack", payment |-> w.payment])
        /\ UNCHANGED <<sequence, req, mode, published, stream>>
    BY <1>3, <1>10 DEF SavePayment, Elsewhere
  <2>2. Holds(w) /\ w.payment \in published
    BY <1>1, <1>3, <2>1 DEF ConsumerHolds
  <2> QED BY <2>1, <2>2, HeldIsWritten
<1> QED BY <1>4, <1>5, <1>6, <1>7, <1>8, <1>9, <1>10 DEF ConsumerStep

\* Each step of the daily run.
LEMMA SchedulerKeeps ==
    ASSUME BillingAssumption, mode \in Modes, BilledInv, HandsOff, SchedulerStep \/ RunStarts \/ RunFails
    PROVE  BilledInv'
<1>1. Standing /\ SchedulerHolds(worker[Scheduler])
  BY DEF BilledInv
<1>2. sequence \in [Prefixes -> Nat] /\ (UNCHANGED sequence => Grown) /\ "FAC" \in Prefixes
  BY <1>1 DEF Standing, Grown, Prefixes
<1>3. PICK w : w = worker[Scheduler]
  OBVIOUS
<1>4. ASSUME NEW r, Works(Scheduler, r), UNCHANGED <<sequence, billed, req, mode, published, stream>>,
             SchedulerHolds(r), r.at # "save upcoming"
      PROVE  BilledInv'
  <2>1. SchedulerHolds(r)'
    BY <1>4 DEF SchedulerHolds, Running, KeyFree
  <2> QED BY <1>2, <1>4, <2>1, SchedulerMoves
<1>5. CASE RunFails \/ RunEnds
  <2>1. PICK r : r = Resting
    OBVIOUS
  <2>2. Works(Scheduler, r) /\ UNCHANGED <<sequence, billed, req, mode, published, stream>>
    BY <1>5, <2>1 DEF RunFails, RunEnds, Elsewhere
  <2>3. SchedulerHolds(r) /\ r.at # "save upcoming"
    BY <2>1 DEF SchedulerHolds, Resting
  <2> QED BY <1>4, <2>2, <2>3
<1>6. CASE RunStarts
  <2>1. PICK r : r = [at |-> "next", target |-> today + Lead,
                      left |-> {s \in mode.renewing : Subscriptions[s].renews = today + Lead}]
    OBVIOUS
  <2>2. Works(Scheduler, r) /\ UNCHANGED <<sequence, billed, req, mode, published, stream>>
    BY <1>6, <2>1 DEF RunStarts, Elsewhere
  <2>3. SchedulerHolds(r) /\ r.at # "save upcoming"
    BY <2>1 DEF SchedulerHolds, Running, BillingAssumption
  <2> QED BY <1>4, <2>2, <2>3
<1>7. ASSUME NEW s, ConsiderSubscription(s) PROVE BilledInv'
  <2>1. PICK rest : rest = [w EXCEPT !.left = @ \ {s}]
    OBVIOUS
  <2>2. PICK r : r = [at |-> "number", subscription |-> s, rest |-> rest]
    OBVIOUS
  <2>3. w.at = "next" /\ s \in w.left /\ UNCHANGED <<sequence, billed, req, mode, published, stream>>
    BY <1>3, <1>7 DEF ConsiderSubscription, Elsewhere
  <2>4. Running(w)
    BY <1>1, <1>3, <2>3 DEF SchedulerHolds
  <2>5. Running(rest) /\ rest.target = w.target
    BY <2>1, <2>4 DEF Running
  <2>6. \/ Works(Scheduler, rest)
        \/ /\ Works(Scheduler, r)
           /\ Found(s, rest.target) = {} \/ \E id \in Found(s, rest.target) : ~AlreadyInvoiced(billed[id])
    BY <1>3, <1>7, <2>1, <2>2 DEF ConsiderSubscription
  <2>7. CASE Works(Scheduler, rest)
    <3>1. SchedulerHolds(rest) /\ rest.at # "save upcoming"
      BY <2>5 DEF SchedulerHolds, Running
    <3> QED BY <1>4, <2>3, <2>7, <3>1
  <2>8. CASE Works(Scheduler, r) /\ ~Works(Scheduler, rest)
    <3>1. Found(s, rest.target) = {}
      BY <1>1, <2>6, <2>8 DEF Found, AlreadyInvoiced, Standing, IsRow
    <3>2. KeyFree(s, rest.target)
      BY <3>1 DEF Found, KeyFree
    <3>3. s \in DOMAIN Subscriptions
      BY <2>3, <2>4 DEF Running
    <3>4. SchedulerHolds(r) /\ r.at # "save upcoming"
      BY <2>2, <2>5, <3>2, <3>3 DEF SchedulerHolds
    <3> QED BY <1>4, <2>3, <2>8, <3>4
  <2> QED BY <2>6, <2>7, <2>8
<1>8. CASE DrawUpcomingNumber
  <2>1. PICK number : number = NextNumber("FAC")
    OBVIOUS
  <2>2. PICK r : r = [at |-> "save upcoming", id |-> number, subscription |-> w.subscription, rest |-> w.rest]
    OBVIOUS
  <2>3. /\ w.at = "number" /\ Draws("FAC") /\ Works(Scheduler, r)
        /\ UNCHANGED <<billed, req, mode, published, stream>>
    BY <1>3, <1>8, <2>1, <2>2 DEF DrawUpcomingNumber, Elsewhere
  <2>4. Grown /\ ~Drawn(number) /\ Drawn(number)' /\ number \in Numbers /\ number[1] = "FAC"
    BY <1>2, <2>1, <2>3, Draw
  <2>5. SchedulerHolds(r)'
    BY <1>1, <1>3, <2>2, <2>3, <2>4 DEF SchedulerHolds, Running, KeyFree
  <2>6. ~Drawn(r.id)
    BY <2>2, <2>4
  <2> QED BY <2>3, <2>4, <2>5, <2>6, SchedulerMoves
<1> QED BY <1>5, <1>6, <1>7, <1>8, UpcomingIsWritten DEF SchedulerStep

\* The corrections of operators.
LEMMA OperatorsKeep ==
    ASSUME BillingAssumption, mode \in Modes, BilledInv, HandsOff, NEW h \in Handlers,
           \/ \E typed \in mode.typed \cup {None}, status \in mode.adjusts : CreateAdjustment(h, typed, status)
           \/ \E id \in DOMAIN billed, status \in mode.adjusts : SetStatus(h, id, status)
           \/ SaveBilled(h)
    PROVE  BilledInv'
<1>1. Standing /\ OperatorsHold /\ SchedulerHolds(worker[Scheduler])
  BY DEF BilledInv
<1>2. sequence \in [Prefixes -> Nat] /\ (UNCHANGED sequence => Grown) /\ "FAC" \in Prefixes
  BY <1>1 DEF Standing, Grown, Prefixes
<1>3. ASSUME NEW typed \in mode.typed \cup {None}, NEW status \in mode.adjusts, CreateAdjustment(h, typed, status)
      PROVE  BilledInv'
  <2>1. PICK id : id = IF typed = None THEN NextNumber("FAC") ELSE typed
    OBVIOUS
  <2>2. PICK r : r = [at |-> "save billed", id |-> id, row |-> BilledInvoice(None, today, status, None)]
    OBVIOUS
  <2>3. /\ UNCHANGED subscribed /\ (IF typed = None THEN Draws("FAC") ELSE UNCHANGED sequence)
        /\ Awaits(h, Idle) \/ (id \notin DOMAIN billed /\ Awaits(h, r))
    BY <1>3, <2>1, <2>2 DEF CreateAdjustment
  <2>4. Grown /\ Drawn(id)' /\ Reserved(id)
    <3>1. CASE typed = None
      <4>1. Grown /\ ~Drawn(id) /\ Drawn(id)'
        BY <1>2, <2>1, <2>3, <3>1, Draw
      <4> QED BY <1>1, <4>1 DEF Reserved, SchedulerHolds
    <3>2. CASE typed # None
      <4>1. id \in mode.typed /\ id[1] # "FAC"
        BY <2>1, <3>2 DEF HandsOff
      <4>2. Grown /\ Drawn(id)'
        BY <1>2, <2>3, <3>2, <4>1 DEF Drawn
      <4> QED BY <1>1, <4>1, <4>2 DEF Reserved, SchedulerHolds
    <3> QED BY <3>1, <3>2
  <2>5. CASE Awaits(h, Idle)
    BY <2>3, <2>4, <2>5, IdleAt, RequestMoves
  <2>6. CASE id \notin DOMAIN billed /\ Awaits(h, r)
    <3>1. IsRow(r.row) /\ r.row.subscription = None /\ r.id = id
      BY <2>2 DEF BilledInvoice, IsRow, BilledFields, HandsOff
    <3>2. UNCHANGED <<billed, worker>>
      BY <2>3 DEF subscribed
    <3>3. Holds(r)'
      BY <2>4, <2>6, <3>1, <3>2 DEF Holds, IsRow, Renews, Reserved
    <3> QED BY <2>3, <2>4, <2>6, <3>3, RequestMoves
  <2> QED BY <2>3, <2>5, <2>6
<1>4. ASSUME NEW id \in DOMAIN billed, NEW status \in mode.adjusts, SetStatus(h, id, status)
      PROVE  BilledInv'
  <2>1. PICK row : row = [billed[id] EXCEPT !.status = status]
    OBVIOUS
  <2>2. PICK r : r = [at |-> "save billed", id |-> id, row |-> row]
    OBVIOUS
  <2>3. UNCHANGED subscribed /\ UNCHANGED sequence /\ Awaits(h, r)
    BY <1>4, <2>1, <2>2 DEF SetStatus
  <2>4. DOMAIN billed[id] = BilledFields /\ Drawn(id) /\ Reserved(id)
    BY <1>1 DEF Standing, IsRow
  <2>5. IsRow(row) /\ Renews(id, row)
    BY <2>1, <2>4 DEF IsRow, BilledFields, Renews, HandsOff
  <2>6. UNCHANGED <<billed, worker>>
    BY <2>3 DEF subscribed
  <2>7. Holds(r)'
    BY <2>2, <2>3, <2>4, <2>5, <2>6 DEF Holds, IsRow, Renews, Reserved, Drawn
  <2> QED BY <1>2, <2>3, <2>7, RequestMoves
<1>5. ASSUME SaveBilled(h) PROVE BilledInv'
  <2>1. PICK held : held = req[h]
    OBVIOUS
  <2>2. /\ held.at = "save billed" /\ billed' = With(billed, held.id, held.row) /\ Ends(h)
        /\ UNCHANGED <<sequence, published, stream, worker>>
    BY <1>5, <2>1 DEF SaveBilled
  <2>3. Holds(held) /\ UNCHANGED mode
    BY <1>1, <2>1, <2>2 DEF OperatorsHold, Ends, Awaits
  <2> QED BY <2>2, <2>3, HeldIsWritten
<1> QED BY <1>3, <1>4, <1>5

\* What touches no row and nobody's hand: the calendar, the registry, the
\* announcements, and the starts of the process.
LEMMA OthersKeep ==
    ASSUME BillingAssumption, PapersInv, BilledInv, HandsOff,
           \/ \E p \in DOMAIN Payments : Publish(p)
           \/ \E code \in Products : RegisterProduct(code)
           \/ BootFails \/ NextDay \/ Restart
    PROVE  BilledInv'
<1>1. Standing /\ OperatorsHold /\ ConsumersHold /\ SchedulerHolds(worker[Scheduler]) /\ Announced
  BY DEF BilledInv
<1>2. /\ worker = [w \in Consumers \cup {Scheduler} |-> worker[w]] /\ req = [h \in Handlers |-> req[h]]
      /\ Scheduler \notin Consumers
  BY DEF BilledInv, BillingAssumption
<1>3. UNCHANGED <<sequence, billed, mode>>
  BY DEF Publish, RegisterProduct, BootFails, NextDay, Restart, Elsewhere
<1>4. \A id : Drawn(id) <=> Drawn(id)'
  BY <1>3 DEF Drawn
<1>5. /\ worker' = [w \in Consumers \cup {Scheduler} |-> worker'[w]] /\ req' = [h \in Handlers |-> req'[h]]
      /\ \A d \in Consumers : worker'[d] \in {worker[d], Deaf, Booting, Resting}
      /\ worker'[Scheduler] \in {worker[Scheduler], Resting}
      /\ \A h \in Handlers : req'[h] \in {req[h], Idle}
  <2>1. CASE \/ \E p \in DOMAIN Payments : Publish(p)
             \/ \E code \in Products : RegisterProduct(code)
             \/ NextDay
    BY <1>2, <2>1 DEF Publish, RegisterProduct, NextDay, Elsewhere
  <2>2. CASE BootFails
    BY <1>2, <2>2 DEF BootFails, Elsewhere
  <2>3. CASE Restart
    BY <1>2, <2>3 DEF Restart, Started
  <2> QED BY <2>1, <2>2, <2>3
<1>6. /\ published \subseteq published' /\ published' \subseteq DOMAIN Payments /\ stream' \subseteq published'
      /\ \A p \in published' : Payments[p].invoice \in Numbers => Payments[p].invoice \in DOMAIN billed
  <2>1. CASE \E p \in DOMAIN Payments : Publish(p)
    BY <1>1, <2>1 DEF Announced, Publish
  <2>2. CASE UNCHANGED <<published, stream>>
    BY <1>1, <2>2 DEF Announced
  <2> QED BY <2>1, <2>2 DEF RegisterProduct, BootFails, NextDay, Restart
<1>7. \A id : Reserved(id) => Reserved(id)'
  <2>1. CASE worker'[Scheduler] = worker[Scheduler]
    BY <2>1 DEF Reserved
  <2>2. CASE worker'[Scheduler].at = "rest"
    BY <2>2 DEF Reserved
  <2> QED BY <1>5, <2>1, <2>2 DEF Resting
<1>8. \A r : Holds(r) => Holds(r)'
  BY <1>3, <1>4, <1>7 DEF Holds, IsRow, Renews
<1>9. Standing'
  BY <1>1, <1>3, <1>4, <1>7 DEF Standing, IsRow
<1>10. OperatorsHold'
  BY <1>1, <1>5, <1>8, IdleAt DEF OperatorsHold
<1>11. ASSUME NEW d \in Consumers PROVE ConsumerHolds(worker[d])'
  <2>1. CASE worker'[d] = worker[d]
    BY <1>1, <1>4, <1>6, <1>7, <1>8, <2>1 DEF ConsumersHold, ConsumerHolds
  <2>2. CASE worker'[d].at \in {"deaf", "boot", "rest"}
    BY <2>2 DEF ConsumerHolds
  <2> QED BY <1>5, <2>1, <2>2 DEF Deaf, Booting, Resting
<1>12. SchedulerHolds(worker[Scheduler])'
  <2>1. CASE worker'[Scheduler] = worker[Scheduler]
    BY <1>1, <1>3, <1>4, <2>1 DEF SchedulerHolds, Running, KeyFree
  <2>2. CASE worker'[Scheduler].at = "rest"
    BY <2>2 DEF SchedulerHolds
  <2> QED BY <1>5, <2>1, <2>2 DEF Resting
<1>13. Announced'
  BY <1>3, <1>6 DEF Announced
<1> QED BY <1>3, <1>5, <1>9, <1>10, <1>11, <1>12, <1>13 DEF BilledInv, ConsumersHold, HandsOff

LEMMA BilledInit == BillingAssumption /\ Init => BilledInv
<1> SUFFICES ASSUME BillingAssumption, Init, HandsOff
             PROVE  BilledInv
  BY DEF BilledInv
<1>1. /\ sequence = [prefix \in Prefixes |-> 0] /\ billed = [id \in {} |-> None]
      /\ published = {} /\ stream = {} /\ worker = Started /\ req = [h \in Handlers |-> Idle]
  BY DEF Init
<1>2. \A w \in Consumers \cup {Scheduler} : worker[w].at \in {"boot", "rest"}
  BY <1>1 DEF Started, Booting, Resting
<1>3. Standing
  BY <1>1 DEF Standing
<1>4. OperatorsHold
  BY <1>1, IdleAt DEF OperatorsHold
<1>5. ConsumersHold
  BY <1>2 DEF ConsumersHold, ConsumerHolds
<1>6. SchedulerHolds(worker[Scheduler])
  BY <1>2 DEF SchedulerHolds
<1>7. Announced
  BY <1>1 DEF Announced
<1> QED BY <1>1, <1>3, <1>4, <1>5, <1>6, <1>7 DEF BilledInv, Started

LEMMA BilledNext == BillingAssumption /\ PapersInv /\ BilledInv /\ Next => BilledInv'
<1> SUFFICES ASSUME BillingAssumption, PapersInv, BilledInv, Next, HandsOff'
             PROVE  BilledInv'
  BY DEF BilledInv
<1>1. ASSUME NEW h \in Handlers, UNCHANGED subscribed, Moves(h)
      PROVE  BilledInv'
  <2>1. PICK r : Awaits(h, r) /\ r.at # "save billed"
    BY <1>1 DEF Moves
  <2>2. HandsOff
    BY <2>1 DEF HandsOff, Awaits
  <2>3. sequence \in [Prefixes -> Nat]
    BY <2>2 DEF BilledInv, Standing
  <2>4. Grown
    <3>1. CASE UNCHANGED sequence
      BY <2>3, <3>1 DEF Grown, Prefixes
    <3>2. ASSUME NEW prefix \in Prefixes, Draws(prefix) PROVE Grown
      <4>1. PICK number : number = NextNumber("FAC")
        OBVIOUS
      <4> QED BY <2>3, <3>2, <4>1, Draw
    <3> QED BY <1>1, <3>1, <3>2 DEF Moves
  <2> QED BY <1>1, <2>1, <2>2, <2>4, RequestMoves
<1>2. CASE Documents
  <2>1. PICK h \in Handlers : InvoiceRequest(h) \/ QuoteRequest(h) \/ ReminderRequest(h) \/ DocumentStep(h)
    BY <1>2 DEF Documents
  <2>2. Moves(h)
    BY <2>1, InvoicesMove, QuotesMove, RemindersMove DEF DocumentStep
  <2> QED BY <1>1, <1>2, <2>2 DEF Documents
<1>3. CASE Engaged
  BY <1>1, <1>3, EngagementsMove DEF Engaged
<1>4. CASE Billed
  <2>1. UNCHANGED mode
    <3>1. CASE Background
      BY <3>1, BackgroundIsBeside DEF Beside, PapersInv
    <3>2. CASE Restart
      BY <3>2 DEF Restart
    <3>3. ASSUME NEW h \in Handlers, OperatorRequest(h) \/ SaveBilled(h) PROVE UNCHANGED mode
      BY <3>3 DEF OperatorRequest, CreateAdjustment, SetStatus, SaveBilled, Ends, Awaits
    <3> QED BY <1>4, <3>1, <3>2, <3>3 DEF Billed, Background
  <2>2. HandsOff
    BY <2>1 DEF HandsOff
  <2>3. ASSUME NEW c \in Consumers,
               ConsumerStep(c) \/ DeliveryFails(c) \/ BindFails(c) \/ \E p \in DOMAIN Payments : Deliver(c, p)
        PROVE  BilledInv'
    BY <2>2, <2>3, ConsumersKeep
  <2>4. ASSUME SchedulerStep \/ RunStarts \/ RunFails PROVE BilledInv'
    BY <2>2, <2>4, SchedulerKeeps DEF PapersInv
  <2>5. ASSUME NEW h \in Handlers, OperatorRequest(h) \/ SaveBilled(h) PROVE BilledInv'
    BY <2>2, <2>5, OperatorsKeep DEF OperatorRequest, PapersInv
  <2>6. ASSUME \/ \E p \in DOMAIN Payments : Publish(p)
               \/ \E code \in Products : RegisterProduct(code)
               \/ BootFails \/ NextDay \/ Restart
        PROVE  BilledInv'
    BY <2>2, <2>6, OthersKeep
  <2> QED BY <1>4, <2>3, <2>4, <2>5, <2>6 DEF Billed
<1> QED BY <1>2, <1>3, <1>4 DEF Next

LEMMA BilledStays == BillingAssumption /\ PapersInv /\ BilledInv /\ [Next]_vars => BilledInv'
<1> SUFFICES ASSUME BillingAssumption, PapersInv, BilledInv, UNCHANGED vars
             PROVE  BilledInv'
  BY BilledNext
<1> QED BY DEF vars, subscribed, BilledInv, HandsOff, Standing, OperatorsHold, ConsumersHold, ConsumerHolds,
               SchedulerHolds, Running, KeyFree, Holds, Renews, Reserved, Drawn, IsRow, Announced

\* "Only 1 non-cancelled invoice exists per (subscriptionId, due) pair": whatever
\* restarts, fails or overlaps, a run draws an invoice only for a key nothing
\* bears, and no payment or correction moves a row to another key
\* (generateUpcomingSubscriptionInvoices(), processPaymentSucceeded(), setStatus()).
THEOREM InvoicedOnce == Spec => []OneUpcomingInvoice
<1>1. PapersInv /\ BilledInv /\ [Next]_vars => BilledInv'
  BY BillingAssumption, BilledStays
<1>2. Init => BilledInv
  BY BillingAssumption, BilledInit
<1>3. BilledInv => OneUpcomingInvoice
  BY DEF BilledInv, Standing, OneUpcomingInvoice
<1> QED BY <1>1, <1>2, <1>3, PapersKept, PTL DEF Spec
=============================================================================
