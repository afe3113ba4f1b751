--------------------------- MODULE WorkItemsProofs ---------------------------
(***************************************************************************)
(* Theorems about WorkItems, for every number of clients, tickets and      *)
(* projects.  DatesStamped is not inductive: a handler may be about to     *)
(* save rows it read long before, so the invariant follows every row into  *)
(* the handlers' hands (GoodHandler), together with what each place of a   *)
(* handler knows about the rows it holds.                                  *)
(***************************************************************************)
EXTENDS WorkItems, FiniteSetTheorems, TLAPS

GoodRow(row) == row \in Rows /\ StampedRow(row)

GoodTable(t, keys) ==
    /\ DOMAIN t \subseteq keys
    /\ t = [i \in DOMAIN t |-> t[i]]
    /\ \A i \in DOMAIN t : GoodRow(t[i])

\* What a handler knows where it stands: which rows it holds.
GoodHandler(r, rows) ==
    /\ r \in Requests
    /\ GoodTable(rows, Ids \cup {Draft})
    /\ r.pc \in {"reserve", "count", "insert"} => DOMAIN rows = {Draft}
    /\ r.pc = "reserve" => rows[Draft].project \in Projects
    /\ r.pc \in {"ancestors", "update", "plan"} =>
          /\ r.id \in Ids /\ r.id \in DOMAIN rows
          /\ DOMAIN rows \subseteq Ids
    /\ r.pc = "ancestors" => r.dto.parent \in Ids
    /\ r.pc = "plan" => r.dto.status \in Statuses
    /\ r.pc = "save" => DOMAIN rows \subseteq Ids
    /\ r.pc = "triage" => r.dto.status \in {"todo", "closed"}

GoodTables ==
    /\ GoodTable(items, Ids)
    /\ nextId \in 1 .. MaxItems + 1
    /\ taskSeq \in [Projects -> Nat]
    /\ workload \in Workloads

GoodHandlers ==
    /\ req \in [Processes -> Requests]
    /\ DOMAIN held = Processes
    /\ \A p \in Processes : GoodHandler(req[p], held[p])

IInv == GoodTables /\ GoodHandlers

-----------------------------------------------------------------------------
\* The operators on rows.

\* What create() and capture() make of a request body.
LEMMA NewRowGood ==
    ASSUME NEW s \in Statuses, NEW t \in WorkItemTypes,
           NEW j \in Projects \cup {NoProject}, NEW n \in Nat
    PROVE  GoodRow(NewRow(s, t, j, n)) /\ NewRow(s, t, j, n).project = j
  <1>1. NoReference \in References
    BY DEF References
  <1>2. 0 \in NoDate .. Window /\ NoDate \in NoDate .. Window /\ NoParent \in Ids \cup {NoParent}
    BY WorkItemsAssumption DEF NoDate
  <1> QED
    BY <1>1, <1>2 DEF GoodRow, Rows, StampedRow, NewRow, NoDate

\* A row keeps its dates right through applyStatusTimestamps: one that was
\* good under its old status is good under the new one.
LEMMA StampedGood ==
    ASSUME NEW row \in Rows, NEW old \in Statuses,
           old = "resolved" => row.resolvedAt # NoDate,
           old = "closed" => row.closedAt # NoDate
    PROVE  GoodRow(Stamped(row, old))
  <1>1. 0 \in NoDate .. Window /\ NoDate \in NoDate .. Window /\ 0 # NoDate
    BY WorkItemsAssumption DEF NoDate
  <1> QED
    BY <1>1 DEF GoodRow, Rows, StampedRow, Stamped

\* Object.assign of a typed body keeps the row's type and its dates.
LEMMA AssignedTyped ==
    ASSUME NEW row \in Rows, NEW dto \in Dtos
    PROVE  /\ Assigned(row, dto) \in Rows
           /\ Assigned(row, dto).resolvedAt = row.resolvedAt
           /\ Assigned(row, dto).closedAt = row.closedAt
           /\ Assigned(row, dto).reference = row.reference
  BY DEF Rows, Dtos, Assigned, Given

\* A day does not take a date away.
LEMMA AgedGood ==
    ASSUME NEW row, GoodRow(row)
    PROVE  GoodRow(Aged(row)) /\ Aged(row).project = row.project
  <1>1. \A d \in NoDate .. Window :
            LET e == IF d \in {NoDate, Window} THEN d ELSE d + 1
            IN  e \in NoDate .. Window /\ (d # NoDate => e # NoDate)
    BY WorkItemsAssumption DEF NoDate
  <1> QED
    BY <1>1 DEF GoodRow, Rows, StampedRow, Aged

\* A decision on triage closes with a date.
LEMMA DecidedGood ==
    ASSUME NEW row, GoodRow(row), NEW d \in {"todo", "closed"}
    PROVE  GoodRow(Decided(row, d))
  <1>1. 0 # NoDate
    BY DEF NoDate
  <1> QED
    BY <1>1 DEF GoodRow, Rows, StampedRow, Decided, Statuses

-----------------------------------------------------------------------------
\* Tables.

LEMMA GoodTableIsTable ==
    ASSUME NEW t, NEW keys, GoodTable(t, keys)
    PROVE  IsTable(t, keys)
  BY DEF GoodTable, IsTable, GoodRow

LEMMA RowGood ==
    ASSUME NEW id, NEW row, GoodRow(row), NEW keys, id \in keys
    PROVE  GoodTable(Row(id, row), keys) /\ DOMAIN Row(id, row) = {id} /\ Row(id, row)[id] = row
  BY DEF GoodTable, Row

LEMMA UpsertGood ==
    ASSUME NEW t, NEW u, NEW keys, GoodTable(t, keys), GoodTable(u, keys)
    PROVE  GoodTable(Upsert(t, u), keys) /\ DOMAIN Upsert(t, u) = DOMAIN t \cup DOMAIN u
  BY DEF GoodTable, Upsert

LEMMA EmptyGood ==
    ASSUME NEW keys
    PROVE  GoodTable(EmptyTable, keys) /\ DOMAIN EmptyTable = {}
  BY DEF GoodTable, EmptyTable

LEMMA AgedTableGood ==
    ASSUME NEW t, NEW keys, GoodTable(t, keys)
    PROVE  GoodTable(AgedTable(t), keys) /\ DOMAIN AgedTable(t) = DOMAIN t
  BY AgedGood DEF GoodTable, AgedTable

\* Any set of tickets is finite, so counting one gives a number.
LEMMA TicketsFinite ==
    ASSUME NEW S, S \subseteq Ids
    PROVE  IsFiniteSet(S) /\ Cardinality(S) \in Nat
  <1>1. IsFiniteSet(Ids)
    BY FS_Interval, WorkItemsAssumption DEF Ids
  <1> QED
    BY <1>1, FS_Subset, FS_CardinalityType

LEMMA CountOfTyped ==
    ASSUME GoodTables, NEW s
    PROVE  CountOf(s) \in Nat
  BY TicketsFinite DEF GoodTables, GoodTable, CountOf

-----------------------------------------------------------------------------
\* planMove, as far as its rows matter: it places tickets of the board only, at
\* a rank, and only the moved one changes column.
LEMMA PlanMoveTyped ==
    ASSUME NEW all, DOMAIN all \subseteq Ids, NEW id,
           NEW s \in Statuses, NEW at \in Nat,
           \A i \in DOMAIN all : all[i].status \in Statuses
    PROVE  /\ DOMAIN PlanMove(all, id, s, at) \subseteq DOMAIN all
           /\ \A i \in DOMAIN PlanMove(all, id, s, at) :
                 /\ PlanMove(all, id, s, at)[i].status \in Statuses
                 /\ PlanMove(all, id, s, at)[i].position \in Nat
                 /\ i # id => PlanMove(all, id, s, at)[i].status = all[i].status
  <1>1. CASE id \notin DOMAIN all
    BY <1>1 DEF PlanMove
  <1>2. CASE id \in DOMAIN all
    <2> DEFINE source == IF all[id].status = s THEN {} ELSE Column(all, all[id].status, id)
               target == Column(all, s, id)
               size   == Cardinality(target)
               index  == IF at < size THEN at ELSE size
               placed(i) == IF i = id THEN index
                            ELSE IF i \in source THEN Rank(all, source, i)
                            ELSE LET r == Rank(all, target, i)
                                 IN IF r < index THEN r ELSE r + 1
               column(i) == IF i \in source THEN all[id].status ELSE s
               changed == {i \in target \cup source \cup {id} :
                              \/ all[i].status # column(i)
                              \/ all[i].position # placed(i)}
    <2>1. source \subseteq Ids /\ target \subseteq Ids
      BY DEF Column
    <2>2. \A i : Rank(all, source, i) \in Nat /\ Rank(all, target, i) \in Nat
      <3>1. \A i : {j \in source : ByPosition(all, j, i)} \subseteq Ids
        BY <2>1
      <3>2. \A i : {j \in target : ByPosition(all, j, i)} \subseteq Ids
        BY <2>1
      <3> QED
        BY <3>1, <3>2, TicketsFinite DEF Rank
    <2>3. size \in Nat
      BY <2>1, TicketsFinite
    <2>4. index \in Nat
      BY <2>3
    <2>5. \A i : placed(i) \in Nat
      BY <2>2, <2>4
    <2>6. \A i \in changed : i \in DOMAIN all
      BY <1>2 DEF Column
    <2>7. \A i \in changed : column(i) \in Statuses /\ (i # id => column(i) = all[i].status)
      BY <1>2 DEF Column
    <2>8. PlanMove(all, id, s, at)
            = [i \in changed |-> [status |-> column(i), position |-> placed(i)]]
      BY <1>2 DEF PlanMove
    <2> HIDE DEF changed, column, placed
    <2> QED
      BY <2>5, <2>6, <2>7, <2>8
  <1> QED
    BY <1>1, <1>2

\* The rows a move is about to save are good: the moved one is stamped, its
\* siblings stay in their column.
LEMMA MovedRowsGood ==
    ASSUME GoodTable(items, Ids), NEW id \in Ids, NEW item, GoodRow(item),
           NEW s \in Statuses, NEW at \in Nat
    PROVE  GoodTable(MovedRows(id, item, PlanMove(items, id, s, at)), Ids)
  <1> DEFINE plan == PlanMove(items, id, s, at)
             rowOf(i) == IF i = id THEN item ELSE items[i]
             placed(i) == [rowOf(i) EXCEPT !.status = plan[i].status,
                                           !.position = plan[i].position]
  <1>1. DOMAIN items \subseteq Ids /\ \A i \in DOMAIN items : items[i].status \in Statuses
    BY DEF GoodTable, GoodRow, Rows
  <1>2. /\ DOMAIN plan \subseteq DOMAIN items
        /\ \A i \in DOMAIN plan : /\ plan[i].status \in Statuses
                                  /\ plan[i].position \in Nat
                                  /\ i # id => plan[i].status = items[i].status
    BY <1>1, PlanMoveTyped
  <1> HIDE DEF plan
  <1>3. \A i \in DOMAIN plan : GoodRow(rowOf(i))
    BY <1>2 DEF GoodTable
  <1>4. \A i \in DOMAIN plan : placed(i) \in Rows
    BY <1>2, <1>3 DEF GoodRow, Rows
  <1>5. \A i \in DOMAIN plan : i # id => GoodRow(placed(i))
    BY <1>2, <1>3, <1>4 DEF GoodRow, Rows, StampedRow
  <1>6. id \in DOMAIN plan => GoodRow(Stamped(placed(id), item.status))
    <2> SUFFICES ASSUME id \in DOMAIN plan
                 PROVE  GoodRow(Stamped(placed(id), item.status))
      OBVIOUS
    <2>1. placed(id) \in Rows
      BY <1>4
    <2>2. placed(id).resolvedAt = item.resolvedAt /\ placed(id).closedAt = item.closedAt
      BY DEF GoodRow, Rows
    <2>3. item.status \in Statuses
      BY DEF GoodRow, Rows
    <2> HIDE DEF placed
    <2> QED
      BY <2>1, <2>2, <2>3, StampedGood DEF GoodRow, StampedRow
  <1>7. MovedRows(id, item, plan)
          = [i \in DOMAIN plan |-> IF i = id THEN Stamped(placed(i), item.status)
                                             ELSE placed(i)]
    BY DEF MovedRows
  <1> HIDE DEF placed, rowOf
  <1>8. \A i \in DOMAIN plan : i \in Ids
    BY <1>2 DEF GoodTable
  <1>9. GoodTable(MovedRows(id, item, plan), Ids)
    BY <1>5, <1>6, <1>7, <1>8 DEF GoodTable
  <1> QED
    BY <1>9 DEF plan

-----------------------------------------------------------------------------
\* A handler that reaches its next await in good order leaves all of them so.
LEMMA AwaitsGood ==
    ASSUME GoodHandlers, NEW p \in Processes, NEW r, NEW rows,
           GoodHandler(r, rows), Awaits(p, r, rows)
    PROVE  GoodHandlers' /\ workload' = workload
  BY DEF GoodHandlers, GoodHandler, Awaits

LEMMA IdleGood == Idle \in Requests /\ GoodHandler(Idle, EmptyTable)
  <1>1. Idle \in Requests
    BY WorkItemsAssumption DEF Idle, Requests, Pcs, NoDto, Dtos
  <1> QED
    BY <1>1, EmptyGood DEF GoodHandler, Idle

LEMMA EndsGood ==
    ASSUME GoodHandlers, NEW p \in Processes, Ends(p)
    PROVE  GoodHandlers' /\ workload' = workload
  BY IdleGood, AwaitsGood DEF Ends

-----------------------------------------------------------------------------
\* The invariant holds of the empty system.
LEMMA InvInit == Init => IInv
  <1> SUFFICES ASSUME Init PROVE IInv
    OBVIOUS
  <1>1. GoodTables
    BY EmptyGood, WorkItemsAssumption DEF Init, GoodTables
  <1>2. GoodHandlers
    BY IdleGood, EmptyGood DEF Init, GoodHandlers, GoodHandler
  <1> QED
    BY <1>1, <1>2 DEF IInv

\* Steps that only read: the tables stay, one handler reaches its next await.
LEMMA ReadsOnly ==
    ASSUME IInv, NEW p \in Processes, NEW r, NEW rows, GoodHandler(r, rows),
           Awaits(p, r, rows), UNCHANGED tables
    PROVE  IInv'
  <1>1. GoodHandlers' /\ workload' = workload
    BY AwaitsGood DEF IInv
  <1> QED
    BY <1>1 DEF IInv, GoodTables, tables

\* Steps that write good rows into the table and answer.
LEMMA WritesAndEnds ==
    ASSUME IInv, NEW p \in Processes, Ends(p), GoodTable(items', Ids),
           nextId' \in 1 .. MaxItems + 1, taskSeq' = taskSeq
    PROVE  IInv'
  <1>1. GoodHandlers' /\ workload' = workload
    BY EndsGood DEF IInv
  <1> QED
    BY <1>1 DEF IInv, GoodTables

LEMMA EndsOnly ==
    ASSUME IInv, NEW p \in Processes, Ends(p), UNCHANGED tables
    PROVE  IInv'
  BY ReadsOnly, IdleGood DEF Ends

\* A new ticket's first steps.
LEMMA CreateCountInv ==
    ASSUME IInv, NEW p \in Processes, NEW s \in Statuses, NEW t \in WorkItemTypes,
           NEW j \in Projects, CreateCount(p, s, t, j)
    PROVE  IInv'
  <1> DEFINE r == [Idle EXCEPT !.pc = "reserve"]
             row == NewRow(s, t, j, CountOf(s))
  <1>1. GoodRow(row) /\ row.project = j
    BY CountOfTyped, NewRowGood DEF IInv
  <1>2. r \in Requests /\ r.pc = "reserve"
    BY IdleGood DEF Requests, Pcs, Idle
  <1> HIDE DEF row, r
  <1>3. GoodHandler(r, Row(Draft, row))
    BY <1>1, <1>2, RowGood DEF GoodHandler
  <1>4. Awaits(p, r, Row(Draft, row)) /\ UNCHANGED tables
    BY DEF CreateCount, r, row
  <1> QED
    BY <1>3, <1>4, ReadsOnly

LEMMA CreateReserveInv ==
    ASSUME IInv, NEW p \in Processes, CreateReserve(p)
    PROVE  IInv'
  <1> DEFINE draft == held[p][Draft]
             r == [Idle EXCEPT !.pc = "insert"]
             row == [draft EXCEPT !.reference =
                        <<draft.project, taskSeq[draft.project] + 1>>]
  <1>1. req[p].pc = "reserve" /\ GoodHandler(req[p], held[p])
    BY DEF CreateReserve, IInv, GoodHandlers
  <1>2. GoodRow(draft) /\ draft.project \in Projects
    BY <1>1 DEF GoodHandler, GoodTable
  <1>3. taskSeq[draft.project] \in Nat
    BY <1>2 DEF IInv, GoodTables
  <1>4. <<draft.project, taskSeq[draft.project] + 1>> \in References
    BY <1>2, <1>3 DEF References
  <1>5. r \in Requests /\ r.pc = "insert"
    BY IdleGood DEF Requests, Pcs, Idle
  <1>6. Awaits(p, r, Row(Draft, row)) /\ NextTaskSeq(draft.project) /\ UNCHANGED <<items, nextId>>
    BY DEF CreateReserve
  <1>7. taskSeq' \in [Projects -> Nat]
    BY <1>2, <1>3, <1>6 DEF NextTaskSeq, IInv, GoodTables
  <1> HIDE DEF draft, r
  <1>8. GoodRow(row)
    BY <1>2, <1>4 DEF GoodRow, Rows, StampedRow
  <1> HIDE DEF row
  <1>9. GoodHandler(r, Row(Draft, row))
    BY <1>5, <1>8, RowGood DEF GoodHandler
  <1>10. GoodHandlers' /\ workload' = workload
    BY <1>6, <1>9, AwaitsGood DEF IInv
  <1> QED
    BY <1>6, <1>7, <1>10 DEF IInv, GoodTables

LEMMA CaptureInv ==
    ASSUME IInv, NEW p \in Processes, NEW t \in WorkItemTypes,
           NEW j \in Projects \cup {NoProject}, Capture(p, t, j)
    PROVE  IInv'
  <1> DEFINE ref == IF j = NoProject THEN NoReference ELSE <<j, taskSeq[j] + 1>>
             new == NewRow("todo", t, j, 0)
             row == [new EXCEPT !.reference = ref]
             r == [Idle EXCEPT !.pc = "count"]
  <1>1. GoodRow(new)
    BY NewRowGood DEF Statuses
  <1>2. j # NoProject => taskSeq[j] \in Nat
    BY DEF IInv, GoodTables
  <1>3. ref \in References
    BY <1>2 DEF References
  <1>4. r \in Requests /\ r.pc = "count"
    BY IdleGood DEF Requests, Pcs, Idle
  <1>5. Awaits(p, r, Row(Draft, row)) /\ UNCHANGED <<items, nextId>>
    BY DEF Capture
  <1>6. taskSeq' \in [Projects -> Nat]
    BY <1>2 DEF Capture, NextTaskSeq, IInv, GoodTables
  <1> HIDE DEF r, new, ref
  <1>7. GoodRow(row)
    BY <1>1, <1>3 DEF GoodRow, Rows, StampedRow
  <1> HIDE DEF row
  <1>8. GoodHandler(r, Row(Draft, row))
    BY <1>4, <1>7, RowGood DEF GoodHandler
  <1>9. GoodHandlers' /\ workload' = workload
    BY <1>5, <1>8, AwaitsGood DEF IInv
  <1> QED
    BY <1>5, <1>6, <1>9 DEF IInv, GoodTables

LEMMA CaptureCountInv ==
    ASSUME IInv, NEW p \in Processes, CaptureCount(p)
    PROVE  IInv'
  <1> DEFINE draft == held[p][Draft]
             row == [draft EXCEPT !.position = CountOf("todo")]
             r == [Idle EXCEPT !.pc = "insert"]
  <1>1. GoodRow(draft)
    BY DEF CaptureCount, IInv, GoodHandlers, GoodHandler, GoodTable
  <1>2. CountOf("todo") \in Nat
    BY CountOfTyped DEF IInv
  <1>3. r \in Requests /\ r.pc = "insert"
    BY IdleGood DEF Requests, Pcs, Idle
  <1>4. Awaits(p, r, Row(Draft, row)) /\ UNCHANGED tables
    BY DEF CaptureCount
  <1> HIDE DEF r, draft
  <1>5. GoodRow(row)
    BY <1>1, <1>2 DEF GoodRow, Rows, StampedRow
  <1> HIDE DEF row
  <1>6. GoodHandler(r, Row(Draft, row))
    BY <1>3, <1>5, RowGood DEF GoodHandler
  <1> QED
    BY <1>4, <1>6, ReadsOnly

LEMMA InsertInv ==
    ASSUME IInv, NEW p \in Processes, Insert(p)
    PROVE  IInv'
  <1>1. GoodRow(held[p][Draft])
    BY DEF Insert, IInv, GoodHandlers, GoodHandler, GoodTable
  <1>2. nextId \in Ids /\ nextId' \in 1 .. MaxItems + 1
    BY WorkItemsAssumption DEF Insert, IInv, GoodTables, Ids
  <1>3. GoodTable(items', Ids)
    BY <1>1, <1>2, RowGood, UpsertGood DEF Insert, IInv, GoodTables
  <1> QED
    BY <1>2, <1>3, WritesAndEnds DEF Insert

-----------------------------------------------------------------------------
\* update(): the bodies the two controllers let through.
LEMMA UpdateDtosTyped ==
    ASSUME workload \in Workloads
    PROVE  UpdateDtos \subseteq Dtos
  <1>1. /\ workload.statuses \subseteq Statuses /\ workload.types \subseteq WorkItemTypes
        /\ workload.parents \subseteq Ids \cup {NoParent} /\ workload.projects \subseteq Projects
    BY WorkItemsAssumption DEF Statuses, Ids, NoParent
  <1>2. 0 \in 0 .. MaxItems
    BY WorkItemsAssumption
  <1> QED
    BY <1>1, <1>2 DEF UpdateDtos, Dtos

LEMMA UpdateFindInv ==
    ASSUME IInv, NEW p \in Processes, NEW id \in Ids, NEW dto \in Dtos, UpdateFind(p, id, dto)
    PROVE  IInv'
  <1> DEFINE walks == dto.parent \notin {Keep, NoParent, items[id].parent}
             r == [pc |-> IF walks THEN "ancestors" ELSE "update", id |-> id, dto |-> dto,
                   cursor |-> IF walks THEN dto.parent ELSE NoParent]
  <1>1. walks => dto.parent \in Ids
    BY DEF Dtos
  <1>2. r \in Requests /\ r.id = id /\ r.dto = dto /\ r.pc \in {"ancestors", "update"}
        /\ (r.pc = "ancestors" => r.dto.parent \in Ids)
    BY <1>1 DEF Requests, Pcs
  <1>3. GoodRow(items[id])
    BY DEF UpdateFind, IInv, GoodTables, GoodTable
  <1>4. Awaits(p, r, Row(id, items[id])) /\ UNCHANGED tables
    BY DEF UpdateFind
  <1> HIDE DEF r
  <1>5. GoodTable(Row(id, items[id]), Ids \cup {Draft}) /\ DOMAIN Row(id, items[id]) = {id}
    BY <1>3, RowGood
  <1>6. GoodHandler(r, Row(id, items[id]))
    BY <1>2, <1>5 DEF GoodHandler
  <1> QED
    BY <1>4, <1>6, ReadsOnly

LEMMA ReadAncestorInv ==
    ASSUME IInv, NEW p \in Processes, ReadAncestor(p)
    PROVE  IInv'
  <1> DEFINE r == req[p]
  <1>1. r.pc = "ancestors" /\ GoodHandler(r, held[p]) /\ UNCHANGED tables
    BY DEF ReadAncestor, IInv, GoodHandlers
  <1>2. r \in Requests /\ r.id \in Ids /\ r.id \in DOMAIN held[p] /\ r.dto.parent \in Ids
        /\ GoodTable(held[p], Ids \cup {Draft}) /\ DOMAIN held[p] \subseteq Ids
    BY <1>1 DEF GoodHandler
  <1>3. CASE r.cursor \in DOMAIN items
    <2> DEFINE q == [r EXCEPT !.cursor = items[r.cursor].parent]
               row == items[r.cursor]
               rows == Upsert(held[p], Row(r.cursor, row))
    <2>1. GoodRow(row) /\ r.cursor \in Ids
      BY <1>3 DEF IInv, GoodTables, GoodTable
    <2>2. q \in Requests /\ q.pc = "ancestors" /\ q.id = r.id /\ q.dto = r.dto
      BY <1>1, <1>2, <2>1 DEF Requests, GoodRow, Rows
    <2>3. Awaits(p, q, rows)
      BY <1>3 DEF ReadAncestor
    <2> HIDE DEF row, q
    <2>4. GoodTable(Row(r.cursor, row), Ids \cup {Draft}) /\ DOMAIN Row(r.cursor, row) = {r.cursor}
      BY <2>1, RowGood
    <2>5. GoodTable(rows, Ids \cup {Draft}) /\ DOMAIN rows = DOMAIN held[p] \cup {r.cursor}
      BY <1>2, <2>4, UpsertGood
    <2> HIDE DEF rows
    <2>6. GoodHandler(q, rows)
      BY <1>2, <2>1, <2>2, <2>5 DEF GoodHandler
    <2> QED
      BY <1>1, <2>3, <2>6, ReadsOnly
  <1>4. CASE r.cursor \notin DOMAIN items /\ r.cursor = r.dto.parent
    BY <1>1, <1>4, EndsOnly DEF ReadAncestor
  <1>5. CASE r.cursor \notin DOMAIN items /\ r.cursor # r.dto.parent
    <2> DEFINE q == [r EXCEPT !.cursor = NoParent]
    <2>1. Awaits(p, q, held[p])
      BY <1>5 DEF ReadAncestor
    <2>2. q \in Requests /\ q.pc = "ancestors" /\ q.id = r.id /\ q.dto = r.dto
      BY <1>1, <1>2 DEF Requests
    <2> HIDE DEF q
    <2>3. GoodHandler(q, held[p])
      BY <1>2, <2>2 DEF GoodHandler
    <2> QED
      BY <1>1, <2>1, <2>3, ReadsOnly
  <1> QED
    BY <1>3, <1>4, <1>5

LEMMA ParentVerdictInv ==
    ASSUME IInv, NEW p \in Processes, ParentVerdict(p)
    PROVE  IInv'
  <1> DEFINE r == req[p]
             q == [r EXCEPT !.pc = "update", !.cursor = NoParent]
             row == held[p][r.id]
  <1>1. r.pc = "ancestors" /\ GoodHandler(r, held[p]) /\ UNCHANGED tables
    BY DEF ParentVerdict, IInv, GoodHandlers
  <1>2. r \in Requests /\ r.id \in Ids /\ GoodRow(row)
    BY <1>1 DEF GoodHandler, GoodTable
  <1>3. Ends(p) \/ Awaits(p, q, Row(r.id, row))
    BY DEF ParentVerdict
  <1>4. q \in Requests /\ q.pc = "update" /\ q.id = r.id
    BY <1>1, <1>2 DEF Requests, Pcs
  <1> HIDE DEF q, row
  <1>5. GoodTable(Row(r.id, row), Ids \cup {Draft}) /\ DOMAIN Row(r.id, row) = {r.id}
    BY <1>2, RowGood
  <1>6. GoodHandler(q, Row(r.id, row))
    BY <1>2, <1>4, <1>5 DEF GoodHandler
  <1> QED
    BY <1>1, <1>3, <1>6, ReadsOnly, EndsOnly

LEMMA UpdateSaveInv ==
    ASSUME IInv, NEW p \in Processes, UpdateSave(p)
    PROVE  IInv'
  <1> DEFINE id == req[p].id
             found == held[p][id]
             assigned == Assigned(found, req[p].dto)
             row == Stamped(assigned, found.status)
  <1>1. req[p].pc = "update" /\ GoodHandler(req[p], held[p])
    BY DEF UpdateSave, IInv, GoodHandlers
  <1>2. id \in Ids /\ GoodRow(found) /\ req[p].dto \in Dtos
    BY <1>1 DEF GoodHandler, GoodTable, Requests
  <1>3. items' \in {items, Upsert(items, Row(id, row))}
    BY DEF UpdateSave
  <1> HIDE DEF found
  <1>4. /\ assigned \in Rows
        /\ assigned.resolvedAt = found.resolvedAt /\ assigned.closedAt = found.closedAt
    BY <1>2, AssignedTyped DEF GoodRow
  <1> HIDE DEF assigned
  <1>5. GoodRow(row)
    BY <1>2, <1>4, StampedGood DEF GoodRow, StampedRow, Rows
  <1> HIDE DEF row
  <1>6. GoodTable(items, Ids) /\ GoodTable(Row(id, row), Ids)
    BY <1>2, <1>5, RowGood DEF IInv, GoodTables
  <1>7. GoodTable(items', Ids)
    BY <1>3, <1>6, UpsertGood
  <1> QED
    BY <1>7, WritesAndEnds DEF UpdateSave, IInv, GoodTables

-----------------------------------------------------------------------------
\* move(), and the save it shares with the nightly closer.
LEMMA MoveFindInv ==
    ASSUME IInv, NEW p \in Processes, NEW id \in Ids, NEW s \in Statuses,
           NEW at \in 0 .. MaxItems, MoveFind(p, id, s, at)
    PROVE  IInv'
  <1> DEFINE dto == [NoDto EXCEPT !.status = s, !.at = at]
             r == [Idle EXCEPT !.pc = "plan", !.id = id, !.dto = dto]
  <1>1. dto \in Dtos /\ dto.status = s
    BY DEF NoDto, Dtos
  <1>2. Awaits(p, r, Row(id, items[id])) /\ UNCHANGED tables
    BY DEF MoveFind
  <1> HIDE DEF dto
  <1>3. r \in Requests /\ r.pc = "plan" /\ r.id = id /\ r.dto = dto
    BY <1>1, IdleGood DEF Requests, Pcs, Idle
  <1>4. GoodRow(items[id])
    BY DEF MoveFind, IInv, GoodTables, GoodTable
  <1> HIDE DEF r
  <1>5. GoodTable(Row(id, items[id]), Ids \cup {Draft}) /\ DOMAIN Row(id, items[id]) = {id}
    BY <1>4, RowGood
  <1>6. GoodHandler(r, Row(id, items[id]))
    BY <1>1, <1>3, <1>5 DEF GoodHandler
  <1> QED
    BY <1>2, <1>6, ReadsOnly

LEMMA MovePlanInv ==
    ASSUME IInv, NEW p \in Processes, MovePlan(p)
    PROVE  IInv'
  <1> DEFINE r == req[p]
             rows == MovedRows(r.id, held[p][r.id],
                               PlanMove(items, r.id, r.dto.status, r.dto.at))
             q == [Idle EXCEPT !.pc = "save", !.id = r.id]
  <1>1. r.pc = "plan" /\ GoodHandler(r, held[p]) /\ UNCHANGED tables
    BY DEF MovePlan, IInv, GoodHandlers
  <1>2. r.id \in Ids /\ GoodRow(held[p][r.id]) /\ r.dto.status \in Statuses
    BY <1>1 DEF GoodHandler, GoodTable
  <1>3. r.dto.at \in Nat
    BY <1>1, WorkItemsAssumption DEF GoodHandler, Requests, Dtos
  <1>4. GoodTable(rows, Ids)
    BY <1>2, <1>3, MovedRowsGood DEF IInv, GoodTables
  <1>5. Ends(p) \/ Awaits(p, q, rows)
    BY DEF MovePlan
  <1>6. q \in Requests /\ q.pc = "save"
    BY <1>2, IdleGood DEF Requests, Pcs, Idle
  <1> HIDE DEF rows, q
  <1>7. GoodHandler(q, rows)
    BY <1>4, <1>6 DEF GoodHandler, GoodTable
  <1> QED
    BY <1>1, <1>5, <1>7, ReadsOnly, EndsOnly

LEMMA SaveInv ==
    ASSUME IInv, NEW p \in Processes, Save(p)
    PROVE  IInv'
  <1>1. GoodHandler(req[p], held[p]) /\ req[p].pc = "save"
    BY DEF Save, IInv, GoodHandlers
  <1>2. GoodTable(held[p], Ids)
    BY <1>1 DEF GoodHandler, GoodTable
  <1>3. GoodTable(items, Ids) /\ items' \in {items, Upsert(items, held[p])}
    BY DEF Save, IInv, GoodTables
  <1>4. GoodTable(items', Ids)
    BY <1>2, <1>3, UpsertGood
  <1> QED
    BY <1>4, WritesAndEnds DEF Save, IInv, GoodTables

LEMMA CloserFindInv ==
    ASSUME IInv, CloserFind
    PROVE  IInv'
  <1> DEFINE closed(i) == [items[i] EXCEPT !.status = "closed", !.closedAt = 0]
             rows == [i \in Expired |-> closed(i)]
             q == [Idle EXCEPT !.pc = "save"]
  <1>1. 0 # NoDate
    BY DEF NoDate
  <1>2. \A i \in Expired : i \in Ids /\ GoodRow(items[i])
    BY DEF Expired, IInv, GoodTables, GoodTable
  <1>3. \A i \in Expired : GoodRow(closed(i))
    BY <1>1, <1>2 DEF GoodRow, Rows, StampedRow, Statuses
  <1>4. q \in Requests /\ q.pc = "save"
    BY IdleGood DEF Requests, Pcs, Idle
  <1>5. Awaits(Closer, q, rows) /\ UNCHANGED tables
    BY DEF CloserFind
  <1> HIDE DEF q, closed
  <1>6. GoodTable(rows, Ids)
    BY <1>2, <1>3 DEF GoodTable
  <1> HIDE DEF rows
  <1>7. GoodHandler(q, rows)
    BY <1>4, <1>6 DEF GoodHandler, GoodTable
  <1>8. Closer \in Processes
    BY DEF Processes
  <1> QED
    BY <1>5, <1>7, <1>8, ReadsOnly

-----------------------------------------------------------------------------
LEMMA TriageFindInv ==
    ASSUME IInv, NEW p \in Processes, NEW ids \in SUBSET Ids, NEW d \in {"todo", "closed"},
           TriageFind(p, ids, d)
    PROVE  IInv'
  <1> DEFINE moved == {i \in ids \cap DOMAIN items : items[i].status = "triage"}
             rows == [i \in moved |-> items[i]]
             dto == [NoDto EXCEPT !.status = d]
             q == [Idle EXCEPT !.pc = "triage", !.dto = dto]
  <1>1. 0 \in 0 .. MaxItems
    BY WorkItemsAssumption
  <1>2. dto \in Dtos /\ dto.status = d
    BY <1>1 DEF NoDto, Dtos, Statuses
  <1>3. Awaits(p, q, rows) /\ UNCHANGED tables
    BY DEF TriageFind
  <1> HIDE DEF dto
  <1>4. q \in Requests /\ q.pc = "triage" /\ q.dto = dto
    BY <1>2, IdleGood DEF Requests, Pcs, Idle
  <1> HIDE DEF q
  <1>5. GoodTable(rows, Ids \cup {Draft})
    BY DEF IInv, GoodTables, GoodTable
  <1> HIDE DEF rows
  <1>6. GoodHandler(q, rows)
    BY <1>2, <1>4, <1>5 DEF GoodHandler
  <1> QED
    BY <1>3, <1>6, ReadsOnly

LEMMA TriageUpdateInv ==
    ASSUME IInv, NEW p \in Processes, TriageUpdate(p)
    PROVE  IInv'
  <1>1. req[p].dto.status \in {"todo", "closed"}
    BY DEF TriageUpdate, IInv, GoodHandlers, GoodHandler
  <1>2. GoodTable(items, Ids)
    BY DEF IInv, GoodTables
  <1>3. \A i \in DOMAIN items : GoodRow(items[i]) /\ GoodRow(Decided(items[i], req[p].dto.status))
    BY <1>1, <1>2, DecidedGood DEF GoodTable
  <1>4. GoodTable(items', Ids)
    BY <1>2, <1>3 DEF TriageUpdate, GoodTable
  <1> QED
    BY <1>4, WritesAndEnds DEF TriageUpdate, IInv, GoodTables

LEMMA RemoveInv ==
    ASSUME IInv, NEW p \in Processes, NEW id \in Ids, RemoveTask(p, id)
    PROVE  IInv'
  <1> DEFINE orphan(i) == [items[i] EXCEPT !.parent = NoParent]
  <1>1. GoodTable(items, Ids)
    BY DEF IInv, GoodTables
  <1>2. \A i \in DOMAIN items : GoodRow(items[i]) /\ GoodRow(orphan(i))
    BY <1>1 DEF GoodTable, GoodRow, Rows, StampedRow
  <1>3. items' = [i \in DOMAIN items \ {id} |->
                    IF items[i].parent = id THEN orphan(i) ELSE items[i]]
    BY DEF RemoveTask
  <1> HIDE DEF orphan
  <1>4. GoodTable(items', Ids)
    BY <1>1, <1>2, <1>3 DEF GoodTable
  <1>5. GoodHandlers'
    BY DEF RemoveTask, IInv, GoodHandlers
  <1> QED
    BY <1>4, <1>5 DEF RemoveTask, IInv, GoodTables

LEMMA TickInv ==
    ASSUME IInv, Tick
    PROVE  IInv'
  <1>1. GoodTable(items', Ids)
    BY AgedTableGood DEF Tick, IInv, GoodTables
  <1>2. ASSUME NEW p \in Processes
        PROVE  GoodHandler(req[p], AgedTable(held[p]))
    <2>1. GoodHandler(req[p], held[p])
      BY DEF IInv, GoodHandlers
    <2>2. /\ GoodTable(AgedTable(held[p]), Ids \cup {Draft})
          /\ DOMAIN AgedTable(held[p]) = DOMAIN held[p]
      BY <2>1, AgedTableGood DEF GoodHandler
    <2>3. \A i \in DOMAIN held[p] : AgedTable(held[p])[i].project = held[p][i].project
      BY <2>1, AgedGood DEF GoodHandler, GoodTable, AgedTable
    <2> QED
      BY <2>1, <2>2, <2>3 DEF GoodHandler
  <1>3. GoodHandlers'
    BY <1>2 DEF Tick, IInv, GoodHandlers
  <1> QED
    BY <1>1, <1>3 DEF Tick, IInv, GoodTables

-----------------------------------------------------------------------------
\* Every step of every handler keeps the invariant.
LEMMA InvStep == IInv /\ [Next]_vars => IInv'
  <1> SUFFICES ASSUME IInv, [Next]_vars PROVE IInv'
    OBVIOUS
  <1>1. workload \in Workloads /\ Clients \subseteq Processes
    BY DEF IInv, GoodTables, Processes
  <1>2. /\ workload.statuses \cup {"todo"} \subseteq Statuses
        /\ workload.types \cup {"task"} \subseteq WorkItemTypes
        /\ \A at \in 0 .. workload.tickets : at \in 0 .. MaxItems
    BY <1>1, WorkItemsAssumption DEF Statuses, WorkItemTypes, TaskShaped
  <1>3. ASSUME NEW p \in Clients, Request(p) PROVE IInv'
    <2>1. p \in Processes
      BY <1>1
    <2>2. CASE \E s \in workload.statuses \cup {"todo"}, t \in workload.types \cup {"task"},
                  j \in Projects : CreateCount(p, s, t, j)
      BY <1>2, <2>1, <2>2, CreateCountInv
    <2>3. CASE \E t \in workload.types \cup {"task"}, j \in Projects \cup {NoProject} :
                  Capture(p, t, j)
      BY <1>2, <2>1, <2>3, CaptureInv
    <2>4. CASE \E i \in Ids, d \in UpdateDtos : UpdateFind(p, i, d)
      BY <1>1, <2>1, <2>4, UpdateDtosTyped, UpdateFindInv
    <2>5. CASE \E i \in Ids, s \in workload.statuses, at \in 0 .. workload.tickets :
                  MoveFind(p, i, s, at)
      BY <1>2, <2>1, <2>5, MoveFindInv
    <2>6. CASE \E is \in SUBSET Ids, d \in {"todo", "closed"} : TriageFind(p, is, d)
      BY <2>1, <2>6, TriageFindInv
    <2>7. CASE \E i \in Ids : RemoveTask(p, i)
      BY <2>1, <2>7, RemoveInv
    <2> QED
      BY <1>3, <2>2, <2>3, <2>4, <2>5, <2>6, <2>7 DEF Request
  <1>4. ASSUME NEW p \in Clients, Step(p) PROVE IInv'
    BY <1>1, <1>4, CreateReserveInv, CaptureCountInv, InsertInv, ReadAncestorInv,
       ParentVerdictInv, UpdateSaveInv, MovePlanInv, TriageUpdateInv DEF Step
  <1>5. CASE UNCHANGED vars
    BY <1>5 DEF vars, IInv, GoodTables, GoodHandlers
  <1> QED
    BY <1>3, <1>4, <1>5, SaveInv, CloserFindInv, TickInv DEF Next

\* The tables and the handlers' hands have their types in every behaviour.
THEOREM TypeCorrect == Spec => []TypeOK
  <1>1. IInv => TypeOK
    BY GoodTableIsTable DEF IInv, GoodTables, GoodHandlers, GoodHandler, TypeOK
  <1> QED
    BY <1>1, InvInit, InvStep, PTL DEF Spec

\* However requests overlap, whichever rows they save late: a resolved ticket
\* always has the date the nightly closer searches by, a closed one its date.
THEOREM DatesAlwaysStamped == Spec => []DatesStamped
  <1>1. IInv => DatesStamped
    BY DEF IInv, GoodTables, GoodTable, GoodRow, DatesStamped
  <1> QED
    BY <1>1, InvInit, InvStep, PTL DEF Spec

-----------------------------------------------------------------------------
(***************************************************************************)
(* References.  A row may be in the table, in several hands, or only in a  *)
(* hand after its deletion; what is invariant is that all copies of a      *)
(* ticket carry one reference, that different tickets (and drafts) carry   *)
(* different ones, and that every number was drawn from its counter.       *)
(***************************************************************************)
Differ(a, b) == a = b => a = NoReference

DrawnFrom(counters, ref) ==
    ref # NoReference => ref[1] \in Projects /\ ref[2] \in Nat /\ ref[2] <= counters[ref[1]]

Drawn(ref) == DrawnFrom(taskSeq, ref)

TableRefs ==
    /\ \A i \in DOMAIN items : i < nextId /\ Drawn(items[i].reference)
    /\ \A i, j \in DOMAIN items : i # j => Differ(items[i].reference, items[j].reference)

HandRefs ==
    \A p \in Processes : \A i \in DOMAIN held[p] :
        /\ i < nextId /\ Drawn(held[p][i].reference)
        /\ \A j \in DOMAIN items :
              IF i = j THEN held[p][i].reference = items[j].reference
              ELSE Differ(held[p][i].reference, items[j].reference)

HandToHandRefs ==
    \A p, q \in Processes : \A i \in DOMAIN held[p], j \in DOMAIN held[q] :
        IF i = j /\ (i # Draft \/ p = q)
        THEN held[p][i].reference = held[q][j].reference
        ELSE Differ(held[p][i].reference, held[q][j].reference)

RefInv == TableRefs /\ HandRefs /\ HandToHandRefs

\* The reference is the one ticket i has in the table or in p's hands.
Known(p, i, ref) ==
    \/ i \in DOMAIN items /\ ref = items[i].reference
    \/ i \in DOMAIN held[p] /\ ref = held[p][i].reference

LEMMA DraftIsNoTicket == ASSUME IInv PROVE Draft \notin DOMAIN items
  BY DEF IInv, GoodTables, GoodTable, Ids, Draft

\* A step of p that draws no number and only copies references around.
LEMMA CopiesRefs ==
    ASSUME IInv, RefInv, NEW p \in Processes,
           nextId' = nextId, taskSeq' = taskSeq, DOMAIN held' = Processes,
           \A q \in Processes \ {p} : held'[q] = held[q],
           \A i \in DOMAIN held'[p] : Known(p, i, held'[p][i].reference),
           \A i \in DOMAIN items' : i # Draft /\ Known(p, i, items'[i].reference)
    PROVE  RefInv'
  <1>1. Draft \notin DOMAIN items
    BY DraftIsNoTicket
  <1>2. \A i, ref : Known(p, i, ref) => i < nextId /\ Drawn(ref)
    BY DEF Known, RefInv, TableRefs, HandRefs
  <1>3. \A i, j, a, b : Known(p, i, a) /\ Known(p, j, b) =>
            IF i = j THEN a = b ELSE Differ(a, b)
    <2> SUFFICES ASSUME NEW i, NEW j, NEW a, NEW b, Known(p, i, a), Known(p, j, b)
                 PROVE  IF i = j THEN a = b ELSE Differ(a, b)
      OBVIOUS
    <2>1. CASE i \in DOMAIN items /\ a = items[i].reference
                 /\ j \in DOMAIN items /\ b = items[j].reference
      BY <2>1 DEF RefInv, TableRefs
    <2>2. CASE i \in DOMAIN held[p] /\ a = held[p][i].reference
                 /\ j \in DOMAIN items /\ b = items[j].reference
      BY <2>2 DEF RefInv, HandRefs
    <2>3. CASE i \in DOMAIN items /\ a = items[i].reference
                 /\ j \in DOMAIN held[p] /\ b = held[p][j].reference
      BY <2>3 DEF RefInv, HandRefs, Differ
    <2>4. CASE i \in DOMAIN held[p] /\ a = held[p][i].reference
                 /\ j \in DOMAIN held[p] /\ b = held[p][j].reference
      BY <2>4 DEF RefInv, HandToHandRefs
    <2> QED
      BY <2>1, <2>2, <2>3, <2>4 DEF Known
  <1>4. ASSUME NEW q \in Processes, q # p, NEW i \in DOMAIN held[q],
               NEW j, NEW a, Known(p, j, a)
        PROVE  IF i = j /\ i # Draft THEN held[q][i].reference = a
               ELSE Differ(held[q][i].reference, a) /\ Differ(a, held[q][i].reference)
    BY <1>1, <1>4 DEF Known, RefInv, HandRefs, HandToHandRefs, Differ
  <1>5. \A ref : Drawn(ref)' = Drawn(ref)
    BY DEF Drawn, DrawnFrom
  <1>6. TableRefs'
    BY <1>2, <1>3 DEF TableRefs, Drawn
  <1>7. HandRefs'
    <2> SUFFICES ASSUME NEW q \in Processes, NEW i \in DOMAIN held'[q]
                 PROVE  /\ i < nextId' /\ Drawn(held[q][i].reference)'
                        /\ \A j \in DOMAIN items' :
                              IF i = j THEN held'[q][i].reference = items'[j].reference
                              ELSE Differ(held'[q][i].reference, items'[j].reference)
      BY DEF HandRefs, Differ
    <2>1. CASE q = p
      BY <1>2, <1>3, <2>1 DEF Drawn
    <2>2. CASE q # p
      <3>1. i \in DOMAIN held[q] /\ held'[q] = held[q]
        BY <2>2
      <3>2. i < nextId' /\ Drawn(held[q][i].reference)'
        BY <3>1 DEF RefInv, HandRefs, Drawn
      <3>3. ASSUME NEW j \in DOMAIN items'
            PROVE  IF i = j THEN held'[q][i].reference = items'[j].reference
                   ELSE Differ(held'[q][i].reference, items'[j].reference)
        <4>1. j # Draft /\ Known(p, j, items'[j].reference)
          OBVIOUS
        <4> QED
          BY <1>4, <2>2, <3>1, <4>1
      <3> QED
        BY <3>2, <3>3
    <2> QED
      BY <2>1, <2>2
  <1>8. HandToHandRefs'
    <2> SUFFICES ASSUME NEW q \in Processes, NEW r \in Processes,
                        NEW i \in DOMAIN held'[q], NEW j \in DOMAIN held'[r]
                 PROVE  IF i = j /\ (i # Draft \/ q = r)
                        THEN held'[q][i].reference = held'[r][j].reference
                        ELSE Differ(held'[q][i].reference, held'[r][j].reference)
      BY DEF HandToHandRefs, Differ
    <2>1. CASE q = p /\ r = p
      BY <1>3, <2>1
    <2>2. CASE q = p /\ r # p
      <3>1. Known(p, i, held'[q][i].reference) /\ j \in DOMAIN held[r] /\ held'[r] = held[r]
        BY <2>2
      <3> QED
        BY <1>4, <2>2, <3>1
    <2>3. CASE q # p /\ r = p
      <3>1. Known(p, j, held'[r][j].reference) /\ i \in DOMAIN held[q] /\ held'[q] = held[q]
        BY <2>3
      <3> QED
        BY <1>4, <2>3, <3>1
    <2>4. CASE q # p /\ r # p
      BY <2>4 DEF RefInv, HandToHandRefs
    <2> QED
      BY <2>1, <2>2, <2>3, <2>4
  <1> QED
    BY <1>6, <1>7, <1>8 DEF RefInv

\* A step of p that only moves rows into p's hands.
LEMMA ReadsRefs ==
    ASSUME IInv, RefInv, NEW p \in Processes, NEW r, NEW rows,
           Awaits(p, r, rows), UNCHANGED tables,
           \A i \in DOMAIN rows : Known(p, i, rows[i].reference)
    PROVE  RefInv'
  <1>1. /\ DOMAIN held' = Processes /\ held'[p] = rows
        /\ \A q \in Processes \ {p} : held'[q] = held[q]
    BY DEF Awaits, IInv, GoodHandlers
  <1>2. nextId' = nextId /\ taskSeq' = taskSeq /\ items' = items
    BY DEF tables
  <1>3. \A i \in DOMAIN items' : i # Draft /\ Known(p, i, items'[i].reference)
    BY <1>2, DraftIsNoTicket DEF Known
  <1> QED
    BY <1>1, <1>2, <1>3, CopiesRefs

\* A step of p that writes rows it knows and answers.
LEMMA WritesRefs ==
    ASSUME IInv, RefInv, NEW p \in Processes, Ends(p),
           nextId' = nextId, taskSeq' = taskSeq,
           \A i \in DOMAIN items' : i # Draft /\ Known(p, i, items'[i].reference)
    PROVE  RefInv'
  <1>1. /\ DOMAIN held' = Processes /\ held'[p] = EmptyTable
        /\ \A q \in Processes \ {p} : held'[q] = held[q]
    BY DEF Ends, Awaits, IInv, GoodHandlers
  <1>2. \A i \in DOMAIN held'[p] : Known(p, i, held'[p][i].reference)
    BY <1>1, EmptyGood
  <1> QED
    BY <1>1, <1>2, CopiesRefs

LEMMA EndsRefs ==
    ASSUME IInv, RefInv, NEW p \in Processes, Ends(p), UNCHANGED tables
    PROVE  RefInv'
  BY ReadsRefs, EmptyGood DEF Ends

\* What a handler does to a row leaves its reference alone.
LEMMA KeepsReference ==
    ASSUME NEW row \in Rows
    PROVE  /\ \A old : Stamped(row, old).reference = row.reference
           /\ \A d : Decided(row, d).reference = row.reference
           /\ Aged(row).reference = row.reference
           /\ \A s, n : [row EXCEPT !.status = s, !.position = n] .reference = row.reference
           /\ \A n : [row EXCEPT !.parent = n] .reference = row.reference
           /\ \A n : [row EXCEPT !.position = n] .reference = row.reference
           /\ \A s, d : [row EXCEPT !.status = s, !.closedAt = d] .reference = row.reference
  BY DEF Rows, Stamped, Decided, Aged

\* Every row, in the table or in a hand, is one.
LEMMA RowsTyped ==
    ASSUME IInv
    PROVE  /\ \A i \in DOMAIN items : items[i] \in Rows /\ i \in Ids
           /\ \A p \in Processes : \A i \in DOMAIN held[p] : held[p][i] \in Rows
  BY DEF IInv, GoodTables, GoodHandlers, GoodHandler, GoodTable, GoodRow

LEMMA UpsertedRefs ==
    ASSUME IInv, NEW p \in Processes, NEW u,
           \A i \in DOMAIN u : i # Draft /\ Known(p, i, u[i].reference),
           items' \in {items, Upsert(items, u)}
    PROVE  \A i \in DOMAIN items' : i # Draft /\ Known(p, i, items'[i].reference)
  BY DraftIsNoTicket DEF Upsert, Known

LEMMA UpdateRefs ==
    ASSUME IInv, RefInv, NEW p \in Processes,
           \/ \E id \in Ids, dto \in Dtos : UpdateFind(p, id, dto)
           \/ ReadAncestor(p) \/ ParentVerdict(p) \/ UpdateSave(p)
    PROVE  RefInv'
  <1>1. ASSUME NEW id \in Ids, NEW dto \in Dtos, UpdateFind(p, id, dto) PROVE RefInv'
    <2>1. id \in DOMAIN items /\ UNCHANGED tables /\ \E r : Awaits(p, r, Row(id, items[id]))
      BY <1>1 DEF UpdateFind
    <2>2. \A i \in DOMAIN Row(id, items[id]) : Known(p, i, Row(id, items[id])[i].reference)
      BY <2>1 DEF Known, Row
    <2> QED
      BY <2>1, <2>2, ReadsRefs
  <1>2. CASE ReadAncestor(p)
    <2> DEFINE c == req[p].cursor
               rows == Upsert(held[p], Row(c, items[c]))
    <2>1. UNCHANGED tables
      BY <1>2 DEF ReadAncestor
    <2>2. CASE c \in DOMAIN items
      <3>1. \E r : Awaits(p, r, rows)
        BY <1>2, <2>2 DEF ReadAncestor
      <3>2. \A i \in DOMAIN rows : Known(p, i, rows[i].reference)
        BY <2>2 DEF Upsert, Known, Row
      <3> QED
        BY <2>1, <3>1, <3>2, ReadsRefs
    <2>3. CASE c \notin DOMAIN items
      <3>1. Ends(p) \/ \E r : Awaits(p, r, held[p])
        BY <1>2, <2>3 DEF ReadAncestor
      <3>2. \A i \in DOMAIN held[p] : Known(p, i, held[p][i].reference)
        BY DEF Known
      <3> QED
        BY <2>1, <3>1, <3>2, ReadsRefs, EndsRefs
    <2> QED
      BY <2>2, <2>3
  <1>3. CASE ParentVerdict(p)
    <2> DEFINE id == req[p].id
               row == held[p][id]
    <2>1. UNCHANGED tables /\ (Ends(p) \/ \E r : Awaits(p, r, Row(id, row)))
      BY <1>3 DEF ParentVerdict
    <2>2. id \in DOMAIN held[p]
      BY <1>3 DEF ParentVerdict, IInv, GoodHandlers, GoodHandler
    <2>3. \A i \in DOMAIN Row(id, row) : Known(p, i, Row(id, row)[i].reference)
      BY <2>2 DEF Known, Row
    <2> QED
      BY <2>1, <2>3, ReadsRefs, EndsRefs
  <1>4. CASE UpdateSave(p)
    <2> DEFINE id == req[p].id
               found == held[p][id]
               assigned == Assigned(found, req[p].dto)
               row == Stamped(assigned, found.status)
    <2>1. id \in Ids /\ id \in DOMAIN held[p] /\ req[p].dto \in Dtos
      BY <1>4 DEF UpdateSave, IInv, GoodHandlers, GoodHandler, Requests
    <2>2. found \in Rows
      BY <2>1, RowsTyped
    <2>3. assigned \in Rows /\ assigned.reference = found.reference
      BY <2>1, <2>2, AssignedTyped
    <2>4. items' \in {items, Upsert(items, Row(id, row))} /\ Ends(p)
          /\ nextId' = nextId /\ taskSeq' = taskSeq
      BY <1>4 DEF UpdateSave
    <2> HIDE DEF assigned
    <2>5. row.reference = found.reference
      BY <2>3, KeepsReference
    <2> HIDE DEF row
    <2>6. \A i \in DOMAIN Row(id, row) : i # Draft /\ Known(p, i, Row(id, row)[i].reference)
      BY <2>1, <2>5 DEF Known, Ids, Draft, Row
    <2>7. \A i \in DOMAIN items' : i # Draft /\ Known(p, i, items'[i].reference)
      BY <2>4, <2>6, UpsertedRefs
    <2> QED
      BY <2>4, <2>7, WritesRefs
  <1> QED
    BY <1>1, <1>2, <1>3, <1>4

LEMMA MoveRefs ==
    ASSUME IInv, RefInv, NEW p \in Processes,
           \/ \E id \in Ids, s \in Statuses, at \in 0 .. MaxItems : MoveFind(p, id, s, at)
           \/ MovePlan(p) \/ Save(p)
    PROVE  RefInv'
  <1>1. ASSUME NEW id \in Ids, NEW s \in Statuses, NEW at \in 0 .. MaxItems,
               MoveFind(p, id, s, at)
        PROVE  RefInv'
    <2>1. id \in DOMAIN items /\ UNCHANGED tables /\ \E r : Awaits(p, r, Row(id, items[id]))
      BY <1>1 DEF MoveFind
    <2>2. \A i \in DOMAIN Row(id, items[id]) : Known(p, i, Row(id, items[id])[i].reference)
      BY <2>1 DEF Known, Row
    <2> QED
      BY <2>1, <2>2, ReadsRefs
  <1>2. CASE MovePlan(p)
    <2> DEFINE r == req[p]
               plan == PlanMove(items, r.id, r.dto.status, r.dto.at)
               item == held[p][r.id]
               rowOf(i) == IF i = r.id THEN item ELSE items[i]
               placed(i) == [rowOf(i) EXCEPT !.status = plan[i].status,
                                             !.position = plan[i].position]
               rows == MovedRows(r.id, item, plan)
    <2>1. GoodHandler(r, held[p]) /\ r.pc = "plan"
      BY <1>2 DEF MovePlan, IInv, GoodHandlers
    <2>2. r.id \in DOMAIN held[p] /\ r.dto.status \in Statuses /\ r.dto.at \in Nat
      BY <2>1, WorkItemsAssumption DEF GoodHandler, Requests, Dtos
    <2>3. UNCHANGED tables /\ (Ends(p) \/ \E q : Awaits(p, q, rows))
      BY <1>2 DEF MovePlan
    <2>4. DOMAIN items \subseteq Ids /\ \A i \in DOMAIN items : items[i].status \in Statuses
      BY RowsTyped DEF Rows
    <2>5. DOMAIN plan \subseteq DOMAIN items
      BY <2>2, <2>4, PlanMoveTyped
    <2> HIDE DEF plan
    <2>6. \A i \in DOMAIN plan : rowOf(i) \in Rows /\ Known(p, i, rowOf(i).reference)
      BY <2>2, <2>5, RowsTyped DEF Known
    <2>7. rows = [i \in DOMAIN plan |-> IF i = r.id THEN Stamped(placed(i), item.status)
                                                    ELSE placed(i)]
      BY DEF MovedRows
    <2>8. \A i \in DOMAIN plan : placed(i).reference = rowOf(i).reference
      BY <2>6, KeepsReference
    <2>9. GoodTable(rows, Ids)
      BY <2>1, <2>2, MovedRowsGood DEF plan, IInv, GoodTables, GoodHandler, GoodTable
    <2>10. \A i \in DOMAIN plan : placed(i) \in Rows
      <3>1. \A i \in DOMAIN plan : plan[i].status \in Statuses /\ plan[i].position \in Nat
        BY <2>2, <2>4, PlanMoveTyped DEF plan
      <3> HIDE DEF rowOf
      <3> QED
        BY <2>6, <3>1 DEF Rows
    <2> HIDE DEF placed, rowOf
    <2>11. \A i \in DOMAIN rows : Known(p, i, rows[i].reference)
      <3> HIDE DEF rows
      <3>1. ASSUME NEW i \in DOMAIN plan
            PROVE  rows[i].reference = placed(i).reference
        BY <2>7, <2>10, KeepsReference
      <3> QED
        BY <2>6, <2>7, <2>8, <3>1
    <2> QED
      BY <2>3, <2>11, ReadsRefs, EndsRefs
  <1>3. CASE Save(p)
    <2>1. DOMAIN held[p] \subseteq Ids
      BY <1>3 DEF Save, IInv, GoodHandlers, GoodHandler
    <2>2. \A i \in DOMAIN held[p] : i # Draft /\ Known(p, i, held[p][i].reference)
      BY <2>1 DEF Known, Ids, Draft
    <2>3. items' \in {items, Upsert(items, held[p])} /\ Ends(p)
          /\ nextId' = nextId /\ taskSeq' = taskSeq
      BY <1>3 DEF Save
    <2>4. \A i \in DOMAIN items' : i # Draft /\ Known(p, i, items'[i].reference)
      BY <2>2, <2>3, UpsertedRefs
    <2> QED
      BY <2>3, <2>4, WritesRefs
  <1> QED
    BY <1>1, <1>2, <1>3

LEMMA CloserFindRefs ==
    ASSUME IInv, RefInv, CloserFind
    PROVE  RefInv'
  <1> DEFINE closed(i) == [items[i] EXCEPT !.status = "closed", !.closedAt = 0]
             rows == [i \in Expired |-> closed(i)]
  <1>1. UNCHANGED tables /\ \E r : Awaits(Closer, r, rows)
    BY DEF CloserFind
  <1>2. \A i \in Expired : i \in DOMAIN items /\ closed(i).reference = items[i].reference
    BY RowsTyped, KeepsReference DEF Expired
  <1> HIDE DEF closed
  <1>3. \A i \in DOMAIN rows : Known(Closer, i, rows[i].reference)
    BY <1>2 DEF Known
  <1> QED
    BY <1>1, <1>3, ReadsRefs DEF Processes

LEMMA TriageRefs ==
    ASSUME IInv, RefInv, NEW p \in Processes,
           \/ \E ids \in SUBSET Ids, d \in {"todo", "closed"} : TriageFind(p, ids, d)
           \/ TriageUpdate(p)
    PROVE  RefInv'
  <1>1. ASSUME NEW ids \in SUBSET Ids, NEW d \in {"todo", "closed"}, TriageFind(p, ids, d)
        PROVE  RefInv'
    <2> DEFINE moved == {i \in ids \cap DOMAIN items : items[i].status = "triage"}
               rows == [i \in moved |-> items[i]]
    <2>1. UNCHANGED tables /\ \E r : Awaits(p, r, rows)
      BY <1>1 DEF TriageFind
    <2>2. \A i \in DOMAIN rows : Known(p, i, rows[i].reference)
      BY DEF Known
    <2> QED
      BY <2>1, <2>2, ReadsRefs
  <1>2. CASE TriageUpdate(p)
    <2>1. \A i \in DOMAIN items' : i \in DOMAIN items /\ items'[i].reference = items[i].reference
      BY <1>2, RowsTyped, KeepsReference DEF TriageUpdate
    <2>2. \A i \in DOMAIN items' : i # Draft /\ Known(p, i, items'[i].reference)
      BY <2>1, DraftIsNoTicket DEF Known
    <2> QED
      BY <1>2, <2>2, WritesRefs DEF TriageUpdate
  <1> QED
    BY <1>1, <1>2

LEMMA RemoveRefs ==
    ASSUME IInv, RefInv, NEW p \in Processes, NEW id \in Ids, RemoveTask(p, id)
    PROVE  RefInv'
  <1>1. \A i \in DOMAIN items' : i \in DOMAIN items /\ items'[i].reference = items[i].reference
    BY RowsTyped, KeepsReference DEF RemoveTask
  <1>2. \A i \in DOMAIN items' : i # Draft /\ Known(p, i, items'[i].reference)
    BY <1>1, DraftIsNoTicket DEF Known
  <1>3. \A i \in DOMAIN held'[p] : Known(p, i, held'[p][i].reference)
    BY DEF RemoveTask, Known
  <1>4. nextId' = nextId /\ taskSeq' = taskSeq /\ held' = held /\ DOMAIN held = Processes
    BY DEF RemoveTask, IInv, GoodHandlers
  <1> QED
    BY <1>2, <1>3, <1>4, CopiesRefs

LEMMA TickRefs ==
    ASSUME IInv, RefInv, Tick
    PROVE  RefInv'
  <1>1. /\ DOMAIN items' = DOMAIN items
        /\ \A i \in DOMAIN items : items'[i].reference = items[i].reference
    BY RowsTyped, KeepsReference DEF Tick, AgedTable
  <1>2. \A p \in Processes :
            /\ DOMAIN held'[p] = DOMAIN held[p]
            /\ \A i \in DOMAIN held[p] : held'[p][i].reference = held[p][i].reference
    BY RowsTyped, KeepsReference DEF Tick, AgedTable
  <1>3. nextId' = nextId /\ taskSeq' = taskSeq
    BY DEF Tick
  <1>4. TableRefs'
    BY <1>1, <1>3 DEF RefInv, TableRefs, Drawn, Differ
  <1>5. HandRefs'
    BY <1>1, <1>2, <1>3 DEF RefInv, HandRefs, Drawn, Differ
  <1>6. HandToHandRefs'
    BY <1>2 DEF RefInv, HandToHandRefs, Differ
  <1> QED
    BY <1>4, <1>5, <1>6 DEF RefInv

-----------------------------------------------------------------------------
\* A handler that takes up a draft: it has no reference yet, or a number that
\* nobody had drawn.
LEMMA DraftRefs ==
    ASSUME IInv, RefInv, NEW p \in Processes, NEW r, NEW row,
           Awaits(p, r, Row(Draft, row)), UNCHANGED <<items, nextId>>,
           \A j \in Projects : taskSeq'[j] \in Nat /\ taskSeq[j] <= taskSeq'[j],
           DrawnFrom(taskSeq', row.reference),
           \A ref : Drawn(ref) => Differ(row.reference, ref)
    PROVE  RefInv'
  <1>1. /\ DOMAIN held' = Processes /\ held'[p] = Row(Draft, row)
        /\ \A q \in Processes \ {p} : held'[q] = held[q]
    BY DEF Awaits, IInv, GoodHandlers
  <1>2. \A i \in DOMAIN held'[p] : i = Draft /\ held'[p][i] = row
    BY <1>1 DEF Row
  <1>3. ASSUME NEW ref, Drawn(ref) PROVE DrawnFrom(taskSeq', ref)
    BY <1>3 DEF Drawn, DrawnFrom, IInv, GoodTables
  <1>4. Draft < nextId' /\ Draft \notin DOMAIN items
    BY DraftIsNoTicket DEF IInv, GoodTables, Draft
  <1>5. items' = items /\ nextId' = nextId
    OBVIOUS
  <1>6. \A i \in DOMAIN items : i < nextId /\ Drawn(items[i].reference)
    BY DEF RefInv, TableRefs
  <1>7. \A q \in Processes : \A i \in DOMAIN held[q] : i < nextId /\ Drawn(held[q][i].reference)
    BY DEF RefInv, HandRefs
  <1>8. TableRefs'
    BY <1>3, <1>5, <1>6 DEF TableRefs, RefInv, Differ, Drawn
  <1>9. HandRefs'
    <2> SUFFICES ASSUME NEW q \in Processes, NEW i \in DOMAIN held'[q]
                 PROVE  /\ i < nextId' /\ DrawnFrom(taskSeq', held'[q][i].reference)
                        /\ \A j \in DOMAIN items' :
                              IF i = j THEN held'[q][i].reference = items'[j].reference
                              ELSE Differ(held'[q][i].reference, items'[j].reference)
      BY DEF HandRefs, Differ, Drawn
    <2>1. CASE q = p
      <3>1. i = Draft /\ held'[q][i] = row
        BY <1>2, <2>1
      <3> QED
        BY <1>4, <1>5, <1>6, <3>1 DEF Drawn, DrawnFrom
    <2>2. CASE q # p
      <3>1. held'[q] = held[q] /\ i \in DOMAIN held[q]
        BY <1>1, <2>2
      <3>2. i < nextId' /\ DrawnFrom(taskSeq', held'[q][i].reference)
        BY <1>3, <1>5, <1>7, <3>1 DEF Drawn, DrawnFrom
      <3> QED
        BY <1>5, <3>1, <3>2 DEF RefInv, HandRefs
    <2> QED
      BY <2>1, <2>2
  <1>10. HandToHandRefs'
    <2> SUFFICES ASSUME NEW q \in Processes, NEW s \in Processes,
                        NEW i \in DOMAIN held'[q], NEW j \in DOMAIN held'[s]
                 PROVE  IF i = j /\ (i # Draft \/ q = s)
                        THEN held'[q][i].reference = held'[s][j].reference
                        ELSE Differ(held'[q][i].reference, held'[s][j].reference)
      BY DEF HandToHandRefs, Differ
    <2>1. CASE q = p /\ s = p
      BY <1>2, <2>1
    <2>2. CASE q = p /\ s # p
      <3>1. i = Draft /\ held'[q][i] = row /\ held'[s] = held[s] /\ j \in DOMAIN held[s]
        BY <1>1, <1>2, <2>2
      <3> QED
        BY <1>7, <2>2, <3>1
    <2>3. CASE q # p /\ s = p
      <3>1. j = Draft /\ held'[s][j] = row /\ held'[q] = held[q] /\ i \in DOMAIN held[q]
        BY <1>1, <1>2, <2>3
      <3> QED
        BY <1>7, <2>3, <3>1 DEF Differ
    <2>4. CASE q # p /\ s # p
      BY <1>1, <2>4 DEF RefInv, HandToHandRefs
    <2> QED
      BY <2>1, <2>2, <2>3, <2>4
  <1> QED
    BY <1>8, <1>9, <1>10 DEF RefInv

\* nextTaskSeq: the number drawn is new, and no counter goes back.
LEMMA NumberIsNew ==
    ASSUME IInv, NEW j \in Projects, NextTaskSeq(j)
    PROVE  /\ \A k \in Projects : taskSeq'[k] \in Nat /\ taskSeq[k] <= taskSeq'[k]
           /\ DrawnFrom(taskSeq', <<j, taskSeq[j] + 1>>)
           /\ \A ref : Drawn(ref) => Differ(<<j, taskSeq[j] + 1>>, ref)
  <1>1. taskSeq \in [Projects -> Nat]
    BY DEF IInv, GoodTables
  <1>2. taskSeq'[j] = taskSeq[j] + 1 /\ \A k \in Projects : k # j => taskSeq'[k] = taskSeq[k]
    BY <1>1 DEF NextTaskSeq
  <1>3. \A k \in Projects : taskSeq[k] \in Nat
    BY <1>1
  <1>4. \A k \in Projects : taskSeq'[k] \in Nat /\ taskSeq[k] <= taskSeq'[k]
    BY <1>2, <1>3
  <1>5. DrawnFrom(taskSeq', <<j, taskSeq[j] + 1>>)
    BY <1>2, <1>3 DEF Drawn, DrawnFrom
  <1>6. \A ref : Drawn(ref) => Differ(<<j, taskSeq[j] + 1>>, ref)
    BY <1>3 DEF Drawn, DrawnFrom, Differ
  <1> QED
    BY <1>4, <1>5, <1>6

LEMMA NoNumber ==
    /\ \A counters : DrawnFrom(counters, NoReference)
    /\ \A ref : Drawn(ref) => Differ(NoReference, ref)
  BY DEF Drawn, DrawnFrom, Differ

LEMMA CreateRefs ==
    ASSUME IInv, RefInv, NEW p \in Processes,
           \/ \E s \in Statuses, t \in WorkItemTypes, j \in Projects : CreateCount(p, s, t, j)
           \/ CreateReserve(p)
    PROVE  RefInv'
  <1>1. ASSUME NEW s \in Statuses, NEW t \in WorkItemTypes, NEW j \in Projects,
               CreateCount(p, s, t, j)
        PROVE  RefInv'
    <2> DEFINE row == NewRow(s, t, j, CountOf(s))
    <2>1. row.reference = NoReference
      BY DEF NewRow
    <2>2. \E r : Awaits(p, r, Row(Draft, row))
      BY <1>1 DEF CreateCount
    <2>3. UNCHANGED <<items, nextId>> /\ taskSeq' = taskSeq
      BY <1>1 DEF CreateCount, tables
    <2>4. \A k \in Projects : taskSeq'[k] \in Nat /\ taskSeq[k] <= taskSeq'[k]
      BY <2>3 DEF IInv, GoodTables
    <2> HIDE DEF row
    <2>5. DrawnFrom(taskSeq', row.reference) /\ \A ref : Drawn(ref) => Differ(row.reference, ref)
      BY <2>1, NoNumber
    <2> QED
      BY <2>2, <2>3, <2>4, <2>5, DraftRefs
  <1>2. CASE CreateReserve(p)
    <2> DEFINE draft == held[p][Draft]
               row == [draft EXCEPT !.reference =
                          <<draft.project, taskSeq[draft.project] + 1>>]
    <2>1. draft \in Rows /\ draft.project \in Projects
      BY <1>2 DEF CreateReserve, IInv, GoodHandlers, GoodHandler, GoodTable, GoodRow
    <2>2. \E r : Awaits(p, r, Row(Draft, row))
      BY <1>2 DEF CreateReserve
    <2>3. UNCHANGED <<items, nextId>> /\ NextTaskSeq(draft.project)
      BY <1>2 DEF CreateReserve
    <2>4. row.reference = <<draft.project, taskSeq[draft.project] + 1>>
      BY <2>1 DEF Rows
    <2> HIDE DEF row, draft
    <2>5. /\ \A k \in Projects : taskSeq'[k] \in Nat /\ taskSeq[k] <= taskSeq'[k]
          /\ DrawnFrom(taskSeq', row.reference)
          /\ \A ref : Drawn(ref) => Differ(row.reference, ref)
      BY <2>1, <2>3, <2>4, NumberIsNew
    <2> QED
      BY <2>2, <2>3, <2>5, DraftRefs
  <1> QED
    BY <1>1, <1>2

LEMMA CaptureRefs ==
    ASSUME IInv, RefInv, NEW p \in Processes,
           \/ \E t \in WorkItemTypes, j \in Projects \cup {NoProject} : Capture(p, t, j)
           \/ CaptureCount(p)
    PROVE  RefInv'
  <1>1. ASSUME NEW t \in WorkItemTypes, NEW j \in Projects \cup {NoProject}, Capture(p, t, j)
        PROVE  RefInv'
    <2> DEFINE ref == IF j = NoProject THEN NoReference ELSE <<j, taskSeq[j] + 1>>
               row == [NewRow("todo", t, j, 0) EXCEPT !.reference = ref]
    <2>1. \E r : Awaits(p, r, Row(Draft, row))
      BY <1>1 DEF Capture
    <2>2. /\ UNCHANGED <<items, nextId>>
          /\ IF j = NoProject THEN taskSeq' = taskSeq ELSE NextTaskSeq(j)
      BY <1>1 DEF Capture
    <2>3. row.reference = ref
      BY DEF NewRow
    <2> HIDE DEF row
    <2>4. CASE j = NoProject
      <3>1. \A k \in Projects : taskSeq'[k] \in Nat /\ taskSeq[k] <= taskSeq'[k]
        BY <2>2, <2>4 DEF IInv, GoodTables
      <3>2. DrawnFrom(taskSeq', row.reference) /\ \A b : Drawn(b) => Differ(row.reference, b)
        BY <2>3, <2>4, NoNumber
      <3> QED
        BY <2>1, <2>2, <3>1, <3>2, DraftRefs
    <2>5. CASE j # NoProject
      <3>1. j \in Projects /\ NextTaskSeq(j) /\ row.reference = <<j, taskSeq[j] + 1>>
        BY <2>2, <2>3, <2>5
      <3>2. /\ \A k \in Projects : taskSeq'[k] \in Nat /\ taskSeq[k] <= taskSeq'[k]
            /\ DrawnFrom(taskSeq', row.reference)
            /\ \A b : Drawn(b) => Differ(row.reference, b)
        BY <3>1, NumberIsNew
      <3> QED
        BY <2>1, <2>2, <3>2, DraftRefs
    <2> QED
      BY <2>4, <2>5
  <1>2. CASE CaptureCount(p)
    <2> DEFINE draft == held[p][Draft]
               row == [draft EXCEPT !.position = CountOf("todo")]
    <2>1. Draft \in DOMAIN held[p] /\ draft \in Rows
      BY <1>2 DEF CaptureCount, IInv, GoodHandlers, GoodHandler, GoodTable, GoodRow
    <2>2. UNCHANGED tables /\ \E r : Awaits(p, r, Row(Draft, row))
      BY <1>2 DEF CaptureCount
    <2>3. row.reference = draft.reference
      BY <2>1, KeepsReference
    <2> HIDE DEF row
    <2>4. \A i \in DOMAIN Row(Draft, row) : Known(p, i, Row(Draft, row)[i].reference)
      BY <2>1, <2>3 DEF Row, Known
    <2> QED
      BY <2>2, <2>4, ReadsRefs
  <1> QED
    BY <1>1, <1>2

\* The draft becomes the ticket of the next id; nobody knows that id yet.
LEMMA InsertRefs ==
    ASSUME IInv, RefInv, NEW p \in Processes, Insert(p)
    PROVE  RefInv'
  <1> DEFINE draft == held[p][Draft]
  <1>1. Draft \in DOMAIN held[p]
    BY DEF Insert, IInv, GoodHandlers, GoodHandler
  <1>2. /\ items' = Upsert(items, Row(nextId, draft))
        /\ nextId' = nextId + 1 /\ taskSeq' = taskSeq
    BY DEF Insert
  <1>3. /\ DOMAIN held' = Processes /\ held'[p] = EmptyTable /\ DOMAIN held'[p] = {}
        /\ \A q \in Processes \ {p} : held'[q] = held[q]
    BY EmptyGood DEF Insert, Ends, Awaits, IInv, GoodHandlers
  <1>4. nextId \in Nat /\ \A i \in DOMAIN items : i \in Int /\ i < nextId
    BY WorkItemsAssumption DEF IInv, GoodTables, GoodTable, Ids, RefInv, TableRefs
  <1>5. \A q \in Processes : \A i \in DOMAIN held[q] : i \in Int /\ i < nextId
    BY WorkItemsAssumption
       DEF IInv, GoodHandlers, GoodHandler, GoodTable, Ids, Draft, RefInv, HandRefs
  <1>6. /\ DOMAIN items' = DOMAIN items \cup {nextId}
        /\ items'[nextId] = draft
        /\ \A i \in DOMAIN items : i # nextId /\ items'[i] = items[i]
    BY <1>2, <1>4 DEF Upsert, Row
  <1>7. Draft \notin DOMAIN items /\ Drawn(draft.reference)
    BY <1>1, DraftIsNoTicket DEF RefInv, HandRefs
  <1>8. \A j \in DOMAIN items : Differ(draft.reference, items[j].reference)
    BY <1>1, <1>7 DEF RefInv, HandRefs
  <1>9. TableRefs'
    BY <1>2, <1>4, <1>6, <1>7, <1>8 DEF RefInv, TableRefs, Drawn, Differ
  <1>10. HandRefs'
    <2> SUFFICES ASSUME NEW q \in Processes, NEW i \in DOMAIN held'[q]
                 PROVE  /\ i < nextId' /\ DrawnFrom(taskSeq', held'[q][i].reference)
                        /\ \A j \in DOMAIN items' :
                              IF i = j THEN held'[q][i].reference = items'[j].reference
                              ELSE Differ(held'[q][i].reference, items'[j].reference)
      BY DEF HandRefs, Differ, Drawn
    <2>1. q # p /\ held'[q] = held[q] /\ i \in DOMAIN held[q]
      BY <1>3
    <2>2. i # nextId /\ i < nextId'
      BY <1>2, <1>4, <1>5, <2>1
    <2>3. DrawnFrom(taskSeq', held'[q][i].reference)
      BY <1>2, <2>1 DEF RefInv, HandRefs, Drawn
    <2>4. Differ(held[q][i].reference, draft.reference)
      BY <1>1, <2>1 DEF RefInv, HandToHandRefs
    <2>5. \A j \in DOMAIN items :
            IF i = j THEN held[q][i].reference = items[j].reference
            ELSE Differ(held[q][i].reference, items[j].reference)
      BY <2>1 DEF RefInv, HandRefs
    <2> QED
      BY <1>6, <2>1, <2>2, <2>3, <2>4, <2>5
  <1>11. HandToHandRefs'
    BY <1>3 DEF RefInv, HandToHandRefs, Differ
  <1> QED
    BY <1>9, <1>10, <1>11 DEF RefInv

-----------------------------------------------------------------------------
LEMMA RefInit == Init => RefInv
  BY EmptyGood DEF Init, RefInv, TableRefs, HandRefs, HandToHandRefs

LEMMA RefStep == IInv /\ RefInv /\ [Next]_vars => RefInv'
  <1> SUFFICES ASSUME IInv, RefInv, [Next]_vars PROVE RefInv'
    OBVIOUS
  <1>1. workload \in Workloads /\ Clients \subseteq Processes
    BY DEF IInv, GoodTables, Processes
  <1>2. /\ workload.statuses \cup {"todo"} \subseteq Statuses
        /\ workload.types \cup {"task"} \subseteq WorkItemTypes
        /\ \A at \in 0 .. workload.tickets : at \in 0 .. MaxItems
    BY <1>1, WorkItemsAssumption DEF Statuses, WorkItemTypes, TaskShaped
  <1>3. ASSUME NEW p \in Clients, Request(p) PROVE RefInv'
    <2>1. p \in Processes
      BY <1>1
    <2>2. CASE \E s \in workload.statuses \cup {"todo"}, t \in workload.types \cup {"task"},
                  j \in Projects : CreateCount(p, s, t, j)
      BY <1>2, <2>1, <2>2, CreateRefs
    <2>3. CASE \E t \in workload.types \cup {"task"}, j \in Projects \cup {NoProject} :
                  Capture(p, t, j)
      BY <1>2, <2>1, <2>3, CaptureRefs
    <2>4. CASE \E i \in Ids, d \in UpdateDtos : UpdateFind(p, i, d)
      BY <1>1, <2>1, <2>4, UpdateDtosTyped, UpdateRefs
    <2>5. CASE \E i \in Ids, s \in workload.statuses, at \in 0 .. workload.tickets :
                  MoveFind(p, i, s, at)
      BY <1>2, <2>1, <2>5, MoveRefs
    <2>6. CASE \E is \in SUBSET Ids, d \in {"todo", "closed"} : TriageFind(p, is, d)
      BY <2>1, <2>6, TriageRefs
    <2>7. CASE \E i \in Ids : RemoveTask(p, i)
      BY <2>1, <2>7, RemoveRefs
    <2> QED
      BY <1>3, <2>2, <2>3, <2>4, <2>5, <2>6, <2>7 DEF Request
  <1>4. ASSUME NEW p \in Clients, Step(p) PROVE RefInv'
    <2>1. p \in Processes
      BY <1>1
    <2> QED
      BY <1>4, <2>1, CreateRefs, CaptureRefs, InsertRefs, UpdateRefs, MoveRefs, TriageRefs
      DEF Step
  <1>5. CASE UNCHANGED vars
    BY <1>5 DEF vars, RefInv, TableRefs, HandRefs, HandToHandRefs, Drawn, DrawnFrom, Differ
  <1> QED
    BY <1>3, <1>4, <1>5, MoveRefs, CloserFindRefs, TickRefs DEF Next

\* However creates overlap, tickets are deleted and stale saves bring them back:
\* no two tickets carry one reference.
THEOREM ReferencesAlwaysDistinct == Spec => []ReferencesDistinct
  <1>1. RefInv => ReferencesDistinct
    BY DEF RefInv, TableRefs, Differ, ReferencesDistinct
  <1>2. Init => IInv /\ RefInv
    BY InvInit, RefInit
  <1>3. (IInv /\ RefInv) /\ [Next]_vars => (IInv /\ RefInv)'
    BY InvStep, RefStep
  <1> QED
    BY <1>1, <1>2, <1>3, PTL DEF Spec
-----------------------------------------------------------------------------
(***************************************************************************)
(* Closed rows.  The code refuses to change a closed ticket when it reads  *)
(* it, and writes it after other awaits.  That is enough only while no     *)
(* other handler closes it in between: an update saves the row it read,    *)
(* whatever became of it.  So the theorem is about one handler in flight,  *)
(* and LoneInv is what that handler still knows when it writes.            *)
(***************************************************************************)
Unmoved(row) == [row EXCEPT !.position = 0, !.parent = 0, !.resolvedAt = 0]

\* What one table says of its closed rows, another says too.
Frozen(old, new) ==
    \A i \in DOMAIN old \cap DOMAIN new :
        old[i].status = "closed" => Unmoved(old[i]) = Unmoved(new[i])

\* A handler at r, with the rows it holds and the table as it is.
Knows(r, rows, table) ==
    /\ r.pc \in {"ancestors", "update", "plan"} /\ r.id \in DOMAIN table
          => table[r.id].status # "closed"
    /\ r.pc = "triage" => \A i \in DOMAIN rows \cap DOMAIN table : table[i].status # "closed"
    /\ r.pc = "save" => Frozen(table, rows)

Alone(p) == \A q \in Processes \ {p} : req[q].pc = "idle"

LoneInv ==
    /\ \A p \in Processes : req[p].pc # "idle" => Alone(p)
    /\ \A p \in Processes : Knows(req[p], held[p], items)

LEMMA StartsAlone ==
    ASSUME LoneInv, MaxInFlight = 1, NEW p \in Processes, MayStart(p)
    PROVE  Alone(p)
  <1>1. SUFFICES ASSUME NEW q \in Processes, req[q].pc # "idle" PROVE FALSE
    BY DEF Alone
  <1>2. {x \in Processes : req[x].pc # "idle"} = {q}
    BY <1>1 DEF LoneInv, Alone
  <1>3. Cardinality({q}) = 1
    BY FS_Singleton
  <1> QED
    BY <1>2, <1>3 DEF MayStart

\* A lone handler that knows enough at its next await.
LEMMA LoneAwaits ==
    ASSUME IInv, NEW p \in Processes, Alone(p), NEW r, NEW rows, Awaits(p, r, rows),
           Knows(r, rows, items')
    PROVE  LoneInv'
  <1>1. /\ req'[p] = r /\ held'[p] = rows
        /\ \A q \in Processes \ {p} : req'[q].pc = "idle"
    BY DEF Awaits, IInv, GoodHandlers, Alone
  <1>2. \A q \in Processes \ {p} : Knows(req'[q], held'[q], items')
    BY <1>1 DEF Knows
  <1>3. \A q \in Processes : Knows(req'[q], held'[q], items')
    BY <1>1, <1>2
  <1>4. \A q \in Processes : req'[q].pc # "idle" => \A x \in Processes \ {q} : req'[x].pc = "idle"
    BY <1>1
  <1> QED
    BY <1>3, <1>4 DEF LoneInv, Alone

LEMMA LoneEnds ==
    ASSUME IInv, NEW p \in Processes, Alone(p), Ends(p)
    PROVE  LoneInv'
  <1>1. Knows(Idle, EmptyTable, items')
    BY DEF Knows, Idle
  <1> QED
    BY <1>1, LoneAwaits DEF Ends

LEMMA SameFrozen == ASSUME items' = items PROVE Frozen(items, items')
  BY DEF Frozen

\* Whoever is under way is alone.
LEMMA UnderWay ==
    ASSUME LoneInv, NEW p \in Processes, req[p].pc # "idle"
    PROVE  Alone(p) /\ Knows(req[p], held[p], items)
  BY DEF LoneInv

\* Adding rows the table does not have, or rows that say of closed ones what it says.
LEMMA UpsertFrozen ==
    ASSUME NEW t, NEW u, Frozen(t, u)
    PROVE  Frozen(t, Upsert(t, u))
  BY DEF Frozen, Upsert

-----------------------------------------------------------------------------
LEMMA CreateCloses ==
    ASSUME IInv, RefInv, LoneInv, MaxInFlight = 1, NEW p \in Processes,
           \/ \E s, t, j : CreateCount(p, s, t, j)
           \/ \E t, j : Capture(p, t, j)
           \/ CreateReserve(p) \/ CaptureCount(p) \/ Insert(p)
    PROVE  LoneInv' /\ Frozen(items, items')
  <1>1. ASSUME NEW s, NEW t, NEW j, CreateCount(p, s, t, j)
        PROVE  LoneInv' /\ Frozen(items, items')
    <2>1. Knows([Idle EXCEPT !.pc = "reserve"], Row(Draft, NewRow(s, t, j, CountOf(s))), items')
      BY DEF Knows, Idle
    <2>2. Alone(p) /\ items' = items
      BY <1>1, StartsAlone DEF CreateCount, tables
    <2> QED
      BY <1>1, <2>1, <2>2, LoneAwaits, SameFrozen DEF CreateCount
  <1>2. ASSUME NEW t, NEW j, Capture(p, t, j)
        PROVE  LoneInv' /\ Frozen(items, items')
    <2>1. \A rows : Knows([Idle EXCEPT !.pc = "count"], rows, items')
      BY DEF Knows, Idle
    <2>2. Alone(p) /\ items' = items
      BY <1>2, StartsAlone DEF Capture
    <2> QED
      BY <1>2, <2>1, <2>2, LoneAwaits, SameFrozen DEF Capture
  <1>3. CASE CreateReserve(p) \/ CaptureCount(p)
    <2>1. \A rows : Knows([Idle EXCEPT !.pc = "insert"], rows, items')
      BY DEF Knows, Idle
    <2>2. Alone(p) /\ items' = items
      BY <1>3, UnderWay DEF CreateReserve, CaptureCount, tables
    <2> QED
      BY <1>3, <2>1, <2>2, LoneAwaits, SameFrozen DEF CreateReserve, CaptureCount
  <1>4. CASE Insert(p)
    <2>1. Alone(p) /\ nextId \notin DOMAIN items
      <3>1. nextId \in Nat /\ \A i \in DOMAIN items : i < nextId
        BY WorkItemsAssumption DEF IInv, GoodTables, RefInv, TableRefs
      <3> QED
        BY <1>4, <3>1, UnderWay DEF Insert
    <2>2. Frozen(items, Row(nextId, held[p][Draft]))
      BY <2>1 DEF Frozen, Row
    <2> QED
      BY <1>4, <2>1, <2>2, UpsertFrozen, LoneEnds DEF Insert
  <1> QED
    BY <1>1, <1>2, <1>3, <1>4

LEMMA UpdateCloses ==
    ASSUME IInv, LoneInv, MaxInFlight = 1, NEW p \in Processes,
           \/ \E i \in Ids, d \in Dtos : UpdateFind(p, i, d)
           \/ ReadAncestor(p) \/ ParentVerdict(p) \/ UpdateSave(p)
    PROVE  LoneInv' /\ Frozen(items, items')
  <1>1. ASSUME NEW i \in Ids, NEW d \in Dtos, UpdateFind(p, i, d)
        PROVE  LoneInv' /\ Frozen(items, items')
    <2>1. PICK r, rows : Awaits(p, r, rows) /\ r.id = i /\ r.pc \in {"ancestors", "update"}
      BY <1>1 DEF UpdateFind
    <2>2. Alone(p) /\ items' = items /\ items[i].status # "closed"
      BY <1>1, StartsAlone DEF UpdateFind, tables, Mutable
    <2>3. Knows(r, rows, items')
      BY <2>1, <2>2 DEF Knows
    <2> QED
      BY <2>1, <2>2, <2>3, LoneAwaits, SameFrozen
  <1>2. CASE ReadAncestor(p) \/ ParentVerdict(p)
    <2>1. Alone(p) /\ items' = items /\ req[p] \in Requests /\ req[p].pc = "ancestors"
          /\ (req[p].id \in DOMAIN items => items[req[p].id].status # "closed")
      BY <1>2, UnderWay DEF ReadAncestor, ParentVerdict, tables, Knows, IInv, GoodHandlers
    <2>2. CASE Ends(p)
      BY <2>1, <2>2, LoneEnds, SameFrozen
    <2>3. CASE \E r, rows : /\ Awaits(p, r, rows) /\ r.id = req[p].id
                            /\ r.pc \in {"ancestors", "update"}
      <3>1. PICK r, rows : Awaits(p, r, rows) /\ r.id = req[p].id /\ r.pc \in {"ancestors", "update"}
        BY <2>3
      <3>2. Knows(r, rows, items')
        BY <2>1, <3>1 DEF Knows
      <3> QED
        BY <2>1, <3>1, <3>2, LoneAwaits, SameFrozen
    <2>4. CASE ReadAncestor(p)
      BY <2>1, <2>2, <2>3, <2>4 DEF ReadAncestor, Requests
    <2>5. CASE ParentVerdict(p)
      <3>1. PICK r : r = [req[p] EXCEPT !.pc = "update", !.cursor = NoParent]
        OBVIOUS
      <3>2. r.id = req[p].id /\ r.pc = "update"
        BY <2>1, <3>1 DEF Requests
      <3>3. Ends(p) \/ Awaits(p, r, Row(req[p].id, held[p][req[p].id]))
        BY <2>5, <3>1 DEF ParentVerdict
      <3> QED
        BY <2>2, <2>3, <3>2, <3>3
    <2> QED
      BY <1>2, <2>4, <2>5
  <1>3. CASE UpdateSave(p)
    <2>1. Alone(p) /\ (req[p].id \in DOMAIN items => items[req[p].id].status # "closed")
      BY <1>3, UnderWay DEF UpdateSave, Knows
    <2>2. \A row : Frozen(items, Row(req[p].id, row))
      BY <2>1 DEF Frozen, Row
    <2>3. \A row : Frozen(items, Upsert(items, Row(req[p].id, row)))
      BY <2>2, UpsertFrozen
    <2> QED
      BY <1>3, <2>1, <2>3, SameFrozen, LoneEnds DEF UpdateSave
  <1> QED
    BY <1>1, <1>2, <1>3

\* A move saves its siblings in the columns they had, at other ranks.
LEMMA MoveCloses ==
    ASSUME IInv, LoneInv, MaxInFlight = 1, NEW p \in Processes,
           \/ \E i \in Ids, s \in Statuses, at \in 0 .. MaxItems : MoveFind(p, i, s, at)
           \/ MovePlan(p) \/ Save(p)
    PROVE  LoneInv' /\ Frozen(items, items')
  <1>1. ASSUME NEW i \in Ids, NEW s \in Statuses, NEW at \in 0 .. MaxItems, MoveFind(p, i, s, at)
        PROVE  LoneInv' /\ Frozen(items, items')
    <2>1. PICK r, rows : Awaits(p, r, rows) /\ r.id = i /\ r.pc = "plan"
      <3>1. PICK r : r = [Idle EXCEPT !.pc = "plan", !.id = i, !.dto = [NoDto EXCEPT !.status = s, !.at = at]]
        OBVIOUS
      <3>2. r.id = i /\ r.pc = "plan"
        BY <3>1 DEF Idle
      <3>3. Awaits(p, r, Row(i, items[i]))
        BY <1>1, <3>1 DEF MoveFind
      <3> QED
        BY <3>2, <3>3
    <2>2. Alone(p) /\ items' = items /\ items[i].status # "closed"
      BY <1>1, StartsAlone DEF MoveFind, tables, Mutable
    <2>3. Knows(r, rows, items')
      BY <2>1, <2>2 DEF Knows
    <2> QED
      BY <2>1, <2>2, <2>3, LoneAwaits, SameFrozen
  <1>2. CASE MovePlan(p)
    <2>1. PICK r : r = req[p]
      OBVIOUS
    <2>2. /\ Alone(p) /\ items' = items /\ r.pc = "plan" /\ GoodHandler(r, held[p])
          /\ (r.id \in DOMAIN items => items[r.id].status # "closed")
      BY <1>2, <2>1, UnderWay DEF MovePlan, tables, Knows, IInv, GoodHandlers
    <2>3. PICK plan : plan = PlanMove(items, r.id, r.dto.status, r.dto.at)
      OBVIOUS
    <2>4. /\ DOMAIN plan \subseteq DOMAIN items
          /\ \A i \in DOMAIN plan : i # r.id => plan[i].status = items[i].status
      <3>1. r.dto.status \in Statuses /\ r.dto.at \in Nat
        BY <2>2, WorkItemsAssumption DEF GoodHandler, Requests, Dtos
      <3>2. DOMAIN items \subseteq Ids /\ \A i \in DOMAIN items : items[i].status \in Statuses
        BY DEF IInv, GoodTables, GoodTable, GoodRow, Rows
      <3> QED
        BY <2>3, <3>1, <3>2, PlanMoveTyped
    <2>5. PICK rows : rows = MovedRows(r.id, held[p][r.id], plan)
      OBVIOUS
    <2>6. \A i \in DOMAIN items : items[i] \in Rows
      BY DEF IInv, GoodTables, GoodTable, GoodRow
    <2>7. Frozen(items, rows)
      <3> SUFFICES ASSUME NEW i \in DOMAIN items, i \in DOMAIN rows, items[i].status = "closed"
                   PROVE  Unmoved(items[i]) = Unmoved(rows[i])
        BY DEF Frozen
      <3>1. i \in DOMAIN plan /\ i # r.id /\ plan[i].status = "closed"
        BY <2>2, <2>4, <2>5 DEF MovedRows
      <3>2. rows[i] = [items[i] EXCEPT !.status = "closed", !.position = plan[i].position]
        BY <2>5, <3>1 DEF MovedRows
      <3> QED
        BY <2>6, <3>2 DEF Unmoved, Rows
    <2>8. Ends(p) \/ Awaits(p, [Idle EXCEPT !.pc = "save", !.id = r.id], rows)
      BY <1>2, <2>1, <2>3, <2>5 DEF MovePlan
    <2>9. Knows([Idle EXCEPT !.pc = "save", !.id = r.id], rows, items')
      BY <2>2, <2>7 DEF Knows, Idle
    <2> QED
      BY <2>2, <2>8, <2>9, LoneAwaits, LoneEnds, SameFrozen
  <1>3. CASE Save(p)
    <2>1. Alone(p) /\ Frozen(items, held[p])
      BY <1>3, UnderWay DEF Save, Knows
    <2> QED
      BY <1>3, <2>1, UpsertFrozen, SameFrozen, LoneEnds DEF Save
  <1> QED
    BY <1>1, <1>2, <1>3

\* The daily run closes what is resolved.
LEMMA CloserCloses ==
    ASSUME IInv, LoneInv, MaxInFlight = 1, CloserFind
    PROVE  LoneInv' /\ Frozen(items, items')
  <1>1. PICK rows : rows = [i \in Expired |-> [items[i] EXCEPT !.status = "closed", !.closedAt = 0]]
    OBVIOUS
  <1>2. Closer \in Processes
    BY DEF Processes
  <1>3. /\ Alone(Closer) /\ items' = items
        /\ Awaits(Closer, [Idle EXCEPT !.pc = "save"], rows)
    BY <1>1, <1>2, StartsAlone DEF CloserFind, tables
  <1>4. Frozen(items, rows)
    BY <1>1 DEF Frozen, Expired
  <1>5. Knows([Idle EXCEPT !.pc = "save"], rows, items')
    BY <1>3, <1>4 DEF Knows, Idle
  <1> QED
    BY <1>2, <1>3, <1>5, LoneAwaits, SameFrozen

\* What was read in triage is not closed when it is decided.
LEMMA TriageCloses ==
    ASSUME IInv, LoneInv, MaxInFlight = 1, NEW p \in Processes,
           \/ \E is \in SUBSET Ids, d \in {"todo", "closed"} : TriageFind(p, is, d)
           \/ TriageUpdate(p)
    PROVE  LoneInv' /\ Frozen(items, items')
  <1>1. ASSUME NEW is \in SUBSET Ids, NEW d \in {"todo", "closed"}, TriageFind(p, is, d)
        PROVE  LoneInv' /\ Frozen(items, items')
    <2>1. PICK r, rows : /\ Awaits(p, r, rows) /\ r.pc = "triage"
                         /\ \A i \in DOMAIN rows : items[i].status = "triage"
      <3>1. PICK r : r = [Idle EXCEPT !.pc = "triage", !.dto = [NoDto EXCEPT !.status = d]]
        OBVIOUS
      <3>2. r.pc = "triage"
        BY <3>1 DEF Idle
      <3>3. PICK moved, rows : /\ moved = {i \in is \cap DOMAIN items : items[i].status = "triage"}
                               /\ rows = [i \in moved |-> items[i]]
        OBVIOUS
      <3>4. Awaits(p, r, rows)
        BY <1>1, <3>1, <3>3 DEF TriageFind
      <3> QED
        BY <3>2, <3>3, <3>4
    <2>2. Alone(p) /\ items' = items
      BY <1>1, StartsAlone DEF TriageFind, tables
    <2>3. Knows(r, rows, items')
      BY <2>1, <2>2 DEF Knows
    <2> QED
      BY <2>1, <2>2, <2>3, LoneAwaits, SameFrozen
  <1>2. CASE TriageUpdate(p)
    <2>1. Alone(p) /\ \A i \in DOMAIN held[p] \cap DOMAIN items : items[i].status # "closed"
      BY <1>2, UnderWay DEF TriageUpdate, Knows
    <2>2. Frozen(items, items')
      BY <1>2, <2>1 DEF TriageUpdate, Frozen
    <2> QED
      BY <1>2, <2>1, <2>2, LoneEnds DEF TriageUpdate
  <1> QED
    BY <1>1, <1>2

\* A deletion takes the link of the children, a day the age of a resolution.
LEMMA RemoveCloses ==
    ASSUME IInv, LoneInv, MaxInFlight = 1, NEW p \in Processes, NEW id \in Ids, RemoveTask(p, id)
    PROVE  LoneInv' /\ Frozen(items, items')
  <1>1. /\ \A q \in Processes : req[q].pc = "idle"
        /\ req' = req /\ held' = held
    BY StartsAlone DEF RemoveTask, Alone, MayStart
  <1>2. LoneInv'
    BY <1>1 DEF LoneInv, Alone, Knows
  <1>3. \A i \in DOMAIN items : items[i] \in Rows
    BY DEF IInv, GoodTables, GoodTable, GoodRow
  <1>4. Frozen(items, items')
    BY <1>3 DEF RemoveTask, Frozen, Unmoved, Rows
  <1> QED
    BY <1>2, <1>4

LEMMA TickCloses ==
    ASSUME IInv, LoneInv, Tick
    PROVE  LoneInv' /\ Frozen(items, items')
  <1>1. \A row \in Rows : Unmoved(Aged(row)) = Unmoved(row) /\ Aged(row).status = row.status
    BY DEF Unmoved, Aged, Rows
  <1>2. /\ \A i \in DOMAIN items : items[i] \in Rows
        /\ \A p \in Processes : \A i \in DOMAIN held[p] : held[p][i] \in Rows
    BY DEF IInv, GoodTables, GoodHandlers, GoodHandler, GoodTable, GoodRow
  <1>3. /\ DOMAIN items' = DOMAIN items /\ \A i \in DOMAIN items : items'[i] = Aged(items[i])
        /\ req' = req
        /\ \A p \in Processes : /\ DOMAIN held'[p] = DOMAIN held[p]
                                /\ \A i \in DOMAIN held[p] : held'[p][i] = Aged(held[p][i])
    BY DEF Tick, AgedTable
  <1>4. ASSUME NEW p \in Processes, Knows(req[p], held[p], items)
        PROVE  Knows(req'[p], held'[p], items')
    <2>1. Frozen(items, held[p]) => Frozen(items', held'[p])
      BY <1>1, <1>2, <1>3 DEF Frozen
    <2> QED
      BY <1>1, <1>2, <1>3, <1>4, <2>1 DEF Knows
  <1>5. LoneInv'
    BY <1>3, <1>4 DEF LoneInv, Alone
  <1>6. Frozen(items, items')
    BY <1>1, <1>2, <1>3 DEF Frozen
  <1> QED
    BY <1>5, <1>6

-----------------------------------------------------------------------------
LEMMA LoneStep ==
    ASSUME IInv, RefInv, LoneInv, MaxInFlight = 1, [Next]_vars
    PROVE  LoneInv' /\ Frozen(items, items')
  <1>1. workload \in Workloads /\ Clients \subseteq Processes
    BY DEF IInv, GoodTables, Processes
  <1>2. /\ workload.statuses \subseteq Statuses
        /\ \A at \in 0 .. workload.tickets : at \in 0 .. MaxItems
    BY <1>1, WorkItemsAssumption DEF Statuses
  <1>3. ASSUME NEW p \in Clients, Request(p) PROVE LoneInv' /\ Frozen(items, items')
    <2>1. p \in Processes
      BY <1>1
    <2>2. CASE \E s \in workload.statuses \cup {"todo"}, t \in workload.types \cup {"task"},
                  j \in Projects : CreateCount(p, s, t, j)
      BY <2>1, <2>2, CreateCloses
    <2>3. CASE \E t \in workload.types \cup {"task"}, j \in Projects \cup {NoProject} :
                  Capture(p, t, j)
      BY <2>1, <2>3, CreateCloses
    <2>4. CASE \E i \in Ids, d \in UpdateDtos : UpdateFind(p, i, d)
      BY <1>1, <2>1, <2>4, UpdateDtosTyped, UpdateCloses
    <2>5. CASE \E i \in Ids, s \in workload.statuses, at \in 0 .. workload.tickets :
                  MoveFind(p, i, s, at)
      BY <1>2, <2>1, <2>5, MoveCloses
    <2>6. CASE \E is \in SUBSET Ids, d \in {"todo", "closed"} : TriageFind(p, is, d)
      BY <2>1, <2>6, TriageCloses
    <2>7. CASE \E i \in Ids : RemoveTask(p, i)
      BY <2>1, <2>7, RemoveCloses
    <2> QED
      BY <1>3, <2>2, <2>3, <2>4, <2>5, <2>6, <2>7 DEF Request
  <1>4. ASSUME NEW p \in Clients, Step(p) PROVE LoneInv' /\ Frozen(items, items')
    <2>1. p \in Processes
      BY <1>1
    <2> QED
      BY <1>4, <2>1, CreateCloses, UpdateCloses, MoveCloses, TriageCloses DEF Step
  <1>5. CASE UNCHANGED vars
    BY <1>5, SameFrozen DEF vars, LoneInv, Alone
  <1> QED
    BY <1>3, <1>4, <1>5, MoveCloses, CloserCloses, TickCloses DEF Next

\* With one handler in flight, what a ticket says is frozen once it is closed:
\* updates, moves and decisions refuse it, and a move of its neighbours only
\* shifts its rank.
THEOREM ClosedStayFrozen == MaxInFlight = 1 => (Spec => ClosedRowsFrozen)
  <1> SUFFICES ASSUME MaxInFlight = 1 PROVE Spec => ClosedRowsFrozen
    OBVIOUS
  <1>1. Init => IInv /\ RefInv /\ LoneInv
    BY InvInit, RefInit DEF Init, LoneInv, Alone, Knows, Idle
  <1>2. (IInv /\ RefInv /\ LoneInv) /\ [Next]_vars => (IInv /\ RefInv /\ LoneInv)'
    BY InvStep, RefStep, LoneStep
  <1>3. IInv /\ RefInv /\ LoneInv /\ [Next]_vars
          => [\A i \in DOMAIN items \cap DOMAIN items' :
                items[i].status = "closed" =>
                  [items[i] EXCEPT !.position = 0, !.parent = 0, !.resolvedAt = 0]
                    = [items'[i] EXCEPT !.position = 0, !.parent = 0, !.resolvedAt = 0]]_vars
    BY LoneStep DEF Frozen, Unmoved
  <1> QED
    BY <1>1, <1>2, <1>3, PTL DEF Spec, ClosedRowsFrozen
-----------------------------------------------------------------------------
(***************************************************************************)
(* Moves.  Whatever the ranks of a column were, gaps and duplicates        *)
(* included, the ranks planMove gives are 0, 1, 2 ... of the column: ranks *)
(* are injective and below the size, so by counting they fill it.          *)
(***************************************************************************)
LEMMA RanksFill ==
    ASSUME NEW all, NEW S, S \subseteq Ids, \A i \in S : all[i].position \in Nat
    PROVE  /\ Cardinality(S) \in Nat
           /\ \A i \in S : Rank(all, S, i) \in Nat /\ Rank(all, S, i) < Cardinality(S)
           /\ \A k \in Nat : k < Cardinality(S) => \E i \in S : Rank(all, S, i) = k
  <1> DEFINE before(i) == {j \in S : ByPosition(all, j, i)}
  <1>1. PICK n \in Nat : n = Cardinality(S)
    BY TicketsFinite
  <1>2. IsFiniteSet(S) /\ \A i \in S : i \in Int
    <2>1. IsFiniteSet(S)
      BY TicketsFinite
    <2>2. \A i \in Ids : i \in Int
      BY DEF Ids
    <2> QED
      BY <2>1, <2>2
  <1>3. \A i \in S : /\ before(i) \subseteq S /\ i \notin before(i)
                     /\ Rank(all, S, i) = Cardinality(before(i))
    BY <1>2 DEF ByPosition, Rank
  <1>4. \A i, j \in S : i # j => ByPosition(all, i, j) \/ ByPosition(all, j, i)
    BY <1>2 DEF ByPosition
  <1>5. \A i, j, k \in S : ByPosition(all, i, j) /\ ByPosition(all, j, k) => ByPosition(all, i, k)
    BY <1>2 DEF ByPosition
  <1> HIDE DEF before
  <1>6. \A i \in S : Rank(all, S, i) \in Nat /\ Rank(all, S, i) < n
    <2> SUFFICES ASSUME NEW i \in S PROVE Rank(all, S, i) \in Nat /\ Rank(all, S, i) < n
      OBVIOUS
    <2>1. before(i) \in SUBSET S /\ before(i) # S
      BY <1>3
    <2>2. /\ Cardinality(before(i)) <= Cardinality(S)
          /\ Cardinality(S) = Cardinality(before(i)) => S = before(i)
      BY <1>2, <2>1, FS_Subset
    <2>3. Cardinality(before(i)) \in Nat
      BY <1>2, <2>1, FS_Subset, FS_CardinalityType
    <2> QED
      BY <1>1, <1>3, <2>1, <2>2, <2>3
  <1>7. ASSUME NEW i \in S, NEW j \in S, ByPosition(all, i, j)
        PROVE  Rank(all, S, i) # Rank(all, S, j)
    <2>1. before(i) \in SUBSET before(j) /\ i \in before(j) /\ i \notin before(i)
      BY <1>3, <1>5, <1>7 DEF before
    <2>2. IsFiniteSet(before(j))
      BY <1>2, <1>3, FS_Subset
    <2>3. Cardinality(before(j)) = Cardinality(before(i)) => before(j) = before(i)
      BY <2>1, <2>2, FS_Subset
    <2> QED
      BY <1>3, <2>1, <2>3
  <1>8. \A i, j \in S : i # j => Rank(all, S, i) # Rank(all, S, j)
    BY <1>4, <1>7
  <1>9. PICK f : f = [i \in S |-> Rank(all, S, i)]
    OBVIOUS
  <1>10. f \in Injection(S, 0 .. n - 1)
    BY <1>6, <1>8, <1>9 DEF Injection, IsInjective
  <1>11. IsFiniteSet(0 .. n - 1) /\ Cardinality(0 .. n - 1) = n
    <2>1. 0 \in Int /\ n - 1 \in Int
      OBVIOUS
    <2>2. IsFiniteSet(0 .. n - 1) /\ Cardinality(0 .. n - 1) = IF 0 > n - 1 THEN 0 ELSE n - 1 - 0 + 1
      BY <2>1, FS_Interval
    <2> QED
      BY <2>2
  <1>12. f \in Surjection(S, 0 .. n - 1)
    BY <1>1, <1>10, <1>11, FS_Injection
  <1>13. \A k \in 0 .. n - 1 : \E i \in S : f[i] = k
    BY <1>12 DEF Surjection
  <1> QED
    BY <1>1, <1>6, <1>9, <1>13

\* The same of the column the ticket comes to: it takes its place, and those
\* behind make room.
MakeRoom(all, S, index, place) ==
    \A i \in S : place[i] = IF Rank(all, S, i) < index THEN Rank(all, S, i) ELSE Rank(all, S, i) + 1

LEMMA PlacesFill ==
    ASSUME NEW all, NEW S, S \subseteq Ids, \A i \in S : all[i].position \in Nat,
           NEW id, id \notin S, NEW index \in Nat, index <= Cardinality(S),
           NEW place, place[id] = index, MakeRoom(all, S, index, place)
    PROVE  /\ \A i \in S \cup {id} : place[i] \in 0 .. Cardinality(S)
           /\ \A k \in 0 .. Cardinality(S) : \E i \in S \cup {id} : place[i] = k
  <1>1. PICK n \in Nat : n = Cardinality(S)
    BY RanksFill
  <1>2. PICK rank : rank = [i \in S |-> Rank(all, S, i)]
    OBVIOUS
  <1>3. /\ \A i \in S : rank[i] \in Nat /\ rank[i] < n
        /\ \A k \in Nat : k < n => \E i \in S : rank[i] = k
    BY <1>1, <1>2, RanksFill
  <1>4. \A i \in S : place[i] = IF rank[i] < index THEN rank[i] ELSE rank[i] + 1
    BY <1>2 DEF MakeRoom
  <1>5. \A i \in S \cup {id} : place[i] \in 0 .. n
    BY <1>1, <1>3, <1>4
  <1>6. ASSUME NEW k \in 0 .. n PROVE \E i \in S \cup {id} : place[i] = k
    <2>1. CASE k = index
      BY <2>1
    <2>2. CASE k < index
      <3>1. PICK i \in S : rank[i] = k
        BY <1>1, <1>3, <2>2
      <3> QED
        BY <1>4, <2>2, <3>1
    <2>3. CASE k > index
      <3>1. k - 1 \in Nat /\ k - 1 < n
        BY <2>3
      <3>2. PICK i \in S : rank[i] = k - 1
        BY <1>3, <3>1
      <3>3. ~(rank[i] < index) /\ rank[i] + 1 = k
        BY <2>3, <3>2
      <3>4. place[i] = k
        BY <1>4, <3>2, <3>3
      <3> QED
        BY <3>2, <3>4
    <2> QED
      BY <2>1, <2>2, <2>3
  <1> QED
    BY <1>1, <1>5, <1>6

\* A table after the plan of a move: both columns are dense.
LEMMA PlanIsDense ==
    ASSUME NEW all, DOMAIN all \subseteq Ids, \A i \in DOMAIN all : all[i].position \in Nat,
           NEW id \in DOMAIN all, NEW s, NEW at \in Nat,
           NEW plan, plan = PlanMove(all, id, s, at), NEW after, DOMAIN after = DOMAIN all,
           \A i \in DOMAIN all :
              IF i \in DOMAIN plan
              THEN after[i].status = plan[i].status /\ after[i].position = plan[i].position
              ELSE after[i].status = all[i].status /\ after[i].position = all[i].position
    PROVE  after[id].status = s /\ DenseColumn(after, s) /\ DenseColumn(after, all[id].status)
  <1>1. PICK was, target, source, index :
           /\ was = all[id].status
           /\ target = Column(all, s, id)
           /\ source = IF was = s THEN {} ELSE Column(all, was, id)
           /\ index = IF at < Cardinality(target) THEN at ELSE Cardinality(target)
    OBVIOUS
  <1>2. /\ target \subseteq DOMAIN all /\ source \subseteq DOMAIN all
        /\ id \notin target /\ id \notin source /\ target \cap source = {}
        /\ \A i \in target : all[i].status = s
        /\ \A i \in source : all[i].status = was
    BY <1>1 DEF Column
  <1>3. \A i \in DOMAIN all : (i # id /\ i \notin target /\ i \notin source) => all[i].status # s /\ all[i].status # was
    BY <1>1 DEF Column
  <1>4. PICK place, column :
           /\ place = [i \in target \cup source \cup {id} |->
                        IF i = id THEN index
                        ELSE IF i \in source THEN Rank(all, source, i)
                        ELSE LET r == Rank(all, target, i) IN IF r < index THEN r ELSE r + 1]
           /\ column = [i \in target \cup source \cup {id} |-> IF i \in source THEN was ELSE s]
    OBVIOUS
  <1>5. \A i \in target \cup source \cup {id} : after[i].status = column[i] /\ after[i].position = place[i]
    <2>1. PICK changed : changed = {i \in target \cup source \cup {id} :
                                      \/ all[i].status # column[i]
                                      \/ all[i].position # place[i]}
      OBVIOUS
    <2>2. plan = [i \in changed |-> [status |-> column[i], position |-> place[i]]]
      BY <1>1, <1>4, <2>1 DEF PlanMove
    <2>3. \A i \in changed : plan[i].status = column[i] /\ plan[i].position = place[i]
      BY <2>2
    <2>4. DOMAIN plan = changed
      BY <2>2
    <2> QED
      BY <1>2, <2>1, <2>3, <2>4
  <1>6. \A i \in DOMAIN all : (i # id /\ i \notin target /\ i \notin source) => after[i].status = all[i].status
    <2>1. DOMAIN plan \subseteq target \cup source \cup {id}
      BY <1>1 DEF PlanMove
    <2> QED
      BY <2>1
  <1>7. after[id].status = s
    BY <1>2, <1>4, <1>5
  <1>8. {i \in DOMAIN after : after[i].status = s} = target \cup {id}
    <2>1. \A i \in target : i \in DOMAIN after /\ after[i].status = s
      BY <1>2, <1>4, <1>5
    <2>2. \A i \in DOMAIN all : after[i].status = s => i \in target \cup {id}
      <3>1. \A i \in source : after[i].status = was /\ (was = s => FALSE)
        BY <1>1, <1>2, <1>4, <1>5
      <3> QED
        BY <1>3, <1>6, <3>1
    <2> QED
      BY <1>7, <2>1, <2>2
  <1>9. Cardinality(target) \in Nat /\ index \in Nat /\ index <= Cardinality(target)
        /\ Cardinality(target \cup {id}) = Cardinality(target) + 1
    <2>1. IsFiniteSet(target) /\ Cardinality(target) \in Nat
      BY <1>2, TicketsFinite
    <2>2. Cardinality(target \cup {id}) = Cardinality(target) + 1
      BY <1>2, <2>1, FS_AddElement
    <2>3. index \in Nat /\ index <= Cardinality(target)
      BY <1>1, <2>1
    <2> QED
      BY <2>1, <2>2, <2>3
  <1>10. DenseColumn(after, s)
    <2>1. target \subseteq Ids /\ \A i \in target : all[i].position \in Nat
      BY <1>2
    <2>2. place[id] = index /\ MakeRoom(all, target, index, place)
      BY <1>2, <1>4 DEF MakeRoom
    <2>3. /\ \A i \in target \cup {id} : place[i] \in 0 .. Cardinality(target)
          /\ \A k \in 0 .. Cardinality(target) : \E i \in target \cup {id} : place[i] = k
      BY <1>2, <1>9, <2>1, <2>2, PlacesFill
    <2>4. {after[i].position : i \in target \cup {id}} = 0 .. Cardinality(target)
      BY <1>5, <2>3
    <2>5. PICK n \in Nat : n = Cardinality(target)
      BY <1>9
    <2>6. Cardinality(target \cup {id}) - 1 = n
      BY <1>9, <2>5
    <2>7. {after[i].position : i \in target \cup {id}} = 0 .. Cardinality(target \cup {id}) - 1
      BY <2>4, <2>5, <2>6
    <2> QED
      BY <1>8, <2>7 DEF DenseColumn
  <1>11. DenseColumn(after, was)
    <2>1. CASE was = s
      BY <1>10, <2>1
    <2>2. CASE was # s
      <3>1. {i \in DOMAIN after : after[i].status = was} = source
        <4>1. \A i \in source : i \in DOMAIN after /\ after[i].status = was
          BY <1>2, <1>4, <1>5
        <4>2. \A i \in target \cup {id} : after[i].status = s
          BY <1>8
        <4> QED
          BY <1>3, <1>6, <2>2, <4>1, <4>2
      <3>2. \A i \in source : after[i].position = Rank(all, source, i)
        BY <1>2, <1>4, <1>5
      <3>3. /\ Cardinality(source) \in Nat
            /\ \A i \in source : Rank(all, source, i) \in Nat /\ Rank(all, source, i) < Cardinality(source)
            /\ \A k \in Nat : k < Cardinality(source) => \E i \in source : Rank(all, source, i) = k
        BY <1>2, RanksFill
      <3>4. {after[i].position : i \in source} = 0 .. Cardinality(source) - 1
        BY <3>2, <3>3
      <3> QED
        BY <3>1, <3>4 DEF DenseColumn
    <2> QED
      BY <2>1, <2>2
  <1> QED
    BY <1>1, <1>7, <1>10, <1>11

\* Density is a matter of columns and ranks.
LEMMA DenseSame ==
    ASSUME NEW t, NEW u, DOMAIN u = DOMAIN t, NEW s, DenseColumn(t, s),
           \A i \in DOMAIN t : u[i].status = t[i].status /\ u[i].position = t[i].position
    PROVE  DenseColumn(u, s)
  <1>1. {i \in DOMAIN u : u[i].status = s} = {i \in DOMAIN t : t[i].status = s}
    OBVIOUS
  <1>2. {u[i].position : i \in {j \in DOMAIN u : u[j].status = s}}
          = {t[i].position : i \in {j \in DOMAIN t : t[j].status = s}}
    BY <1>1
  <1> QED
    BY <1>1, <1>2 DEF DenseColumn
-----------------------------------------------------------------------------
\* The rows a lone move is about to save, laid over the table of now.
Levelled(id, rows) ==
    /\ id \in DOMAIN items /\ DOMAIN rows \subseteq DOMAIN items
    /\ DenseColumn(Upsert(items, rows), items[id].status)
    /\ DenseColumn(Upsert(items, rows), Upsert(items, rows)[id].status)

LevelInv == \A p \in Clients : req[p].pc = "save" => Levelled(req[p].id, held[p])

NobodySaves == \A p \in Clients : req[p].pc # "save" /\ req'[p].pc # "save"

LEMMA SomethingElse ==
    ASSUME IInv, NEW q \in Processes, Alone(q), req[q].pc # "save" \/ q \notin Clients,
           NEW r, NEW rows, Awaits(q, r, rows), r.pc # "save" \/ q \notin Clients
    PROVE  NobodySaves
  <1>1. Clients \subseteq Processes
    BY DEF Processes
  <1>2. req'[q] = r /\ \A p \in Processes \ {q} : req'[p] = req[p]
    BY DEF Awaits, IInv, GoodHandlers
  <1> QED
    BY <1>1, <1>2 DEF NobodySaves, Alone

\* Nothing else happens while a move waits to be saved.
LEMMA WhoSaves ==
    ASSUME IInv, LoneInv, MaxInFlight = 1, [Next]_vars
    PROVE  \/ Tick \/ UNCHANGED vars
           \/ \E p \in Clients : MovePlan(p) \/ Save(p)
           \/ NobodySaves
  <1>1. Clients \subseteq Processes /\ Closer \in Processes /\ Closer \notin Clients
    BY WorkItemsAssumption DEF Processes
  <1>2. Idle.pc = "idle"
    BY DEF Idle
  <1>3. ASSUME NEW p \in Clients, Request(p)
        PROVE  NobodySaves
    <2>1. MayStart(p)
      BY <1>3 DEF Request, CreateCount, Capture, UpdateFind, MoveFind, TriageFind, RemoveTask
    <2>2. Alone(p) /\ req[p].pc = "idle"
      BY <1>1, <2>1, StartsAlone DEF MayStart
    <2>3. CASE \E i \in Ids : RemoveTask(p, i)
      BY <1>1, <2>2, <2>3 DEF RemoveTask, NobodySaves, Alone
    <2>4. CASE ~\E i \in Ids : RemoveTask(p, i)
      <3>1. \E r, rows : Awaits(p, r, rows) /\ r.pc # "save"
        <4>1. ASSUME NEW s, NEW t, NEW j, CreateCount(p, s, t, j)
              PROVE  \E r, rows : Awaits(p, r, rows) /\ r.pc # "save"
          <5>1. [Idle EXCEPT !.pc = "reserve"].pc # "save"
            BY DEF Idle
          <5> QED BY <4>1, <5>1 DEF CreateCount
        <4>2. ASSUME NEW t, NEW j, Capture(p, t, j)
              PROVE  \E r, rows : Awaits(p, r, rows) /\ r.pc # "save"
          <5>1. [Idle EXCEPT !.pc = "count"].pc # "save"
            BY DEF Idle
          <5> QED BY <4>2, <5>1 DEF Capture
        <4>3. ASSUME NEW i, NEW d, UpdateFind(p, i, d)
              PROVE  \E r, rows : Awaits(p, r, rows) /\ r.pc # "save"
          BY <4>3 DEF UpdateFind
        <4>4. ASSUME NEW i, NEW s, NEW at, MoveFind(p, i, s, at)
              PROVE  \E r, rows : Awaits(p, r, rows) /\ r.pc # "save"
          <5>1. PICK r : r = [Idle EXCEPT !.pc = "plan", !.id = i, !.dto = [NoDto EXCEPT !.status = s, !.at = at]]
            OBVIOUS
          <5>2. r.pc # "save"
            BY <5>1 DEF Idle
          <5>3. Awaits(p, r, Row(i, items[i]))
            BY <4>4, <5>1 DEF MoveFind
          <5> QED BY <5>2, <5>3
        <4>5. ASSUME NEW is, NEW d, TriageFind(p, is, d)
              PROVE  \E r, rows : Awaits(p, r, rows) /\ r.pc # "save"
          <5>1. PICK r : r = [Idle EXCEPT !.pc = "triage", !.dto = [NoDto EXCEPT !.status = d]]
            OBVIOUS
          <5>2. r.pc # "save"
            BY <5>1 DEF Idle
          <5>3. \E rows : Awaits(p, r, rows)
            BY <4>5, <5>1 DEF TriageFind
          <5> QED BY <5>2, <5>3
        <4> QED BY <1>3, <2>4, <4>1, <4>2, <4>3, <4>4, <4>5 DEF Request
      <3> QED BY <1>1, <2>2, <3>1, SomethingElse
    <2> QED BY <2>3, <2>4
  <1>4. ASSUME NEW p \in Clients, Step(p), ~MovePlan(p)
        PROVE  NobodySaves
    <2>1. req[p].pc \notin {"idle", "save"}
      BY <1>4 DEF Step, CreateReserve, CaptureCount, Insert, ReadAncestor, ParentVerdict, UpdateSave, TriageUpdate
    <2>2. Alone(p)
      BY <1>1, <2>1 DEF LoneInv
    <2>3. \E r, rows : Awaits(p, r, rows) /\ r.pc # "save"
      <3>1. CASE Ends(p)
        BY <1>2, <3>1 DEF Ends
      <3>2. CASE CreateReserve(p) \/ CaptureCount(p)
        <4>1. [Idle EXCEPT !.pc = "insert"].pc # "save"
          BY DEF Idle
        <4> QED BY <3>2, <4>1 DEF CreateReserve, CaptureCount
      <3>3. CASE (ReadAncestor(p) \/ ParentVerdict(p)) /\ ~Ends(p)
        <4>1. req[p] \in Requests /\ req[p].pc = "ancestors"
          BY <1>1, <3>3 DEF ReadAncestor, ParentVerdict, IInv, GoodHandlers
        <4>2. \A c : [req[p] EXCEPT !.cursor = c].pc # "save" /\ [req[p] EXCEPT !.pc = "update", !.cursor = c].pc # "save"
          BY <4>1 DEF Requests
        <4> QED BY <3>3, <4>2 DEF ReadAncestor, ParentVerdict
      <3>4. CASE Insert(p) \/ UpdateSave(p) \/ TriageUpdate(p)
        BY <3>1, <3>4 DEF Insert, UpdateSave, TriageUpdate
      <3> QED BY <1>4, <3>1, <3>2, <3>3, <3>4 DEF Step
    <2> QED BY <1>1, <2>1, <2>2, <2>3, SomethingElse
  <1>5. CASE CloserFind
    <2>1. Alone(Closer) /\ \E r, rows : Awaits(Closer, r, rows)
      BY <1>1, <1>5, StartsAlone DEF CloserFind
    <2> QED BY <1>1, <2>1, SomethingElse
  <1>6. CASE Save(Closer)
    <2>1. Alone(Closer) /\ \E r, rows : Awaits(Closer, r, rows)
      BY <1>1, <1>6 DEF Save, LoneInv, Ends
    <2> QED BY <1>1, <2>1, SomethingElse
  <1> QED
    BY <1>3, <1>4, <1>5, <1>6 DEF Next, Processes

LEMMA PlanLevels ==
    ASSUME IInv, LoneInv, LevelInv, NEW p \in Clients, MovePlan(p)
    PROVE  LevelInv'
  <1>1. PICK r, id, s : r = req[p] /\ id = r.id /\ s = r.dto.status
    OBVIOUS
  <1>2. PICK plan, rows : plan = PlanMove(items, id, s, r.dto.at) /\ rows = MovedRows(id, held[p][id], plan)
    OBVIOUS
  <1>3. p \in Processes /\ r.pc = "plan" /\ GoodHandler(r, held[p]) /\ items' = items /\ Alone(p)
    BY <1>1 DEF Processes, MovePlan, tables, IInv, GoodHandlers, LoneInv
  <1>4. \A q \in Clients \ {p} : req'[q].pc = "idle"
    BY <1>3 DEF MovePlan, Awaits, Ends, Alone, IInv, GoodHandlers, Processes
  <1>5. CASE Ends(p)
    <2>1. req'[p].pc = "idle"
      BY <1>3, <1>5 DEF Ends, Awaits, Idle, IInv, GoodHandlers
    <2> QED BY <1>4, <2>1 DEF LevelInv
  <1>6. CASE ~Ends(p)
    <2>1. DOMAIN plan # {} /\ Awaits(p, [Idle EXCEPT !.pc = "save", !.id = id], rows)
      BY <1>1, <1>2, <1>6 DEF MovePlan
    <2>2. req'[p].id = id /\ held'[p] = rows
      BY <1>3, <2>1 DEF Awaits, Idle, IInv, GoodHandlers
    <2>3. id \in DOMAIN items
      BY <1>2, <2>1 DEF PlanMove
    <2>4. s \in Statuses /\ r.dto.at \in Nat
      BY <1>1, <1>3, WorkItemsAssumption DEF GoodHandler, Requests, Dtos
    <2>5. /\ DOMAIN items \subseteq Ids
          /\ \A i \in DOMAIN items : /\ items[i] \in Rows /\ items[i].status \in Statuses
                                     /\ items[i].position \in Nat
      BY DEF IInv, GoodTables, GoodTable, GoodRow, Rows
    <2>6. DOMAIN plan \subseteq DOMAIN items
      BY <1>2, <2>4, <2>5, PlanMoveTyped
    <2>7. held[p][id] \in Rows
      BY <1>1, <1>3 DEF GoodHandler, GoodTable, GoodRow
    <2>8. DOMAIN rows = DOMAIN plan /\ \A i \in DOMAIN plan : rows[i].status = plan[i].status /\ rows[i].position = plan[i].position
      <3>1. DOMAIN rows = DOMAIN plan
        BY <1>2 DEF MovedRows
      <3>2. ASSUME NEW i \in DOMAIN plan, i # id
            PROVE  rows[i].status = plan[i].status /\ rows[i].position = plan[i].position
        <4>1. rows[i] = [items[i] EXCEPT !.status = plan[i].status, !.position = plan[i].position]
          BY <1>2, <3>2 DEF MovedRows
        <4>2. items[i] \in Rows
          BY <2>5, <2>6
        <4> QED BY <4>1, <4>2 DEF Rows
      <3>3. ASSUME id \in DOMAIN plan
            PROVE  rows[id].status = plan[id].status /\ rows[id].position = plan[id].position
        <4>1. PICK placed : placed = [held[p][id] EXCEPT !.status = plan[id].status, !.position = plan[id].position]
          OBVIOUS
        <4>2. rows[id] = Stamped(placed, held[p][id].status)
          BY <1>2, <3>3, <4>1 DEF MovedRows
        <4>3. placed.status = plan[id].status /\ placed.position = plan[id].position
          BY <2>7, <4>1 DEF Rows
        <4>4. Stamped(placed, held[p][id].status).status = placed.status
              /\ Stamped(placed, held[p][id].status).position = placed.position
          BY <2>7, <4>1 DEF Stamped, Rows
        <4> QED BY <4>2, <4>3, <4>4
      <3> QED BY <3>1, <3>2, <3>3
    <2>9. PICK after : after = Upsert(items, rows)
      OBVIOUS
    <2>10. /\ DOMAIN after = DOMAIN items
           /\ \A i \in DOMAIN items :
                 IF i \in DOMAIN plan
                 THEN after[i].status = plan[i].status /\ after[i].position = plan[i].position
                 ELSE after[i].status = items[i].status /\ after[i].position = items[i].position
      BY <2>6, <2>8, <2>9 DEF Upsert
    <2>11. PICK at : at = r.dto.at /\ at \in Nat /\ plan = PlanMove(items, id, s, at)
      BY <1>2, <2>4
    <2>12. after[id].status = s /\ DenseColumn(after, s) /\ DenseColumn(after, items[id].status)
      BY <2>3, <2>5, <2>10, <2>11, PlanIsDense
    <2>13. Levelled(id, rows)
      BY <2>3, <2>6, <2>8, <2>9, <2>12 DEF Levelled
    <2>14. Levelled(id, rows)'
      BY <1>3, <2>13 DEF Levelled
    <2> QED BY <1>4, <2>2, <2>14 DEF LevelInv
  <1> QED
    BY <1>5, <1>6

LEMMA TickLevels ==
    ASSUME IInv, LevelInv, Tick
    PROVE  LevelInv'
  <1> SUFFICES ASSUME NEW p \in Clients, req'[p].pc = "save"
               PROVE  Levelled(req[p].id, held[p])'
    BY DEF LevelInv, Tick
  <1>1. p \in Processes /\ req' = req /\ Levelled(req[p].id, held[p])
    BY DEF Tick, LevelInv, Processes
  <1>2. PICK id, rows, t, u : id = req[p].id /\ rows = held[p] /\ t = Upsert(items, rows)
                              /\ u = Upsert(items', held'[p])
    OBVIOUS
  <1>3. /\ \A i \in DOMAIN items : items[i] \in Rows
        /\ \A i \in DOMAIN rows : rows[i] \in Rows
    BY <1>1, <1>2 DEF IInv, GoodTables, GoodHandlers, GoodHandler, GoodTable, GoodRow
  <1>4. \A row \in Rows : Aged(row).status = row.status /\ Aged(row).position = row.position
    BY DEF Aged, Rows
  <1>5. /\ DOMAIN items' = DOMAIN items /\ \A i \in DOMAIN items : items'[i] = Aged(items[i])
        /\ DOMAIN held'[p] = DOMAIN rows /\ \A i \in DOMAIN rows : held'[p][i] = Aged(rows[i])
    BY <1>1, <1>2 DEF Tick, AgedTable
  <1>6. id \in DOMAIN items /\ DOMAIN rows \subseteq DOMAIN items
    BY <1>1, <1>2 DEF Levelled
  <1>7. /\ DOMAIN t = DOMAIN items /\ DOMAIN u = DOMAIN t
        /\ \A i \in DOMAIN t : u[i].status = t[i].status /\ u[i].position = t[i].position
    <2>1. DOMAIN t = DOMAIN items /\ \A i \in DOMAIN t : t[i] = IF i \in DOMAIN rows THEN rows[i] ELSE items[i]
      BY <1>2, <1>6 DEF Upsert
    <2>2. PICK later, hand : later = items' /\ hand = held'[p]
      OBVIOUS
    <2>3. DOMAIN u = DOMAIN items /\ \A i \in DOMAIN u : u[i] = IF i \in DOMAIN rows THEN hand[i] ELSE later[i]
      <3>1. u = Upsert(later, hand) /\ DOMAIN later = DOMAIN items /\ DOMAIN hand = DOMAIN rows
        BY <1>2, <1>5, <2>2
      <3> QED
        BY <1>6, <3>1 DEF Upsert
    <2>4. \A i \in DOMAIN items : u[i] = Aged(t[i]) /\ t[i] \in Rows
      BY <1>3, <1>5, <2>1, <2>2, <2>3
    <2> QED
      BY <1>4, <2>1, <2>3, <2>4
  <1>8. items'[id].status = items[id].status /\ u[id].status = t[id].status
    BY <1>3, <1>4, <1>5, <1>6, <1>7
  <1>9. DenseColumn(t, items[id].status) /\ DenseColumn(t, t[id].status)
    BY <1>1, <1>2 DEF Levelled
  <1>10. DenseColumn(u, items[id].status) /\ DenseColumn(u, t[id].status)
    BY <1>7, <1>9, DenseSame
  <1> QED
    BY <1>1, <1>2, <1>5, <1>6, <1>8, <1>10 DEF Levelled

LEMMA LevelStep ==
    ASSUME IInv, LoneInv, LevelInv, MaxInFlight = 1, [Next]_vars
    PROVE  LevelInv'
  <1>1. CASE UNCHANGED vars
    BY <1>1 DEF vars, LevelInv, Levelled
  <1>2. CASE NobodySaves
    BY <1>2 DEF NobodySaves, LevelInv
  <1>3. ASSUME NEW p \in Clients, Save(p) PROVE LevelInv'
    <2>1. p \in Processes /\ Alone(p)
      BY <1>3 DEF Save, LoneInv, Processes
    <2>2. \A q \in Clients : req'[q].pc = "idle"
      BY <1>3, <2>1 DEF Save, Ends, Awaits, Idle, Alone, IInv, GoodHandlers, Processes
    <2> QED BY <2>2 DEF LevelInv
  <1> QED
    BY <1>1, <1>2, <1>3, WhoSaves, PlanLevels, TickLevels

\* With one handler in flight, a move that is saved leaves the column the ticket
\* left and the one it is in with the ranks 0, 1, 2 ..., whatever they were.
THEOREM MovesStayDense == MaxInFlight = 1 => (Spec => MoveLeavesDenseColumns)
  <1> SUFFICES ASSUME MaxInFlight = 1 PROVE Spec => MoveLeavesDenseColumns
    OBVIOUS
  <1>1. Init => IInv /\ RefInv /\ LoneInv /\ LevelInv
    BY InvInit, RefInit DEF Init, LoneInv, Alone, Knows, Idle, LevelInv, Processes
  <1>2. (IInv /\ RefInv /\ LoneInv /\ LevelInv) /\ [Next]_vars => (IInv /\ RefInv /\ LoneInv /\ LevelInv)'
    BY InvStep, RefStep, LoneStep, LevelStep
  <1>3. IInv /\ RefInv /\ LoneInv /\ LevelInv /\ [Next]_vars
          => [\A p \in Clients :
                req[p].pc = "save" /\ req'[p].pc = "idle" /\ items' # items
                  => /\ DenseColumn(items', items[req[p].id].status)
                     /\ DenseColumn(items', items'[req[p].id].status)]_vars
    <2> SUFFICES ASSUME IInv, LoneInv, LevelInv, Next, NEW p \in Clients,
                        req[p].pc = "save", req'[p].pc = "idle", items' # items
                 PROVE  /\ DenseColumn(items', items[req[p].id].status)
                        /\ DenseColumn(items', items'[req[p].id].status)
      OBVIOUS
    <2>1. \E q \in Clients : MovePlan(q) \/ Save(q)
      BY WhoSaves DEF Tick, vars, NobodySaves
    <2>2. PICK q \in Clients : Save(q)
      BY <2>1 DEF MovePlan, tables
    <2>3. q = p
      BY <2>2 DEF Save, LoneInv, Alone, Processes
    <2>4. items' = Upsert(items, held[p])
      BY <2>2, <2>3 DEF Save
    <2> QED BY <2>4 DEF LevelInv, Levelled
  <1> QED
    BY <1>1, <1>2, <1>3, PTL DEF Spec, MoveLeavesDenseColumns
-----------------------------------------------------------------------------
(***************************************************************************)
(* The hierarchy.  A new link is sound when the child is not met above the *)
(* parent: the set of what is met there is closed upward and, the child    *)
(* being outside, stays so when the link is saved.  TreeInv keeps that of  *)
(* the link a handler is about to save, and of the chain it has loaded     *)
(* that its rows are the table's and that nothing of the chain is missing  *)
(* below the cursor.                                                       *)
(***************************************************************************)
Above(nodes) == {nodes[i].parent : i \in DOMAIN nodes} \ {NoParent}

LEMMA WalkedClosed ==
    ASSUME NEW nodes, NEW id
    PROVE  /\ Walked(nodes, id) \subseteq Above(nodes)
           /\ UpClosed(nodes, Walked(nodes, id))
           /\ ParentIn(nodes, id) \in Walked(nodes, id) \cup {NoParent}
  <1>1. Walked(nodes, id) \subseteq Above(nodes)
    BY DEF Walked, Above
  <1>2. \A i : ParentIn(nodes, i) \in Above(nodes) \cup {NoParent}
    BY DEF ParentIn, Above
  <1>3. ParentIn(nodes, id) \in Walked(nodes, id) \cup {NoParent}
    BY <1>2 DEF Walked, Above
  <1>4. UpClosed(nodes, Walked(nodes, id))
    BY <1>2 DEF Walked, Above, UpClosed
  <1> QED
    BY <1>1, <1>3, <1>4

LEMMA WalkedLeast ==
    ASSUME NEW nodes, NEW id, NEW C, UpClosed(nodes, C), ParentIn(nodes, id) \in C \cup {NoParent}
    PROVE  Walked(nodes, id) \subseteq C
  <1>1. \A i : ParentIn(nodes, i) \in Above(nodes) \cup {NoParent}
    BY DEF ParentIn, Above
  <1>2. PICK D : D = C \cap Above(nodes)
    OBVIOUS
  <1>3. D \in SUBSET Above(nodes) /\ UpClosed(nodes, D) /\ ParentIn(nodes, id) \in D \cup {NoParent}
    BY <1>1, <1>2 DEF UpClosed
  <1>4. \A a \in Walked(nodes, id) : a \in D
    BY <1>3 DEF Walked, Above
  <1> QED
    BY <1>2, <1>4

Acyclic(nodes) == \A i \in DOMAIN nodes : i \notin Walked(nodes, i)

\* Who keeps its parent, or has none, closes no cycle.
LEMMA CutLinks ==
    ASSUME NEW old, NEW new, Acyclic(old),
           \A i \in DOMAIN new : new[i].parent \in {NoParent, ParentIn(old, i)}
    PROVE  Acyclic(new)
  <1> SUFFICES ASSUME NEW i \in DOMAIN new, i \in Walked(new, i) PROVE FALSE
    BY DEF Acyclic
  <1>1. \A j : ParentIn(new, j) \in {NoParent, ParentIn(old, j)}
    BY DEF ParentIn
  <1>2. UpClosed(new, Walked(old, i)) /\ ParentIn(new, i) \in Walked(old, i) \cup {NoParent}
    BY <1>1, WalkedClosed DEF UpClosed
  <1>3. i \in Walked(old, i)
    BY <1>2, WalkedLeast
  <1>4. i \in DOMAIN old
    <2>1. CASE i \notin DOMAIN old
      <3>1. UpClosed(old, {}) /\ ParentIn(old, i) = NoParent
        BY <2>1 DEF UpClosed, ParentIn
      <3> QED
        BY <1>3, <3>1, WalkedLeast
    <2> QED
      BY <2>1
  <1> QED
    BY <1>3, <1>4 DEF Acyclic

\* Nor does a link to a parent above which its child is not met.
LEMMA NewLink ==
    ASSUME NEW old, NEW new, DOMAIN new = DOMAIN old, Acyclic(old), NEW id,
           \A i \in DOMAIN new \ {id} : new[i].parent = old[i].parent,
           NEW q, ParentIn(new, id) = q, q # id, id \notin Walked(old, q)
    PROVE  Acyclic(new)
  <1> SUFFICES ASSUME NEW i \in DOMAIN new PROVE i \notin Walked(new, i)
    BY DEF Acyclic
  <1>1. PICK S : S = Walked(old, q) \cup {q}
    OBVIOUS
  <1>2. UpClosed(old, S) /\ id \notin S
    BY <1>1, WalkedClosed DEF UpClosed
  <1>3. PICK D : D = Walked(old, i)
    OBVIOUS
  <1>4. UpClosed(old, D) /\ ParentIn(old, i) \in D \cup {NoParent} /\ i \notin D
    BY <1>3, WalkedClosed DEF Acyclic
  <1>5. \A j : j # id => ParentIn(new, j) = ParentIn(old, j)
    BY DEF ParentIn
  <1>6. CASE i = id
    <2>1. UpClosed(new, S) /\ ParentIn(new, i) \in S
      BY <1>1, <1>2, <1>5, <1>6 DEF UpClosed
    <2> QED
      BY <1>2, <1>6, <2>1, WalkedLeast
  <1>7. CASE i # id /\ id \notin D
    <2>1. UpClosed(new, D) /\ ParentIn(new, i) \in D \cup {NoParent}
      BY <1>4, <1>5, <1>7 DEF UpClosed
    <2> QED
      BY <1>4, <2>1, WalkedLeast
  <1>8. CASE i # id /\ id \in D
    <2>1. i \notin S
      <3>1. ASSUME i \in S PROVE D \subseteq S
        BY <1>2, <1>3, <3>1, WalkedLeast DEF UpClosed
      <3> QED
        BY <1>2, <1>8, <3>1
    <2>2. PICK C : C = D \cup S
      OBVIOUS
    <2>3. UpClosed(new, C) /\ ParentIn(new, i) \in C \cup {NoParent}
      BY <1>1, <1>2, <1>4, <1>5, <1>8, <2>2 DEF UpClosed
    <2>4. i \notin C
      BY <1>4, <2>1, <2>2
    <2> QED
      BY <2>3, <2>4, WalkedLeast
  <1> QED
    BY <1>6, <1>7, <1>8

\* Tables with the same links have the same walks.
LEMMA SameLinks ==
    ASSUME NEW old, NEW new, \A i : ParentIn(new, i) = ParentIn(old, i), NEW id
    PROVE  Walked(new, id) = Walked(old, id)
  <1>1. UpClosed(new, Walked(old, id)) /\ ParentIn(new, id) \in Walked(old, id) \cup {NoParent}
    BY WalkedClosed DEF UpClosed
  <1>2. UpClosed(old, Walked(new, id)) /\ ParentIn(old, id) \in Walked(new, id) \cup {NoParent}
    BY WalkedClosed DEF UpClosed
  <1>3. Walked(new, id) \subseteq Walked(old, id)
    BY <1>1, WalkedLeast
  <1>4. Walked(old, id) \subseteq Walked(new, id)
    BY <1>2, WalkedLeast
  <1> QED
    BY <1>3, <1>4

\* Rows that are a table's, as far as links go.
LinkedAs(rows, table) ==
    \A i \in DOMAIN rows : i \in DOMAIN table /\ rows[i].parent = table[i].parent

\* What is met above an id in some of the rows is met above it in all of them.
LEMMA FewerRows ==
    ASSUME NEW rows, NEW table, LinkedAs(rows, table), NEW id
    PROVE  Walked(rows, id) \subseteq Walked(table, id)
  <1>1. \A i : ParentIn(rows, i) \in {NoParent, ParentIn(table, i)}
    BY DEF LinkedAs, ParentIn
  <1>2. UpClosed(rows, Walked(table, id)) /\ ParentIn(rows, id) \in Walked(table, id) \cup {NoParent}
    BY <1>1, WalkedClosed DEF UpClosed
  <1> QED
    BY <1>2, WalkedLeast

\* The chain above parent is loaded, as far as it has to be: what follows a row
\* of it, the child's own apart, is loaded, ends the chain, or is to be read next.
Loaded(child, parent, cursor, rows, table) ==
    /\ parent \in DOMAIN rows \cup {cursor}
    /\ \A i \in DOMAIN rows \ {child} :
          rows[i].parent \in DOMAIN rows \cup {NoParent, cursor} \/ rows[i].parent \notin DOMAIN table

\* A child not met in the loaded chain is not met in the table.
LEMMA WholeChain ==
    ASSUME NEW rows, NEW table, LinkedAs(rows, table), NEW child, NEW parent, NEW cursor,
           parent # NoParent, parent # child, cursor \in DOMAIN rows \cup {NoParent},
           Loaded(child, parent, cursor, rows, table), child \notin Walked(rows, parent)
    PROVE  child \notin Walked(table, parent)
  <1>1. PICK C : C = {i \in Walked(rows, parent) : i \in DOMAIN rows \/ i \notin DOMAIN table}
    OBVIOUS
  <1>2. \A i \in DOMAIN rows : ParentIn(table, i) = rows[i].parent /\ ParentIn(rows, i) = rows[i].parent
    BY DEF LinkedAs, ParentIn
  <1>3. \A i : i \notin DOMAIN table => ParentIn(table, i) = NoParent
    BY DEF ParentIn
  <1>4. ASSUME NEW i \in DOMAIN rows, i = parent \/ i \in C
        PROVE  ParentIn(table, i) \in C \cup {NoParent}
    <2>1. i # child
      BY <1>1, <1>4
    <2>2. rows[i].parent \in Walked(rows, parent) \cup {NoParent}
      BY <1>1, <1>2, <1>4, WalkedClosed DEF UpClosed
    <2>3. rows[i].parent \in DOMAIN rows \cup {NoParent} \/ rows[i].parent \notin DOMAIN table
      BY <2>1 DEF Loaded
    <2> QED
      BY <1>1, <1>2, <2>2, <2>3
  <1>5. UpClosed(table, C)
    BY <1>1, <1>3, <1>4 DEF UpClosed
  <1>6. ParentIn(table, parent) \in C \cup {NoParent}
    BY <1>4 DEF Loaded
  <1> QED
    BY <1>1, <1>5, <1>6, WalkedLeast
-----------------------------------------------------------------------------
\* What a lone handler at r knows of the links, with the rows it holds.
Traces(r, rows, table) ==
    /\ r.pc \in {"reserve", "count", "insert"} => rows[Draft].parent = NoParent
    /\ r.pc \in {"ancestors", "update", "plan", "save"} => LinkedAs(rows, table)
    /\ r.pc = "ancestors" => Loaded(r.id, r.dto.parent, r.cursor, rows, table)
    /\ r.pc = "update" =>
          \/ r.dto.parent \in {Keep, NoParent, rows[r.id].parent}
          \/ r.dto.parent # r.id /\ r.id \notin Walked(table, r.dto.parent)

TreeInv == Acyclic(items) /\ \A p \in Processes : Traces(req[p], held[p], items)

LEMMA TreeAwaits ==
    ASSUME IInv, NEW p \in Processes, Alone(p), NEW r, NEW rows, Awaits(p, r, rows),
           Traces(r, rows, items'), Acyclic(items')
    PROVE  TreeInv'
  <1>1. /\ req'[p] = r /\ held'[p] = rows
        /\ \A q \in Processes \ {p} : req'[q].pc = "idle"
    BY DEF Awaits, IInv, GoodHandlers, Alone
  <1>2. \A q \in Processes \ {p} : Traces(req'[q], held'[q], items')
    BY <1>1 DEF Traces
  <1>3. \A q \in Processes : Traces(req'[q], held'[q], items')
    BY <1>1, <1>2
  <1> QED
    BY <1>3 DEF TreeInv

\* At a place where no links are held.
LEMMA TreeElsewhere ==
    ASSUME IInv, NEW p \in Processes, Alone(p), NEW r, NEW rows, Awaits(p, r, rows),
           r.pc \in {"idle", "triage"}, Acyclic(items')
    PROVE  TreeInv'
  BY TreeAwaits DEF Traces

LEMMA TreeEnds ==
    ASSUME IInv, NEW p \in Processes, Alone(p), Ends(p), Acyclic(items')
    PROVE  TreeInv'
  BY TreeElsewhere DEF Ends, Idle

\* Saving rows linked as the table's changes no link.
LEMMA SavesLinks ==
    ASSUME NEW rows, LinkedAs(rows, items), Acyclic(items), items' \in {items, Upsert(items, rows)}
    PROVE  Acyclic(items')
  <1>1. \A i \in DOMAIN items' : items'[i].parent \in {NoParent, ParentIn(items, i)}
    BY DEF Upsert, LinkedAs, ParentIn
  <1> QED
    BY <1>1, CutLinks

\* A new ticket has no parent.
LEMMA CreateTree ==
    ASSUME IInv, RefInv, LoneInv, TreeInv, MaxInFlight = 1, NEW p \in Processes,
           \/ \E s, t, j : CreateCount(p, s, t, j)
           \/ \E t, j : Capture(p, t, j)
           \/ CreateReserve(p) \/ CaptureCount(p) \/ Insert(p)
    PROVE  TreeInv'
  <1>1. \A pc, rows : pc \in {"reserve", "count", "insert"} /\ rows[Draft].parent = NoParent
                        => Traces([Idle EXCEPT !.pc = pc], rows, items')
    BY DEF Traces, Idle
  <1>2. ASSUME NEW s, NEW t, NEW j, CreateCount(p, s, t, j) PROVE TreeInv'
    <2>1. PICK rows : /\ Awaits(p, [Idle EXCEPT !.pc = "reserve"], rows)
                      /\ rows = Row(Draft, NewRow(s, t, j, CountOf(s)))
      BY <1>2 DEF CreateCount
    <2>2. rows[Draft].parent = NoParent
      BY <2>1 DEF Row, NewRow
    <2>3. Alone(p) /\ items' = items
      BY <1>2, StartsAlone DEF CreateCount, tables
    <2>4. Traces([Idle EXCEPT !.pc = "reserve"], rows, items')
      BY <1>1, <2>2
    <2> QED
      BY <2>1, <2>3, <2>4, TreeAwaits DEF TreeInv
  <1>3. ASSUME NEW t, NEW j, Capture(p, t, j) PROVE TreeInv'
    <2>1. PICK ref, rows : /\ Awaits(p, [Idle EXCEPT !.pc = "count"], rows)
                           /\ rows = Row(Draft, [NewRow("todo", t, j, 0) EXCEPT !.reference = ref])
      BY <1>3 DEF Capture
    <2>2. rows[Draft].parent = NoParent
      BY <2>1 DEF Row, NewRow
    <2>3. Alone(p) /\ items' = items
      BY <1>3, StartsAlone DEF Capture
    <2>4. Traces([Idle EXCEPT !.pc = "count"], rows, items')
      BY <1>1, <2>2
    <2> QED
      BY <2>1, <2>3, <2>4, TreeAwaits DEF TreeInv
  <1>4. CASE CreateReserve(p) \/ CaptureCount(p) \/ Insert(p)
    <2>1. PICK draft : draft = held[p][Draft]
      OBVIOUS
    <2>2. /\ Alone(p) /\ req[p].pc \in {"reserve", "count", "insert"}
          /\ draft \in Rows /\ draft.parent = NoParent
      BY <1>4, <2>1, UnderWay DEF CreateReserve, CaptureCount, Insert, TreeInv, Traces,
                                  IInv, GoodHandlers, GoodHandler, GoodTable, GoodRow
    <2>3. CASE CreateReserve(p)
      <3>1. PICK ref, rows : /\ Awaits(p, [Idle EXCEPT !.pc = "insert"], rows)
                             /\ rows = Row(Draft, [draft EXCEPT !.reference = ref])
        BY <2>1, <2>3 DEF CreateReserve
      <3>2. rows[Draft].parent = NoParent
        BY <2>2, <3>1 DEF Row, Rows
      <3>3. Traces([Idle EXCEPT !.pc = "insert"], rows, items')
        BY <1>1, <3>2
      <3> QED
        BY <2>2, <2>3, <3>1, <3>3, TreeAwaits DEF CreateReserve, TreeInv
    <2>4. CASE CaptureCount(p)
      <3>1. PICK at, rows : /\ Awaits(p, [Idle EXCEPT !.pc = "insert"], rows)
                            /\ rows = Row(Draft, [draft EXCEPT !.position = at])
        BY <2>1, <2>4 DEF CaptureCount
      <3>2. rows[Draft].parent = NoParent
        BY <2>2, <3>1 DEF Row, Rows
      <3>3. Traces([Idle EXCEPT !.pc = "insert"], rows, items')
        BY <1>1, <3>2
      <3> QED
        BY <2>2, <2>4, <3>1, <3>3, TreeAwaits DEF CaptureCount, TreeInv, tables
    <2>5. CASE Insert(p)
      <3>1. items' = Upsert(items, Row(nextId, draft)) /\ Ends(p)
        BY <2>1, <2>5 DEF Insert
      <3>2. \A i \in DOMAIN items' : items'[i].parent \in {NoParent, ParentIn(items, i)}
        BY <2>2, <3>1 DEF Upsert, Row, ParentIn
      <3> QED
        BY <2>2, <3>1, <3>2, CutLinks, TreeEnds DEF TreeInv
    <2> QED
      BY <1>4, <2>3, <2>4, <2>5
  <1> QED
    BY <1>2, <1>3, <1>4

\* A chain is loaded upward, its child first; what the verdict lets through is
\* the link that is then saved.
LEMMA UpdateTree ==
    ASSUME IInv, LoneInv, TreeInv, MaxInFlight = 1, NEW p \in Processes,
           \/ \E i \in Ids, d \in Dtos : UpdateFind(p, i, d)
           \/ ReadAncestor(p) \/ ParentVerdict(p) \/ UpdateSave(p)
    PROVE  TreeInv'
  <1>1. ASSUME NEW i \in Ids, NEW d \in Dtos, UpdateFind(p, i, d) PROVE TreeInv'
    <2>1. PICK walks, r, rows :
             /\ walks = (d.parent \notin {Keep, NoParent, items[i].parent})
             /\ r = [pc |-> IF walks THEN "ancestors" ELSE "update", id |-> i, dto |-> d,
                     cursor |-> IF walks THEN d.parent ELSE NoParent]
             /\ rows = Row(i, items[i])
             /\ Awaits(p, r, rows)
      BY <1>1 DEF UpdateFind
    <2>2. Alone(p) /\ items' = items /\ i \in DOMAIN items
      BY <1>1, StartsAlone DEF UpdateFind, tables
    <2>3. LinkedAs(rows, items)
      BY <2>1, <2>2 DEF LinkedAs, Row
    <2>4. Traces(r, rows, items)
      BY <2>1, <2>3 DEF Traces, Loaded, Row
    <2> QED
      BY <2>1, <2>2, <2>4, TreeAwaits DEF TreeInv
  <1>2. ASSUME ReadAncestor(p) \/ ParentVerdict(p) \/ UpdateSave(p)
        PROVE  /\ Alone(p) /\ req[p].pc \in {"ancestors", "update"}
               /\ LinkedAs(held[p], items) /\ req[p] \in Requests /\ req[p].id \in DOMAIN held[p]
               /\ Traces(req[p], held[p], items)
    BY <1>2, UnderWay DEF ReadAncestor, ParentVerdict, UpdateSave, TreeInv, Traces,
                          IInv, GoodHandlers, GoodHandler
  <1>3. CASE ReadAncestor(p)
    <2>1. PICK r, rows : r = req[p] /\ rows = held[p]
      OBVIOUS
    <2>2. /\ items' = items /\ r.pc = "ancestors" /\ r \in Requests /\ LinkedAs(rows, items)
          /\ Loaded(r.id, r.dto.parent, r.cursor, rows, items)
          /\ r.cursor \notin DOMAIN rows \cup {NoParent}
      BY <1>2, <1>3, <2>1 DEF ReadAncestor, tables, Traces
    <2>3. CASE r.cursor \in DOMAIN items
      <3>1. PICK next, all : /\ next = [r EXCEPT !.cursor = items[r.cursor].parent]
                             /\ all = Upsert(rows, Row(r.cursor, items[r.cursor]))
                             /\ Awaits(p, next, all)
        BY <1>3, <2>1, <2>3 DEF ReadAncestor
      <3>2. /\ next.pc = "ancestors" /\ next.id = r.id /\ next.dto = r.dto
            /\ next.cursor = items[r.cursor].parent
        BY <2>2, <3>1 DEF Requests
      <3>3. /\ DOMAIN all = DOMAIN rows \cup {r.cursor}
            /\ all[r.cursor] = items[r.cursor]
            /\ \A j \in DOMAIN rows : all[j] = rows[j]
        BY <2>2, <3>1 DEF Upsert, Row
      <3>4. LinkedAs(all, items)
        BY <2>2, <2>3, <3>3 DEF LinkedAs
      <3>5. Loaded(r.id, r.dto.parent, next.cursor, all, items)
        BY <2>2, <3>2, <3>3 DEF Loaded
      <3>6. Traces(next, all, items)
        BY <3>2, <3>4, <3>5 DEF Traces
      <3> QED
        BY <1>2, <1>3, <2>2, <3>1, <3>6, TreeAwaits DEF TreeInv
    <2>4. CASE r.cursor \notin DOMAIN items /\ r.cursor = r.dto.parent
      BY <1>2, <1>3, <2>1, <2>2, <2>4, TreeEnds DEF ReadAncestor, TreeInv
    <2>5. CASE r.cursor \notin DOMAIN items /\ r.cursor # r.dto.parent
      <3>1. PICK next : next = [r EXCEPT !.cursor = NoParent] /\ Awaits(p, next, rows)
        BY <1>3, <2>1, <2>5 DEF ReadAncestor
      <3>2. /\ next.pc = "ancestors" /\ next.id = r.id /\ next.dto = r.dto
            /\ next.cursor = NoParent
        BY <2>2, <3>1 DEF Requests
      <3>3. Loaded(r.id, r.dto.parent, NoParent, rows, items)
        BY <2>2, <2>5 DEF Loaded
      <3>4. Traces(next, rows, items)
        BY <2>2, <3>2, <3>3 DEF Traces
      <3> QED
        BY <1>2, <1>3, <2>2, <3>1, <3>4, TreeAwaits DEF TreeInv
    <2> QED
      BY <2>3, <2>4, <2>5
  <1>4. CASE ParentVerdict(p)
    <2>1. PICK r, rows : r = req[p] /\ rows = held[p]
      OBVIOUS
    <2>2. /\ items' = items /\ r.pc = "ancestors" /\ r \in Requests /\ LinkedAs(rows, items)
          /\ Loaded(r.id, r.dto.parent, r.cursor, rows, items)
          /\ r.cursor \in DOMAIN rows \cup {NoParent} /\ r.id \in DOMAIN rows
          /\ r.dto.parent \in Ids
      BY <1>2, <1>4, <2>1 DEF ParentVerdict, tables, Traces, IInv, GoodHandlers, GoodHandler
    <2>3. CASE Ends(p)
      BY <1>2, <1>4, <2>2, <2>3, TreeEnds DEF TreeInv
    <2>4. CASE CheckParent(r.id, rows[r.id].type, r.dto.parent, rows) = "legal"
      <3>1. PICK next, row : /\ next = [r EXCEPT !.pc = "update", !.cursor = NoParent]
                             /\ row = Row(r.id, rows[r.id]) /\ Awaits(p, next, row)
        BY <1>4, <2>1, <2>4 DEF ParentVerdict
      <3>2. next.pc = "update" /\ next.id = r.id /\ next.dto = r.dto
        BY <2>2, <3>1 DEF Requests
      <3>3. r.dto.parent # r.id /\ r.id \notin Walked(rows, r.dto.parent)
        BY <2>4 DEF CheckParent
      <3>4. r.dto.parent # NoParent
        BY <2>2, WorkItemsAssumption DEF Ids, NoParent
      <3>5. r.id \notin Walked(items, r.dto.parent)
        BY <2>2, <3>3, <3>4, WholeChain
      <3>6. LinkedAs(row, items)
        BY <2>2, <3>1 DEF LinkedAs, Row
      <3>7. Traces(next, row, items)
        BY <3>2, <3>3, <3>5, <3>6 DEF Traces
      <3> QED
        BY <1>2, <1>4, <2>2, <3>1, <3>7, TreeAwaits DEF TreeInv
    <2> QED
      BY <1>4, <2>1, <2>3, <2>4 DEF ParentVerdict
  <1>5. CASE UpdateSave(p)
    <2>1. PICK id, dto, found, row, after :
             /\ id = req[p].id /\ dto = req[p].dto /\ found = held[p][id]
             /\ row = Stamped(Assigned(found, dto), found.status)
             /\ after = Upsert(items, Row(id, row))
      OBVIOUS
    <2>2. /\ found \in Rows /\ id \in DOMAIN items /\ found.parent = items[id].parent
          /\ \/ dto.parent \in {Keep, NoParent, found.parent}
             \/ dto.parent # id /\ id \notin Walked(items, dto.parent)
          /\ req[p].pc = "update"
      BY <1>2, <1>5, <2>1 DEF UpdateSave, Traces, LinkedAs, IInv, GoodHandlers, GoodHandler,
                              GoodTable, GoodRow
    <2>3. row.parent = Given(dto.parent, found.parent)
      BY <2>1, <2>2 DEF Stamped, Assigned, Rows
    <2>4. /\ DOMAIN after = DOMAIN items /\ after[id] = row
          /\ \A i \in DOMAIN items \ {id} : after[i] = items[i]
      BY <2>1, <2>2 DEF Upsert, Row
    <2>5. Acyclic(after)
      <3>1. CASE dto.parent \in {Keep, NoParent, found.parent}
        <4>1. \A i \in DOMAIN after : after[i].parent \in {NoParent, ParentIn(items, i)}
          BY <2>2, <2>3, <2>4, <3>1 DEF Given, ParentIn
        <4> QED
          BY <4>1, CutLinks DEF TreeInv
      <3>2. CASE dto.parent \notin {Keep, NoParent, found.parent}
        <4>1. ParentIn(after, id) = dto.parent
          BY <2>2, <2>3, <2>4, <3>2 DEF Given, ParentIn
        <4> QED
          BY <2>2, <2>4, <3>2, <4>1, NewLink DEF TreeInv
      <3> QED
        BY <3>1, <3>2
    <2>6. items' \in {items, after} /\ Ends(p)
      BY <1>5, <2>1 DEF UpdateSave
    <2> QED
      BY <1>2, <1>5, <2>5, <2>6, TreeEnds DEF TreeInv
  <1> QED
    BY <1>1, <1>3, <1>4, <1>5

\* Moves, the daily run and decisions save the links they read.
LEMMA MoveTree ==
    ASSUME IInv, LoneInv, TreeInv, MaxInFlight = 1, NEW p \in Processes,
           \/ \E i \in Ids, s \in Statuses, at \in 0 .. MaxItems : MoveFind(p, i, s, at)
           \/ MovePlan(p) \/ Save(p)
    PROVE  TreeInv'
  <1>1. \A i, rows : LinkedAs(rows, items) => Traces([Idle EXCEPT !.pc = "save", !.id = i], rows, items)
    BY DEF Traces, Idle
  <1>2. ASSUME NEW i \in Ids, NEW s \in Statuses, NEW at \in 0 .. MaxItems, MoveFind(p, i, s, at)
        PROVE  TreeInv'
    <2>1. PICK r, rows : Awaits(p, r, rows) /\ r.pc = "plan" /\ rows = Row(i, items[i])
      <3>1. PICK r : r = [Idle EXCEPT !.pc = "plan", !.id = i, !.dto = [NoDto EXCEPT !.status = s, !.at = at]]
        OBVIOUS
      <3>2. r.pc = "plan"
        BY <3>1 DEF Idle
      <3>3. Awaits(p, r, Row(i, items[i]))
        BY <1>2, <3>1 DEF MoveFind
      <3> QED
        BY <3>2, <3>3
    <2>2. Alone(p) /\ items' = items /\ i \in DOMAIN items
      BY <1>2, StartsAlone DEF MoveFind, tables
    <2>3. Traces(r, rows, items)
      BY <2>1, <2>2 DEF Traces, LinkedAs, Row
    <2> QED
      BY <2>1, <2>2, <2>3, TreeAwaits DEF TreeInv
  <1>3. CASE MovePlan(p)
    <2>1. PICK r, found : r = req[p] /\ found = held[p][r.id]
      OBVIOUS
    <2>2. /\ Alone(p) /\ items' = items /\ r.pc = "plan" /\ GoodHandler(r, held[p])
          /\ LinkedAs(held[p], items)
      BY <1>3, <2>1, UnderWay DEF MovePlan, tables, IInv, GoodHandlers, TreeInv, Traces
    <2>3. r.id \in DOMAIN items /\ found \in Rows /\ found.parent = items[r.id].parent
      BY <2>1, <2>2 DEF GoodHandler, GoodTable, GoodRow, LinkedAs
    <2>4. PICK plan : plan = PlanMove(items, r.id, r.dto.status, r.dto.at)
      OBVIOUS
    <2>5. DOMAIN plan \subseteq DOMAIN items
      <3>1. r.dto.status \in Statuses /\ r.dto.at \in Nat
        BY <2>2, WorkItemsAssumption DEF GoodHandler, Requests, Dtos
      <3>2. DOMAIN items \subseteq Ids /\ \A i \in DOMAIN items : items[i].status \in Statuses
        BY DEF IInv, GoodTables, GoodTable, GoodRow, Rows
      <3> QED
        BY <2>4, <3>1, <3>2, PlanMoveTyped
    <2>6. PICK rows : rows = MovedRows(r.id, found, plan)
      OBVIOUS
    <2>7. \A i \in DOMAIN items : items[i] \in Rows
      BY DEF IInv, GoodTables, GoodTable, GoodRow
    <2>8. LinkedAs(rows, items)
      <3> SUFFICES ASSUME NEW i \in DOMAIN rows
                   PROVE  i \in DOMAIN items /\ rows[i].parent = items[i].parent
        BY DEF LinkedAs
      <3>1. i \in DOMAIN plan /\ i \in DOMAIN items
        BY <2>5, <2>6 DEF MovedRows
      <3>2. CASE i = r.id
        <4>1. PICK placed : /\ placed = [found EXCEPT !.status = plan[i].status, !.position = plan[i].position]
                            /\ rows[i] = Stamped(placed, found.status)
          BY <2>6, <3>1, <3>2 DEF MovedRows
        <4> QED
          BY <2>3, <3>1, <3>2, <4>1 DEF Stamped, Rows
      <3>3. CASE i # r.id
        <4>1. rows[i] = [items[i] EXCEPT !.status = plan[i].status, !.position = plan[i].position]
          BY <2>6, <3>1, <3>3 DEF MovedRows
        <4> QED
          BY <2>7, <3>1, <4>1 DEF Rows
      <3> QED
        BY <3>2, <3>3
    <2>9. Ends(p) \/ Awaits(p, [Idle EXCEPT !.pc = "save", !.id = r.id], rows)
      BY <1>3, <2>1, <2>4, <2>6 DEF MovePlan
    <2>10. Traces([Idle EXCEPT !.pc = "save", !.id = r.id], rows, items)
      BY <1>1, <2>8
    <2> QED
      BY <2>2, <2>9, <2>10, TreeAwaits, TreeEnds DEF TreeInv
  <1>4. CASE Save(p)
    <2>1. Alone(p) /\ LinkedAs(held[p], items) /\ items' \in {items, Upsert(items, held[p])}
      BY <1>4, UnderWay DEF Save, TreeInv, Traces
    <2>2. Acyclic(items')
      BY <2>1, SavesLinks DEF TreeInv
    <2> QED
      BY <1>4, <2>1, <2>2, TreeEnds DEF Save
  <1> QED
    BY <1>2, <1>3, <1>4

LEMMA CloserTree ==
    ASSUME IInv, LoneInv, TreeInv, MaxInFlight = 1, CloserFind
    PROVE  TreeInv'
  <1>1. PICK rows : rows = [i \in Expired |-> [items[i] EXCEPT !.status = "closed", !.closedAt = 0]]
    OBVIOUS
  <1>2. Closer \in Processes
    BY DEF Processes
  <1>3. /\ Alone(Closer) /\ items' = items
        /\ Awaits(Closer, [Idle EXCEPT !.pc = "save"], rows)
    BY <1>1, <1>2, StartsAlone DEF CloserFind, tables
  <1>4. \A i \in DOMAIN items : items[i] \in Rows
    BY DEF IInv, GoodTables, GoodTable, GoodRow
  <1>5. LinkedAs(rows, items)
    BY <1>1, <1>4 DEF LinkedAs, Expired, Rows
  <1>6. Traces([Idle EXCEPT !.pc = "save"], rows, items)
    BY <1>5 DEF Traces, Idle
  <1> QED
    BY <1>2, <1>3, <1>6, TreeAwaits DEF TreeInv

LEMMA TriageTree ==
    ASSUME IInv, LoneInv, TreeInv, MaxInFlight = 1, NEW p \in Processes,
           \/ \E is \in SUBSET Ids, d \in {"todo", "closed"} : TriageFind(p, is, d)
           \/ TriageUpdate(p)
    PROVE  TreeInv'
  <1>1. ASSUME NEW is \in SUBSET Ids, NEW d \in {"todo", "closed"}, TriageFind(p, is, d)
        PROVE  TreeInv'
    <2>1. PICK r, rows : Awaits(p, r, rows) /\ r.pc = "triage"
      <3>1. PICK r : r = [Idle EXCEPT !.pc = "triage", !.dto = [NoDto EXCEPT !.status = d]]
        OBVIOUS
      <3>2. r.pc = "triage"
        BY <3>1 DEF Idle
      <3>3. \E rows : Awaits(p, r, rows)
        BY <1>1, <3>1 DEF TriageFind
      <3> QED
        BY <3>2, <3>3
    <2>2. Alone(p) /\ items' = items
      BY <1>1, StartsAlone DEF TriageFind, tables
    <2> QED
      BY <2>1, <2>2, TreeElsewhere DEF TreeInv
  <1>2. CASE TriageUpdate(p)
    <2>1. Alone(p) /\ Ends(p)
      BY <1>2, UnderWay DEF TriageUpdate
    <2>2. \A i \in DOMAIN items : items[i] \in Rows
      BY DEF IInv, GoodTables, GoodTable, GoodRow
    <2>3. \A d : \A row \in Rows : Decided(row, d).parent = row.parent
      BY DEF Decided, Rows
    <2>4. \A i \in DOMAIN items' : items'[i].parent \in {NoParent, ParentIn(items, i)}
      BY <1>2, <2>2, <2>3 DEF TriageUpdate, ParentIn
    <2> QED
      BY <2>1, <2>4, CutLinks, TreeEnds DEF TreeInv
  <1> QED
    BY <1>1, <1>2

LEMMA RemoveTree ==
    ASSUME IInv, LoneInv, TreeInv, MaxInFlight = 1, NEW p \in Processes, NEW id \in Ids, RemoveTask(p, id)
    PROVE  TreeInv'
  <1>1. /\ \A q \in Processes : req[q].pc = "idle"
        /\ req' = req /\ held' = held
    BY StartsAlone DEF RemoveTask, Alone, MayStart
  <1>2. \A i \in DOMAIN items : items[i] \in Rows
    BY DEF IInv, GoodTables, GoodTable, GoodRow
  <1>3. \A i \in DOMAIN items' : items'[i].parent \in {NoParent, ParentIn(items, i)}
    BY <1>2 DEF RemoveTask, ParentIn, Rows
  <1>4. Acyclic(items')
    BY <1>3, CutLinks DEF TreeInv
  <1> QED
    BY <1>1, <1>4 DEF TreeInv, Traces

LEMMA TickTree ==
    ASSUME IInv, TreeInv, Tick
    PROVE  TreeInv'
  <1>1. \A row \in Rows : Aged(row).parent = row.parent
    BY DEF Aged, Rows
  <1>2. /\ \A i \in DOMAIN items : items[i] \in Rows
        /\ \A p \in Processes : \A i \in DOMAIN held[p] : held[p][i] \in Rows
    BY DEF IInv, GoodTables, GoodHandlers, GoodHandler, GoodTable, GoodRow
  <1>3. /\ DOMAIN items' = DOMAIN items
        /\ \A i \in DOMAIN items : items'[i].parent = items[i].parent
        /\ req' = req
        /\ \A p \in Processes : /\ DOMAIN held'[p] = DOMAIN held[p]
                                /\ \A i \in DOMAIN held[p] : held'[p][i].parent = held[p][i].parent
    BY <1>1, <1>2 DEF Tick, AgedTable
  <1>4. \A i : ParentIn(items', i) = ParentIn(items, i)
    BY <1>3 DEF ParentIn
  <1>5. \A i : Walked(items', i) = Walked(items, i)
    BY <1>4, SameLinks
  <1>6. ASSUME NEW p \in Processes PROVE Traces(req'[p], held'[p], items')
    <2>1. Traces(req[p], held[p], items) /\ GoodHandler(req[p], held[p])
      BY DEF TreeInv, IInv, GoodHandlers
    <2>2. req[p].pc \in {"reserve", "count", "insert"} => held'[p][Draft].parent = NoParent
      BY <1>3, <2>1 DEF Traces, GoodHandler
    <2>3. req[p].pc \in {"ancestors", "update", "plan", "save"} => LinkedAs(held'[p], items')
      BY <1>3, <2>1 DEF Traces, LinkedAs
    <2>4. req[p].pc = "ancestors"
             => Loaded(req[p].id, req[p].dto.parent, req[p].cursor, held'[p], items')
      BY <1>3, <2>1 DEF Traces, Loaded
    <2>5. req[p].pc = "update" =>
             \/ req[p].dto.parent \in {Keep, NoParent, held'[p][req[p].id].parent}
             \/ req[p].dto.parent # req[p].id /\ req[p].id \notin Walked(items', req[p].dto.parent)
      BY <1>3, <1>5, <2>1 DEF Traces, GoodHandler
    <2> QED
      BY <1>3, <2>2, <2>3, <2>4, <2>5 DEF Traces
  <1>7. Acyclic(items')
    BY <1>3, <1>5 DEF TreeInv, Acyclic
  <1> QED
    BY <1>6, <1>7 DEF TreeInv

LEMMA TreeStep ==
    ASSUME IInv, RefInv, LoneInv, TreeInv, MaxInFlight = 1, [Next]_vars
    PROVE  TreeInv'
  <1>1. workload \in Workloads /\ Clients \subseteq Processes
    BY DEF IInv, GoodTables, Processes
  <1>2. /\ workload.statuses \subseteq Statuses
        /\ \A at \in 0 .. workload.tickets : at \in 0 .. MaxItems
    BY <1>1, WorkItemsAssumption DEF Statuses
  <1>3. ASSUME NEW p \in Clients, Request(p) PROVE TreeInv'
    <2>1. p \in Processes
      BY <1>1
    <2>2. CASE \E s \in workload.statuses \cup {"todo"}, t \in workload.types \cup {"task"},
                  j \in Projects : CreateCount(p, s, t, j)
      BY <2>1, <2>2, CreateTree
    <2>3. CASE \E t \in workload.types \cup {"task"}, j \in Projects \cup {NoProject} :
                  Capture(p, t, j)
      BY <2>1, <2>3, CreateTree
    <2>4. CASE \E i \in Ids, d \in UpdateDtos : UpdateFind(p, i, d)
      BY <1>1, <2>1, <2>4, UpdateDtosTyped, UpdateTree
    <2>5. CASE \E i \in Ids, s \in workload.statuses, at \in 0 .. workload.tickets :
                  MoveFind(p, i, s, at)
      BY <1>2, <2>1, <2>5, MoveTree
    <2>6. CASE \E is \in SUBSET Ids, d \in {"todo", "closed"} : TriageFind(p, is, d)
      BY <2>1, <2>6, TriageTree
    <2>7. CASE \E i \in Ids : RemoveTask(p, i)
      BY <2>1, <2>7, RemoveTree
    <2> QED
      BY <1>3, <2>2, <2>3, <2>4, <2>5, <2>6, <2>7 DEF Request
  <1>4. ASSUME NEW p \in Clients, Step(p) PROVE TreeInv'
    <2>1. p \in Processes
      BY <1>1
    <2> QED
      BY <1>4, <2>1, CreateTree, UpdateTree, MoveTree, TriageTree DEF Step
  <1>5. CASE UNCHANGED vars
    BY <1>5 DEF vars, TreeInv
  <1> QED
    BY <1>3, <1>4, <1>5, MoveTree, CloserTree, TickTree DEF Next

\* With one handler in flight, no ticket ever comes to stand above itself, and
\* checkParent refuses as a cycle only what would close one: the chain loaded
\* row by row is enough of the table for both.
THEOREM HierarchyStaysAForest == MaxInFlight = 1 => (Spec => []CyclesAndOnlyCyclesRefused)
  <1> SUFFICES ASSUME MaxInFlight = 1 PROVE Spec => []CyclesAndOnlyCyclesRefused
    OBVIOUS
  <1>1. Init => IInv /\ RefInv /\ LoneInv /\ TreeInv
    BY InvInit, RefInit DEF Init, LoneInv, Alone, Knows, Idle, TreeInv, Acyclic, Traces, EmptyTable
  <1>2. (IInv /\ RefInv /\ LoneInv /\ TreeInv) /\ [Next]_vars => (IInv /\ RefInv /\ LoneInv /\ TreeInv)'
    BY InvStep, RefStep, LoneStep, TreeStep
  <1>3. TreeInv => CyclesAndOnlyCyclesRefused
    <2> SUFFICES ASSUME TreeInv, NEW p \in Clients, req[p].pc = "ancestors",
                        CheckParent(req[p].id, held[p][req[p].id].type, req[p].dto.parent, held[p]) = "cycle"
                 PROVE  req[p].id \in Walked(items, req[p].dto.parent)
      BY DEF TreeInv, Acyclic, CyclesAndOnlyCyclesRefused
    <2>1. LinkedAs(held[p], items)
      BY DEF TreeInv, Traces, Processes
    <2>2. req[p].id \in Walked(held[p], req[p].dto.parent)
      BY DEF CheckParent
    <2> QED
      BY <2>1, <2>2, FewerRows
  <1> QED
    BY <1>1, <1>2, <1>3, PTL DEF Spec
=============================================================================
