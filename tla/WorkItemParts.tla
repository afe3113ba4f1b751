---------------------------- MODULE WorkItemParts ----------------------------
(***************************************************************************)
(* What hangs on a ticket: attachments, each a row and a file of the same  *)
(* name on disk, and subtasks in their order (work-items.service.ts,       *)
(* work-item-attachment-storage.ts).  The disk knows no transaction, and a *)
(* deleted ticket takes its rows along, not its files.                     *)
(***************************************************************************)
EXTENDS Requests

CONSTANTS
    Tickets, PartIds,
    MaxAttachments      \* MAX_ATTACHMENTS_PER_TICKET

VARIABLES
    tickets,        \* work_items: id -> row
    closed,         \* the tickets whose status is closed
    attachments,    \* work_item_attachments: id -> ticket
    files,          \* the names in ATTACHMENTS_DIR
    subtasks        \* work_item_subtasks: id -> [ticket, done, position]

parts == <<closed, attachments, files, subtasks>>

PartsInit ==
    closed = {} /\ attachments = << >> /\ files = {} /\ subtasks = << >>

\* findOne and assertMutable.
Mutable(t) == t \in DOMAIN tickets \ closed

OfTicket(table, t) == {p \in DOMAIN table : table[p] = t}

SubtasksOf(t) == {s \in DOMAIN subtasks : subtasks[s].ticket = t}

NewFile(id, table) == Unused(id, table) /\ id \notin files

\* The board or the daily run closes a ticket.
Close(t) ==
    /\ Mutable(t)
    /\ closed' = closed \cup {t}
    /\ UNCHANGED <<tickets, attachments, files, subtasks, req, mode>>

\* ON DELETE CASCADE
PartsFollow(t) ==
    /\ closed' = closed \ {t}
    /\ attachments' = Without(attachments, OfTicket(attachments, t))
    /\ subtasks' = Without(subtasks, SubtasksOf(t))
    /\ UNCHANGED files

-----------------------------------------------------------------------------
\* addAttachment(): the ticket, how many it has, the row, the file.
AddAttachment(h, t) ==
    /\ MayStart(h) /\ Mutable(t)
    /\ Awaits(h, [at |-> "count attachments", ticket |-> t])
    /\ UNCHANGED <<tickets, parts>>

\* Mutant: one too many is counted in.
CountAttachmentsLoosely(h) ==
    /\ At(h, "count attachments")
    /\ IF Cardinality(OfTicket(attachments, req[h].ticket)) > MaxAttachments THEN Ends(h)
       ELSE Awaits(h, [req[h] EXCEPT !.at = "save attachment"])
    /\ UNCHANGED <<tickets, parts>>

CountAttachments(h) ==
    /\ At(h, "count attachments")
    /\ IF Cardinality(OfTicket(attachments, req[h].ticket)) >= MaxAttachments THEN Ends(h)
       ELSE Awaits(h, [req[h] EXCEPT !.at = "save attachment"])
    /\ UNCHANGED <<tickets, parts>>

\* A row of a deleted ticket is refused by its foreign key.
SaveAttachment(h) ==
    /\ At(h, "save attachment")
    /\ IF req[h].ticket \notin DOMAIN tickets THEN Ends(h) /\ UNCHANGED attachments
       ELSE \E id \in PartIds :
              /\ NewFile(id, attachments)
              /\ attachments' = With(attachments, id, req[h].ticket)
              /\ Awaits(h, [at |-> "write file", id |-> id])
    /\ UNCHANGED <<tickets, closed, files, subtasks>>

WriteFile(h) ==
    /\ At(h, "write file")
    /\ \/ files' = files \cup {req[h].id} /\ Ends(h)
       \/ "write" \in mode.faults /\ Awaits(h, [req[h] EXCEPT !.at = "unsave"]) /\ UNCHANGED files
    /\ UNCHANGED <<tickets, closed, attachments, subtasks>>

Unsave(h) ==
    /\ At(h, "unsave")
    /\ attachments' = Without(attachments, {req[h].id})
    /\ Ends(h)
    /\ UNCHANGED <<tickets, closed, files, subtasks>>

\* removeAttachment(): the ticket, the attachment, the row, the file.
RemoveAttachment(h, t, id) ==
    /\ MayStart(h) /\ Mutable(t)
    /\ Awaits(h, [at |-> "find attachment", ticket |-> t, id |-> id])
    /\ UNCHANGED <<tickets, parts>>

FindAttachment(h) ==
    /\ At(h, "find attachment")
    /\ IF req[h].id \in OfTicket(attachments, req[h].ticket)
       THEN Awaits(h, [req[h] EXCEPT !.at = "remove row"]) ELSE Ends(h)
    /\ UNCHANGED <<tickets, parts>>

RemoveRow(h) ==
    /\ At(h, "remove row")
    /\ attachments' = Without(attachments, {req[h].id})
    /\ Awaits(h, [req[h] EXCEPT !.at = "unlink"])
    /\ UNCHANGED <<tickets, closed, files, subtasks>>

\* Whatever unlink answers is swallowed.
Unlink(h) ==
    /\ At(h, "unlink")
    /\ files' \in {files \ {req[h].id}} \cup (IF "unlink" \in mode.faults THEN {files} ELSE {})
    /\ Ends(h)
    /\ UNCHANGED <<tickets, closed, attachments, subtasks>>

\* The process stops: what was in flight is gone.
Stops ==
    /\ "crash" \in mode.faults /\ \E h \in Handlers : req[h] # Idle
    /\ req' = [h \in Handlers |-> Idle]
    /\ UNCHANGED <<tickets, parts, mode>>

-----------------------------------------------------------------------------
\* addSubtask(): the ticket, how many it has, the row at the end.
AddSubtask(h, t) ==
    /\ MayStart(h) /\ Mutable(t)
    /\ Awaits(h, [at |-> "count subtasks", ticket |-> t])
    /\ UNCHANGED <<tickets, parts>>

CountSubtasks(h) ==
    /\ At(h, "count subtasks")
    /\ Awaits(h, [at |-> "save subtask", ticket |-> req[h].ticket,
                  position |-> Cardinality(SubtasksOf(req[h].ticket))])
    /\ UNCHANGED <<tickets, parts>>

SaveSubtask(h) ==
    /\ At(h, "save subtask")
    /\ IF req[h].ticket \notin DOMAIN tickets THEN UNCHANGED subtasks
       ELSE \E id \in PartIds :
              /\ Unused(id, subtasks)
              /\ subtasks' = With(subtasks, id,
                               [ticket |-> req[h].ticket, done |-> FALSE, position |-> req[h].position])
    /\ Ends(h)
    /\ UNCHANGED <<tickets, closed, attachments, files>>

\* updateSubtask(): the row, its ticket, the whole row.
UpdateSubtask(h, id, done) ==
    /\ MayStart(h)
    /\ id \in DOMAIN subtasks
    /\ Awaits(h, [at |-> "its ticket", id |-> id, ticket |-> subtasks[id].ticket,
                  row |-> [subtasks[id] EXCEPT !.done = done]])
    /\ UNCHANGED <<tickets, parts>>

ItsTicket(h) ==
    /\ At(h, "its ticket")
    /\ IF Mutable(req[h].ticket) THEN Awaits(h, [req[h] EXCEPT !.at = "resave subtask"]) ELSE Ends(h)
    /\ UNCHANGED <<tickets, parts>>

ResaveSubtask(h) ==
    /\ At(h, "resave subtask")
    /\ subtasks' = IF req[h].ticket \in DOMAIN tickets THEN With(subtasks, req[h].id, req[h].row)
                   ELSE subtasks
    /\ Ends(h)
    /\ UNCHANGED <<tickets, closed, attachments, files>>

PartsRequest(h) ==
    \/ /\ "attachments" \in mode.parts
       /\ \E t \in mode.tickets : AddAttachment(h, t) \/ \E id \in DOMAIN attachments : RemoveAttachment(h, t, id)
    \/ /\ "subtasks" \in mode.parts
       /\ \/ \E t \in mode.tickets : AddSubtask(h, t)
          \/ \E id \in DOMAIN subtasks, done \in BOOLEAN : UpdateSubtask(h, id, done)

PartsStep(h) ==
    \/ CountAttachments(h) \/ SaveAttachment(h) \/ WriteFile(h) \/ Unsave(h)
    \/ FindAttachment(h) \/ RemoveRow(h) \/ Unlink(h)
    \/ CountSubtasks(h) \/ SaveSubtask(h) \/ ItsTicket(h) \/ ResaveSubtask(h)

-----------------------------------------------------------------------------
\* getAttachmentFile(): a row whose file is not there answers "fichier
\* indisponible".
Unavailable(id) == id \in DOMAIN attachments \ files

\* "Maximum 5 pieces jointes par ticket", which requests that overlap pass by no
\* more than their number; an attachment that is listed can be read once its
\* upload is over, whatever fails, is removed or deleted meanwhile, unless the
\* process stops between the row and the file; and subtasks added one after the
\* other stand in the order they came.
PartsStand ==
    /\ \A t \in Tickets :
          Cardinality(OfTicket(attachments, t)) < MaxAttachments + Cardinality(mode.handlers)
    /\ "crash" \in mode.faults
         \/ \A id \in PartIds : Unavailable(id) =>
                \E h \in Handlers : (At(h, "write file") \/ At(h, "unsave")) /\ req[h].id = id
    /\ Orderly => \A t \in Tickets :
          {subtasks[s].position : s \in SubtasksOf(t)} = 0 .. Cardinality(SubtasksOf(t)) - 1
=============================================================================
