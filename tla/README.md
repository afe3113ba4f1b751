# Nola Studio HQ backend: TLA+ models, checks and proofs

The backend is a NestJS service over one relational database. It keeps the
tickets of the team, the releases, documents and objectives they come from, their
branches on GitHub, the money documents of the company, the invoices and the
tenants of its products, the support desk, and the console through which all this
is reached; on the platform's bus it registers itself, projects who is alive and
tells of outages. This directory holds TLA+ modules translated from `src/src` and
the two client libraries, the TLC runs over small instances of them, and proofs
checked by TLAPS. `PROJECT.json` maps every definition to the lines it models.

## 1. Inventory

What all components share: a handler awaits between its database calls, so
any other handler may run in between; `repository.save(entity)` writes the whole
row the handler read earlier; hardly anything runs in a transaction; schedulers
run in the same process (cron, `setInterval`); NATS JetStream delivers events at
least once; the process may stop between any two awaits and loses its memory.

| Component | State | Operations | Hard behaviour | What makes it correct |
|---|---|---|---|---|
| `work-items` tickets | `work_items`, `roadmap_initiatives.task_seq` | `create`, `capture`, `decideTriage`, `update` (re-parents), `move`, `remove`, `closeExpiredResolved` | stale whole-row saves; columns renumbered from a snapshot; ancestors read row by row; number drawn before the insert | dates follow the status, references are distinct, no cycles, dense columns, closed tickets stand, a resolved ticket is closed one day |
| `work-items` planning and parts | sprints, dependencies, attachments and their files, subtasks | sprints, `assertSprint`, `addDependency`, `addAttachment`, `removeProject` through `studio` | checks before writes, a walk over a changing graph, a row and a file written by two calls | the sprint of a ticket is of its project, no circular wait, walks end, an attachment has its file |
| `github` | `work_item_branches`, `github_repositories`, ticket status; GitHub itself | `startWork`, `openPullRequest`, webhooks, discovery and synchronisation of repositories | a second authority; repeated and reordered deliveries; renames while a registry is filled | links mirror GitHub, a branch joins the ticket it names, what ended stays ended, one repository is one row |
| `releases` | `releases`, `work_items.release_id` | create, update, remove, assign with cascade | a cascade of several saves | exactly the followers follow |
| `execution-references` | references, versions, manifests, tickets with a source key | parse, create, `addVersion`, manifest, preview, import, `attachProject` | a parser by sections; an import of many saves without a transaction; decisions between imports | sections declare what their lines say, imports account for every item, decisions stand |
| `business` | invoices, quotes, opportunities, contracts, expenses, hours, reminders, counters | create, update, `markPaid`, `voidReceipt`, `convertQuote`, reminder synchronisation | financial fields frozen by a check on a stale row; links checked before a later save | receipts stand, linked documents agree, closed reminders stay closed |
| `invoices` | `invoices`, the stream, the daily run | payment events, the run, manual corrections | redelivery, restarts, a consumer that does not bind, two consumers and a run on one counter | each payment gets its row, each renewal one invoice |
| `tickets`, `sla` | support tickets, `ticket_events`, policies, alerts | create, reply, status, assign, update, ingest, the sweep | the clock is computed from a log written after the row; sweeps overlap | alerts once, the clock tells the wait, no request is lost |
| `roadmap`, `analytics` snapshots | objectives, key results, points, initiatives, milestones, prefixes | update, re-parent, board moves, prefixes, archives, daily capture | a prefix changed while tickets are numbered; progress through three sources | falling metrics mirror rising ones, references stay readable, done never lowers progress |
| `team`, `directory` | `team_members`; the realm of Keycloak | update, invite, remove, two fillings from the realm | every call may be refused, or lost before or after it was applied; a roll back by a second save | an owner is left, a row and its account agree |
| `auth`, `assist` | sealed cookies, hand-off codes in memory | login, resolve, start, redeem | roles carried by a cookie outlive the roles held | nobody acts on a role lost longer ago than a session lives |
| `company` | brands, products, policies, a cache of codes | create, update, archive, resolve | a load that started before an invalidation ends after it | a code is answered by the truth at some moment of the call |
| `tenants`, `subscriptions` | CRM rows, the timeline; the billing service | provision, activate, change plan, cancel, remind, list | commands obeyed without an answer, late answers | the list shows what billing holds, and failures as failures |
| `public-api`, `broadcast`, `notifications`, `push`, due-soon reminders | keys, drafts, rows, devices | keyed command, dispatch, mail | check, act, then record | once, one after the other |
| `studio` expenses | spend of a month, templates | synchronise, generate, edit, forecast | a template and its occurrence counted twice | a charge counts once in a month |
| `libs/nola-sdk`, `apps`, `health`, `logs` | connection, registry, incidents, rings, log lines | announce, project, sample, alert, ingest | replay at every start, expiry, outages, lost acknowledgements | who is gone is not shown online, an outage is told, a bucket holds its hour |

The other components (`activity`, `audit`, `config`, `countries`, `deploys`,
`domains`, `iam`, `infra`, `kelasi-proxy`, `manifest`, `modules`, `momo`,
`pipeline`, `plans`, `verify`, migrations, scripts) are journals, read-only
views, forwarders or single-row tables; `PROJECT.json` says for each why it is left out.

Interactions: `studio` is the console's door to tickets and projects; `github` and
`releases` write ticket columns with code of their own; `execution-references`
creates tickets and looks up releases; `roadmap` owns the prefix and the counter of
ticket references; `business` and `invoices` draw numbers from one set of counters;
the sweep reads tickets, their events and the policies; a login reads the roles
`team` writes; `health` samples what `apps` projects and consumes its own events;
the bus feeds `invoices`, `tickets`, `apps`, `health` and `logs`, each through a
listener that binds once the client is there, or never.

The hazards, each at its line, are listed in `PROJECT.json` with the
properties that cover them.

## 2. Modules

`Tables` (rows as functions, `save`, patches) and `Requests` (handlers in flight,
modes) are shared. Each line below is one chain of EXTENDS, the composed module last.

| Module | Source | State and actions |
|---|---|---|
| `WorkItemRules` | `work-items.board.ts`, `work-item-hierarchy.ts` | `PlanMove` and `CheckParent`, pure; what a walk up meets is the least set closed under "parent of" |
| `WorkItems` | `work-items.service.ts`, the closer's scheduler | `items` is the table; `req[p].pc` the await handler `p` is at and `held[p]` the rows it holds, stale or not |
| `WorkItemParts`, `WorkPlanning` | `work-items.service.ts`, `work-item-attachment-storage.ts`, `work-planning.service.ts`, `studio-projects-proxy.service.ts` | attachments with the disk beside the rows, subtasks; projects, sprints, tickets, dependencies with their foreign keys; the tickets that a document attaches or imports, with the project it writes them |
| `Repositories`, `GithubLinks` | `repositories.service.ts`, `github-webhooks.service.ts`, `start-work.service.ts`, `branch-name.ts`, `branch-reference.ts` | the registry and GitHub's own repositories; branch names as sequences of runs; `links` and ticket statuses against `ghBranches`, `ghPull`, `hooks`; a request may fail or stop at each await (`RequestFails`), and `missed` are the branches of deliveries kept and not applied |
| `Releases`, `ExecutionImport` | `releases.service.ts`, `execution-references/*` | one ticket table for the three; `ReferenceParser` (INSTANCE) is the parser over classified lines; `ExecutionImport` composes the handlers |
| `Engagements`, `BusinessDocuments` | `business/*`, `business-number-sequence.ts` | the counters documents are numbered from; opportunities, contracts, expenses, hours and what may point to what; invoices, quotes, receipts, reminders |
| `SubscriptionInvoices`, `Billing` | `invoices/*` | stream, consumers, daily run; `Billing` composes the two sides, numbered from the same counters |
| `SupportDesk` | `tickets/*`, `sla/*` | the clock, handlers with row and log; policies, ingestion, sweep |
| `RoadmapObjectives`, `RoadmapInitiatives`, `Roadmap` | `roadmap/*`, `snapshots.service.ts` | progress and trajectories, objectives, captures; board, milestones, prefixes, tickets and their moves, with the row that numbered each |
| `TeamMembers`, `BusinessUnits`, `Tenants`, `Deliveries`, `Expenses`, `BackOffice` | `team`, `auth`, `assist`, `company`, `tenants`, `subscriptions`, `public-api`, `broadcast`, `notifications`, `push`, `studio-expenses.service.ts` | members, realm, cookies and hand-offs; brands and their cache; CRM and billing; what is sent or done once; spend. `BackOffice` composes them |
| `BrandRegistry` | | what resolving brands promises, in four actions; `BusinessUnits` implements it |
| `BusClient`, `AppRegistry`, `Platform` | `nola-client.service.ts`, the vendored SDK, `apps.service.ts`, `health.service.ts`, `incident-alert.listener.ts`, `logs-ingest.listener.ts` | streams and the connection; the projection; incidents, alerts, lines and rings; the restart of the whole process |
| `MC*` | | constants, modes and reference definitions for TLC |
| `WorkItemsProofs`, `WorkPlanningProofs`, `BillingProofs`, `SupportDeskProofs`, `GithubProofs`, `RoadmapProofs`, `BackOfficeProofs`, `PlatformProofs` | | theorems |

Every handler is one action up to its first await that matters and one action per
await after it. Two handlers interleave at these points and nowhere else, as in
a single-threaded runtime. A guard that answers with an error is an early end of the
handler, or a conjunct that keeps the action from firing when nothing was changed before it.

### Abstractions

- `save` is one atomic upsert of the row as read; where a table of lines goes with
  it, that table is written in the same step as the code's transaction.
  `repository.update` writes its columns only.
- A ticket reference is the pair (project, number) it renders where only its being
  distinct matters (`WorkItems`), and a prefix with a number where it must be read
  back (`Roadmap`, `GithubLinks`). Invoice numbers are (prefix, rank); one year is modelled.
- Dates are what the code compares: the age of `resolvedAt` up to the reopen window,
  days from today for due dates, minutes for the SLA clock, checks of its timer for
  the staleness of a service, hours for the rings.
- Branch names and titles are sequences of runs (letters, digits, one dash); a line of a
  document is its class and what it carries; planned values are fractions.
- The journal of ticket events, PDFs and wording are left out. In the support desk the
  log is kept, since the clock is computed from it.
- In `ExecutionImport` triage and placement are atomic; the import's item
  loop, with its reads and its save per item, is not.
- A scheduler does not start while its last run is under way, except the
  SLA sweep and the due-soon reminders, which can overlap themselves and do in the model.
- Support: one brand; a policy edit is one step; policies and events are
  read in one step of the sweep; events are inserted in the order they were issued; an
  alert merges the resolution of recipients with the notification. What a sweep found is a set of verdicts, taken by
  ticket id and the response clock first, as its two loops do.
- A move on the roadmap's board is stated by ranks: where a card stands among those that remain, rather than by splicing arrays.
- The synchronisation of the provider's invoices awaits the template, each lookup and each insert apart.
- Calls to Keycloak, to billing and to the bus have three outcomes: refused, done, or
  lost before or after they were done. A mode says which of them may occur.
- A failed delivery puts the consumer back to rest with the message still in the
  stream; crashes drop all that is in flight. Retention expires a message only after all
  consumers had it: it is hours or days.

## 3. Runs

A composed module is explored by *modes*: `mode` is chosen by `Init` and says
which requests may overlap, which rows there are at the start, what requests may say
and which faults may happen (in `Platform`, `left` says how many of each are left).
One run then checks several small state spaces together. `Orderly`, or a condition on
the mode, in a property says under which workload the code guarantees it: what it
guarantees only for requests one after the other, or without a certain fault, is
claimed only then, and what it guarantees always is claimed always.

| Run | Asks | Bounds |
|---|---|---|
| `tickets_one_at_a_time` | exactly the links that close a cycle are refused, closed rows are frozen, saved moves leave dense columns | 3 tickets (2 for life cycles), one handler, window of 2 days |
| `tickets_overlapping` | dates stay stamped and references distinct whatever overlaps; resolved tickets end closed | 2 clients and the closer, 3 in flight |
| `github_links` | HQ and GitHub agree once all is answered, wherever requests fail, except for what a kept delivery failed to tell; branches join the ticket whose name they bear; what ended stays ended; one repository is one row | 2 tickets, 1 branch each; 5 deliveries in order, or 3 to 1 with two overlapping handlers in any order; 2 repositories, 3 names, 3 rows; names of 9 runs, slugs of 4 |
| `planning` | sprints belong to the project, no circular wait, attachments have their files and keep the limit, walks end | 3 tickets (1 where a document's project is written), 2 sprints, 2 projects, 2 handlers, 3 parts, 1 attachment allowed |
| `references` | sections declare what their lines say; imports account for all items; decisions stand; cascades move exactly the followers | documents of 5 to 6 lines, 2 versions, 6 tickets, a tree of 3 levels; crashes |
| `billing` | one invoice per renewal; receipts stand and keep their order; links agree; a synchronisation reopens nothing; payments get their row | 2 invoices, 2 receipts, 1 quote, 1 contract, 1 expense, 3 payments (of no invoice, of the provider's, of HQ's own), 1 subscription, 2 days, at most 3 faults; 16 modes |
| `receipt_lost` (violation) | is a receipt minted once under overlap? | 1 invoice, 2 requests |
| `support` | alerts once, the clock tells the wait, settled tickets stand, requests become tickets | 12 minutes, targets of 5 and 10 minutes, 2 sweeps, 1 to 3 tickets, 1 or 2 handlers, at most 4 events |
| `roadmap` | a falling key result reads as its mirror; references readable, wherever tickets are moved; done never lowers progress | 3 objectives, 1 key result, 2 points, 3 initiatives, 2 milestones, 2 interchangeable tickets (closed only in the mode that archives, which is all that asks), 3 days |
| `back_office` | the team is governed; billing is shown; what is done once is; charges count once; roles acted on are recent; brands resolve truly | 3 accounts, 3 levels; sessions of 1 tick, 3 cookies; 2 brands, 2 callers; 2 tenants, 2 apps; 2 recipients, 1 device; 2 months, 2 invoices, 3 expenses |
| `platform` | an unwell service has an open incident; rings tell their hours; the registry tells who is there; outages are told | 1 service, streams of 2, 3 samples, 2 tries and 2 polls, rings of 2 buckets over 4 hours, 1 to 3 faults |
| `history_replayed` (violation) | is there a listener to which a restart does not replay what its stream holds? | 1 service, 1 restart |

Why these bounds are enough. Three tickets give a board with a
ticket before and one after the moved one, and the shortest cycle that is not two
tickets naming each other; three objectives or initiatives the shortest chain of three
levels. Two handlers show every lost update; the third in `tickets_overlapping` is
the closer. Five deliveries carry a branch from creation through pull request and merge
to deletion, with one to spare; each is repeated as often as its answer is lost. Three names for two repositories let a name be given
up and taken by another. Six lines hold an epic, a list of stories and a second
section; two versions cover changed, added and withdrawn items. Twelve minutes are six sweeps over a
ten-minute target, the shortest whose warning window (80 % to 100 %) holds a
sweep. A session of one tick on a clock of two expires within the run, after the role
it carries was lost. Two callers are a load and an invalidation that overtake each other. Rings
of two buckets over four hours turn completely. A staleness of zero and one check makes a
service late and gone in two. Bounds in guards: `MaxItems`, `MaxEvents`, `MaxReceipts`,
`MaxDrawn`, `LastDay`, `LastTick`, `LastHour`, `MaxCookies`, `MaxDone`, `MaxSent`, `MaxSeq`,
`MaxKept`, `MaxSamples`, `MaxErrors`, `mode.log`, `mode.last`, `mode.faults`, `left`.

Deadlock is not checked where such a bound, or the end of the calendar, lets the
model stop; the service itself always waits for the next request.

### Fairness

- `WorkItems`: days pass, the daily run starts, and the closer's save completes (`Tick`,
  `CloserFind`, `Save(Closer)`).
- `WorkPlanning`: the database answers the next query of a walk (`ReachesStep`, `WF_req`).
- `Billing`, `SupportDesk`: JetStream delivers what is not acknowledged, a consumer's
  next database call is answered, and the process binds its listeners at a start. A listener
  that failed to bind stays deaf until the next start, as in the code.
  Faults are bounded in number, so a delivery that fails is in the end one that does not.
- `Platform`: timers fire, attempts are answered, projections poll, messages are delivered and
  discovery is answered by services that run (`ClientFairness`, `RegistryFairness`,
  `HealthFairness`).

Nothing is assumed of people, of GitHub, of the sampler starting a pass, or of outages ending.

### Disagreements the runs show

1. `receipt_lost`: an update that read the invoice before `markPaid()` erases the
   receipt when it saves after it; two `markPaid()` mint two.
2. `history_replayed`: both listeners delete their durable consumer at every start. One says that "a restart never re-floods the
   table with the full stream history" (`logs-ingest.listener.ts:42`), the other that it does so "so we don't replay the entire history
   of incidents" and forwards only what arrives while the service is up (`incident-alert.listener.ts:102-105`). `consume()` without
   options starts a consumer at the first message of the stream. In one behaviour a line of the
   past is inserted again and an outage of the past is told again: neither comment is true of the code. `EveryOutageTold` is
   the other side of this: an outage opened before the bridge is bound is told in the end *because* the
   history is replayed. It states what the code does; with a consumer that starts where the comment says, its mutant, it fails.

### Met while modelling

These have no run of their own: the properties above are stated for the workloads in which
they hold, and here is where they would not.

Overlap first. These properties are checked and proved for requests one at a time, because the code keeps no more: a
handler checks a row it read and writes after other awaits. The overlap that breaks them is therefore *not* exercised by their
runs, and the hazards in `PROJECT.json` say so: `ClosedRowsFrozen`, `CyclesAndOnlyCyclesRefused` and `MoveLeavesDenseColumns` (two
clients on one table), `CascadeMovesFollowers` (a ticket moved while the descendants are collected), `ReceiptsStandInOrder`
(its overlap is the run `receipt_lost`), `SettledStands` (a late assignment), `ReferencesReadable` (a ticket numbered between the count and the save of a
prefix), the commands and broadcasts of `HappensOnce`, and `EndedLinksStayEnded`, which asks for deliveries in order: a late `opened` makes
an open pull request of a closed or merged one.

Tickets and planning. An `update()` saved after a closing undoes it; the closer in turn saves rows it read, and
closes a ticket reopened meanwhile (`work-items.service.ts:616`). A refused ticket keeps
`resolvedAt` (`:323`). Two overlapping re-parentings can close a cycle; a change of type is not checked
against the children. The limit of `board()` may hide open tickets, and ranks may have gaps. An update that
moves a ticket to another project keeps its dependencies. `attachProject()` writes the document's project to the tickets that have none and leaves their
sprint (`execution-references.service.ts:209`), which `update()` let them take from any project while they had none (`work-items.service.ts:557`); a repeated
import writes the project of a ticket it holds and leaves the sprint too (`execution-import.service.ts:393`). Either leaves a
ticket in a sprint of another project: `SprintBelongsToProject` excepts exactly the tickets such a write left so (`propagated`, `Apart`). Further, two sprints can be activated at once by overlap. Overlapping
uploads pass the limit of attachments; a crash between row and file leaves one without the other.

GitHub. Two starts of work may choose one name and the second insert fails, where the comment
says both people end in the same place. `discover()` points a row to another repository when
a name is reused, although `sync()` answers 409; two renames can give two rows one
external id; after the new name of a renamed repository is registered by hand, or two names are
swapped, discovery stops on the unique index; deliveries for a row registered by hand and renamed since are
ignored; a stale `archived` un-archives on overlap; the installation is cached by name for an hour. A name is read back by its
longest key (`branch-reference.ts:46`): "GOV-01" with a title that starts with "1" bears the name of "GOV-01-1", so
`BranchesJoinTheirTicket` speaks of names that are one ticket's only (`Unmistaken`). What GitHub tells of a repository that the
registry does not know is dropped, so `LinksMirrorGithub` asks that it be known (`HomeKnown`).
A delivery is kept before it is applied (`github-webhooks.service.ts:105`, `:121`), and `applyToBranches()` swallows every error (`:152`): when it
fails, or the process stops in between, GitHub's repetition is a duplicate without effect, and the link stays stale until another event tells of that branch.
The comment leaves it to "une resynchronisation manuelle", which no code offers; `LinksMirrorGithub` excepts these branches
(`missed`) and claims that no others suffer.

Releases and references. A release created as `released` has no date (`releases.service.ts:45`). A
crash between a ticket's release and its cascade leaves the descendants behind (`:135`). An
import that overlaps a decision on the ticket it holds overwrites it; a second
reference with the same keys takes over the tickets; items with one key take different branches in preview
and import. Two lists of stories under one epic, or an epic repeated, give repeated keys with no
issue; after an empty second list both read the same stories.

Business and invoices. `updateContract()` and `updateOpportunity()` do not look again at what points to
the row (`business.service.ts:270`, `:214`), nor does moving a work item to another project at the hours booked on it;
`createContract()` stamps `signedAt` for signed and active only (`:262`), an update for completed too
(`:282`). `updateQuote()` checks the client, project and opportunity that the body gives, or else the row's
(`business-operations.service.ts:153`), and saves the row with the ones it had (`:171`): a body that agrees with an opportunity moved
meanwhile passes, and the quote keeps ties that disagree. `TiesAgree` therefore speaks of a quote's ties only
where the body checked is the row saved (`CheckedElsewhere` names the others). `convertQuote()` can bill a quote twice. A typed number equal to the next one blocks automatic
numbering (`:411`). A dismissed reminder does not return. The daily run may see a
cancelled twin of an invoice and miss the live one (`invoices.service.ts:357`), and an operator who takes a cancelled one up again
makes two; a row typed under the number the counter gives next is overwritten by the run that draws it (`:500`): `OneUpcomingInvoice`
assumes neither (`HandsOff`). A correction saved after a payment it did not read erases it (`:121`); `PaymentsRecorded` counts it as corrected.
A restart between two writes of a synchronisation leaves the reminders to the next one, so `SyncSettles` speaks of those nothing interrupts. A redelivered payment without an
invoice id draws a new number and writes a second row (`invoices.service.ts:213`); a day without a successful run is not made up (`:350`).

Support. A ticket can be created resolved without a code; the time a reopened ticket was resolved counts on
its clock (`sla-elapsed.ts:51`); a reply that saves a stale ticket can undo its status with no event; an
alert is lost if the process stops after recording it; targets under ten minutes may breach unwarned.

Roadmap. An update that moves a ticket to another project keeps its reference (`work-items.service.ts:557`), so it bears the prefix of the row
that numbered it under another: `ReferencesReadable` reads a reference by that row (`numbered`), not by the project the ticket is in. The prefix "TNola" with 201 renders as "TNola2" with 01; a prefix whose project is gone is
used again; a null prefix of an old row skips the count of its tickets. Two overlapping re-parentings give
three levels or a cycle. A stale update reverts the scope, the prefix or the counter another request wrote. An archived
project still takes tickets through the API; removing an initiative asks nothing of what depends on it. Every
restart sets the timer of the daily capture back.

Team and access. Two owners who demote each other both count two owners. A demotion refused by the realm is not
rolled back (`team.service.ts:189`, against `:173` and `:161`). `adminSend()` may throw although
`keycloak-admin.service.ts:249` says it never does. Two addresses with one local part share a row
(`:449`). A refused list of owners makes `backfillMissingMembers()` record a lower role, and the replaced role stays if its removal is
refused, as a weaker one beside it does (`NothingUnseen` and `OneRoleEach` name what `TeamIsGoverned` asks); a
row without access keeps its account's old role. Cookies survive logout and redeployment until they expire.
`resolveAllIds()` may trust a stale map.

Tenants, deliveries, spend. A refused read of the outstanding days is shown as none
(`tenants.service.ts:653` against `:164`), and the recovery list reads null as zero; pages hold 500 rows and invoices are cut at
1000. `activateApp()` answers already active for a cancelled subscription (`:498`); a lost answer to a
provisioning leaves no CRM row, and the retry gets a 409 (`:302`); `provisionError` is never set.
`PlansService` says it answers an empty list and throws a 503 (`plans.service.ts:31`, `:43`). Two requests with one
idempotency key execute twice when they overlap; a crash between the deed and its key does too. Overlapping sends of a broadcast send it twice; overlapping
`markRead()` and `clear()` bring rows back. The due-soon row is stored before the mail, which may be lost. Overlapping
synchronisations or generations of the spend insert twice, and a template adopted after its month was generated counts beside
it. Deploy ids are drawn by text order ("d-1000" before "d-999").

Platform. After a restart, an incident of the past stays open if its service is well at the first pass
(`health.service.ts:108`), and one unwell at the restart gets a second incident. A service degraded, then offline, is not upgraded from P3
to P2. An alert whose publication fails is acknowledged and not tried again. A page read before the replay starts a ring
at full wellness (`:113`). The errors of the last day do not move on without new errors. The projections give up after 30 polls although
the comment says they wait for a reconnection (`apps.service.ts:165`). The metrics middleware is installed only if the client exists at start
(`main.ts:33`). Overlapping announcements can lose a registration. One discovery message is sent per start; if it is lost, a service
whose registration has expired from the stream stays unlisted.

## 4. Proofs

Every theorem is about its module's `Spec`, for every value of the constants that the named assumptions
allow: any number of handlers, rows and modes. A property guarded by `Orderly` (one handler) or by
`~Interrupted` (no crash) is guarded in the theorem too; the other modes are covered by what is stated without a guard.

`WorkItemsProofs`, under `WorkItemsAssumption`:

- `TypeCorrect`: `Spec => []TypeOK`.
- `DatesAlwaysStamped`: whichever rows are saved late, a resolved ticket
  has the date the closer searches by and a closed one its date. `DatesStamped` is
  not inductive, since a save writes what a handler holds. `IInv` therefore says it of
  both: `GoodTables` (each row in the table is good) and `GoodHandlers` (each row
  held is good, and what is held fits the await the handler is at).
- `ReferencesAlwaysDistinct`: no two tickets have one reference. A deleted ticket can come
  back through a stale save, so `RefInv` says of the table, of what every handler holds and
  of every two handlers (`TableRefs`, `HandRefs`, `HandToHandRefs`) that
  references known for different tickets differ, that one ticket has one reference everywhere, and that
  none is beyond its project's counter. It speaks of the tickets' own writes: prefixes that a project
  changes are the matter of `TicketsReadable` below.
- `ClosedStayFrozen`: `MaxInFlight = 1 => (Spec => ClosedRowsFrozen)`. The refusal of closed tickets is at the read and the
  write comes awaits later, so it is only as good as what still holds then. `LoneInv` says that whoever is under way is alone, that the ticket
  it is about is not closed, and that what it is about to save says of every closed row what the row says.
- `MovesStayDense`: `MaxInFlight = 1 => (Spec => MoveLeavesDenseColumns)`, for columns of any size. The ranks planMove
  gives are below the column's size and apart from each other, so by counting they are all of them (`RanksFill`, `PlacesFill`,
  `PlanIsDense`); `LevelInv` carries that to the save, through any days that pass.
- `HierarchyStaysAForest`: `MaxInFlight = 1 => (Spec => []CyclesAndOnlyCyclesRefused)`, for chains of any length. What is met
  above a parent is closed upward; if the child is not in it, saving the link leaves it so, and no ticket comes to
  stand above itself (`NewLink`). `TreeInv` carries the verdict to the save and says of the rows loaded so far that they are
  linked as the table's and lack nothing below the cursor, so what the rows decide the table would
  (`WholeChain`, `FewerRows`).

`WorkPlanningProofs`, under `WorkPlanningAssumption`, from `PlanningTyped` (`TypeInv`: the tables with their
foreign keys, and the shape a request has at each await):

- `SprintsKept`: `[]SprintBelongsToProject`, whatever overlaps: a ticket is in a sprint of its project unless `attachProject()` or an
  import wrote it the project past its sprint. Tables alone are not inductive: a save
  writes a sprint checked earlier. `SprintInv` adds that what a request is about to save still fits
  (`StillFits`: the project of a sprint never changes but to null, and then in all its tickets), and that two
  requests that create sprints create different ones (`DrawnOnce`).
- `NoLoops`: `[]NoTicketWaitsForItself`, one request at a time, for chains of any length. `WalkInv` adds the
  loop invariant of `reaches()` (`WalkSound`): what is seen or in the frontier is closed under the dependencies
  of what is seen, the target is among it, and the ticket was not seen; a walk that ends with an empty
  frontier has then seen all that the target waits for. Reachability is stated by closed sets, so no induction is needed.
- `PartsKept`: `[]PartsStand`. `PartsInv` says that a ticket's attachments and the uploads past their count
  stay within the limit and the handlers (`RoomTaken`), that a row without its file has an upload under way
  or the process stopped (`FilesInv`), and that positions are the numbers below their count (`SubtasksInv`).

`BillingProofs`, under `BillingAssumption`. The first three rest on `PapersInv`, the last on `BilledInv` beside it:

- `ReceiptsAreKept`: `Spec => ReceiptsStandInOrder`, an action property. `PapersInv` says of the row a lone request is about to
  save that it keeps the receipt of the row that is there, and of a request about to mint that its row is the one that is
  there and bears no receipt (`InHandOK`). The overlap that `receipt_lost` shows is what breaks it without `Orderly`.
- `LinksAreChecked`: `Spec => TiesAgree`, an action property, from the same invariant: links are checked at the
  read (of a quote those of its body: `CheckedElsewhere` sets apart the updates whose body is not what they save), and while requests are in order what they point to is as it was when the row is saved.
- `RemindersAreSettled`: `Spec => SyncSettles`. `PapersInv` says at each await of a synchronisation what of the due has been treated: what is due has a row or is
  still to be looked up, the row about to be saved is new or pending, and what is left to dismiss is what is pending and not due.
- `InvoicedOnce`: `[]OneUpcomingInvoice`, for any number of consumers, subscriptions, faults and restarts. Two rows of a key can
  only come from a run, so `BilledInv` says that what a run is about to save has a key nothing bears (`SchedulerHolds`) under a
  number that nobody else has and that was drawn (`Reserved`, `Drawn`); that rows held by operators and consumers renew what the table has
  under that number (`OperatorsHold`, `ConsumersHold`), since a stale save must not move a row to another key;
  and that an announced payment of one of HQ's invoices is of one that stands (`Announced`).

`SupportDeskProofs`, under `SupportAssumption`:

- `DeskTyped`: `[]TypeOK`. `DeskInv` says of the rows, the log, the requests, the consumers and the sweeps
  what each holds at each of its awaits, and that tickets are never removed, so whatever names one names one that is there.
- `SettledIsKept`: `Spec => SettledStands`, an action property: while requests do not overlap, a closed ticket stays
  as it is. The part of `DeskInv` that carries it says that what a lone request is about to save keeps what
  stands in the row that is there; an ingestion only adds rows.
- `AlertsOnce`: `[]AlertedOnce`, for any number of overlapping sweeps, failures and restarts. An alert is
  sent only by the sweep that inserted its event, and events are never removed. `IInv` says that an alert
  sent has its event in the log (`AlertedAreRecorded`), and that a sweep about to send one has
  its event too, that it was not sent yet, and that no other sweep is about to send it (`AlertsAreFirst`);
  two sweeps about to send the same alert would break `AlertedOnce`.
- `ClocksTellTheWait`: `[]ClockTellsTheWait`: in every state of a mode where people come one at a time, what a minute
  brings is done within it and nothing fails, what `computeActiveMs` makes of the log is what the ticket waited. It holds between
  the save of a row and the event that tells of it because no minute passes in between. `WaitInv` says that the last word on
  a ticket, in hand, on its way or in the log, is its row's (`WordStands`), and that events are in the order of their
  dates (`Dated`). Then an event that reaches the log leaves every segment what it was and adds one of no length, also when it is
  the reply that stops the clock (`LongerReading`), and a minute adds one to the last segment if it runs and the clock has not
  stopped (`MinuteReading`). The sums are taken apart by `SumSplits`: a sum over a finite set is any of its terms and the sum of the
  others, from which equal terms give equal sums (`SumsSame`) and a new or a changed term counts once (`SumGrows`, `SumGains`).

`GithubProofs`, under `GithubLinksAssumption` (keys end with a number and are distinct, titles and keys are
texts) and `RepositoriesAssumption` (at first a row with an identifier has a name that repository has or had, and names
are apart), all from `GithubTyped`: `[]GithubInv`.

- `LinksAreMirrored`: `[]LinksMirrorGithub`, one request at a time and deliveries in the order of the facts, each
  repeated as often as it may be, while any request may fail or stop at any await. The branches that a kept delivery failed to be applied to are excepted (`missed`); the
  invariant follows all others (`Followed`). At rest nothing is queued, so the invariant speaks of what is on its way: `Waiting` are the
  deliveries not handled before, and `InStep` says of each branch that its link shows what GitHub holds, or that a delivery which tells of the
  difference is in hand or waiting, with the last word last (`PullsInStep`, `MergesInStep`, `CreationsInStep`, `DeletionsInStep`). A
  repetition leaves `Waiting` as it is because the ids that were kept stay kept. `HomeStands` carries `HomeKnown` through the
  edits of the registry, and `HoldsCurrent` says that a lone handler's copy of a link is the link.
- `BranchesJoin`: `[]BranchesJoinTheirTicket`, whatever overlaps. `HoldsRight` and `LinksRight` say that what is about to be linked
  names the branch or is read in its name (`Joins`). The lemmas on names carry it: a slug is a text
  without a dash at its ends, a name starts with its key (`NameStarts`), the longest key is the one read (`LongestRead`), and so a
  name that is one ticket's joins no other (`JoinsItsOwn`, `JoinsOne`).
- `EndedStand`: `Spec => EndedLinksStayEnded`, an action property, from `HoldsCurrent` and what each write does to a state.
- `OneRowEach`: `Spec => OneRepositoryOneRow`, an action property, one request at a time, while repositories are renamed between any two
  awaits. `RegistryInv` says that names at GitHub are apart (`NamedApart`), that rows bear names their
  repository has or had (`RowsRight`), and of a discovery that it saw each repository once, that what it has
  treated stands (`SeenRight`), and that the row it found is that repository's, or had its name while no row had its
  identifier (`FoundRight`); a name that is not given again then leads to the same repository.

`RoadmapProofs`, under `RoadmapAssumption` and `WellFormedBodies`, both from `RoadmapInv` (the shape of
rows, points, series and requests). `RoadmapAssumption` takes the initiatives there can be, and the objectives a behaviour
starts from, to be finitely many, as the rows of a table are:

- `MirrorsStand`: `[]DownMirrorsUp`. A falling key result shows the progress, trend and status of the rising one
  with all its numbers negated. A lemma for each operator on the way (the latest value, the fraction done, the expected
  fraction, the projection) says that it is even or odd under that change; rows are integers because
  every action that writes one keeps them so, which is what the invariant is for.
- `TicketsReadable`: `[]ReferencesReadable`, one request at a time. A ticket's reference is made of the prefix
  that the row which numbered it had then, wherever the ticket was moved since (`Numbered`). The invariant follows the prefix through every request that holds
  a row: while it waits, the row that is there still has the prefix it read (`Current`), except where
  the prefix is being changed, and that needs a row no reference starts with the prefix of (`Filed`: a row that numbered a ticket has one).
- `DoneLifts`: `Spec => DoneNeverLowers`, an action property. The arithmetic is monotone: rounding (`ClampGrows`), sums and
  means over the same keys (`SumsGrow`, `MeansGrow`), the mean of the initiatives that are not dropped (`InitiativesLift`), the
  cascade (`CascadeLifts`). Two invariants are needed beside `RoadmapInv`, whose rows now bear an integer
  progress: the tables are finite (`FiniteOK`), or a mean divides by nothing; and a milestone that a request
  saves again, even one removed meanwhile, is on the checklist it was on (`ChecklistsOK`), or ticking one off could empty another's list.

`BackOfficeProofs`, under `BackOfficeAssumption`, `SessionAssumption`, `TenantsAssumption`,
`ExpensesAssumption` and `NullIsNoBrand`. `FormedInv` says whose a request is by where it waits, so that a step of one
part leaves what the others hold (`OthersKeep`):

- `DeliveredOnce`: `[]HappensOnce`. For reminders, under any overlap and any crash: who awaits a mail has the unique
  row and no other run has it (`DueInv`). For commands and broadcasts, one at a time and uninterrupted: a
  command done has its key, is about to have it, or is two days old (`CommandInv`); who was reached is known
  to the request that is sending (`BroadcastInv`).
- `ChargedOnceOnly`: `[]ChargedOnce`. Invoice rows are never edited unless one types an invoice id (`InvoiceInv`), what a
  synchronisation passed is in the table, and a row about to be inserted is not there, for invoices
  (`OneRowInv`) and for the month of a template (`MonthInv`).
- `ActsOnSealedRoles`: `Spec => ActsOnRecentRoles`, an action property. `SessionInv` says that each cookie is
  backed: the account held the roles in it when it was sealed, and that is at most a lifetime before it expires.
- `BillingIsTold`: `[]BillingIsShown`. `BooksInv` says that a row about to be written tells what has happened (`Sound`);
  `OrderInv` and `WholeInv` bound what is told and owed by what was done, from above and below; `Shown` that
  whoever owes is recovered or unknown in the answer.
- `TeamStaysGoverned`: `[]TeamIsGoverned`. Neither half is inductive: a request has saved its row before it asks
  Keycloak, and writes the old one back later. `TeamInv` says of a lone request what it has read and still finds
  (`ToldHand`: the row as saved, the level it had, what the account held), which row it has not synchronised
  (`Saved`) or account it has given a second role (`Doubled`), that another owner remains if its row was one
  (`Beside`), and that whoever holds a role has a row (`Covered`).

- `TrulyResolved`: `Spec => ResolvesTruly`: among all the handlers of the back office the resolver of brands, with its cache, its
  queries in flight and its restarts, implements `BrandRegistry` for any number of callers and brands. The mapping sends a
  call's answers to those its rows or its cache have decided: `Yes` and `No` count a code as answered at the moment the query
  ran, although the caller sees it later. `BrandsInv` (`BrandsExist`: `[]BrandsInv`) says that what is cached, found or
  fetched exists (brands are never removed, so a stale "yes" is true) and that a call answers a code once (`Honest`); without
  it a stale map could answer "no" for a brand that exists when the call began. Each step of a caller then is a step of the
  registry (`Ask`, `Tell`, `Register`, `Leave`) or a stutter; a restart lets all calls leave, and every other handler
  leaves brands alone (`BrandsAlone`).

`PlatformProofs`, under `RingsAssumption` (there are buckets, and null is neither a number nor a ring) and `PlatformAssumption`
(faults are counted, the listeners are among those of the service):

- `OutagesAreReported`: `[]UnwellIsReported`, as long as no message is dropped and none comes twice after a restart (each of these
  defeats it, and both are conditions of the property). Incidents are set by the sampler at once and by
  the listener when their message comes back, so what is shown is only right in the end: `EndsOpen` says of a
  service seen unwell that the last message under way about it opens, or that none is and its incident is open.
  During a snapshot the status that counts is the one before (`Followed`). Two things make it inductive: the listener
  binds before the first pass or never (`BindInv`), and the first process, which replays nothing of the past, has at most one message
  under way for each service (`OneInv`), so one that comes back late there cannot undo a newer one.
- `RingsTellAll`: `[]RingsTellTheirHours`, for any number of slots, hours and samples. A ring that tells a row `f` of all hours still does after
  an advance if `f` has nothing in the hours it skipped (`AdvancedTells`), since a slot is cleared when its hour leaves,
  and after a write to the hour's own slot (`WrittenTells`): slots of different hours of a ring are apart (`SlotsApart`).

TLC evaluates the assumptions on every run that extends their modules.

Only model-checked:

- liveness, which the prover does not reach: `ResolvedEndsOneDay`, `WalkEnds`, `PaymentsRecorded`,
  `RequestsBecomeTickets`, `EveryOutageTold`, `RegistryTellsWhoIsThere`;
- recursion over data: `SectionsAreRead`; and, in `MCWorkItems`, that `PlanMove`, stated by ranks, is
  what the splicing of arrays gives (`PlansAgree`, all boards of three), and that `Walked`, a least set, is the transitive
  closure of the parents (`WalksAgree`, all tables of up to three tickets, loops and vanished parents included);
- not proved yet: `ImportAccounts`, `DecisionsStand` and `CascadeMovesFollowers`, of `ExecutionImport` and `Releases`. Their
  invariant has to say of every step of an import, an attachment and a cascade what the rows it has read have become since.

## 5. Plan and what is not modelled

Done: tickets, planning and parts, GitHub and its registry, references and releases, money with its
engagements, support, roadmap, the back office, the platform. Next, in this order:

1. `ImportAccounts`, `DecisionsStand`, `CascadeMovesFollowers` as theorems; an abstract ledger of receipts that
   `BusinessDocuments` implements for requests in order.
2. Clients, budgets and documents of `business`; comments, risks and the journal of
   `work-items`; naming a project by a document's title (`resolveDocumentProject`).

Left out: reports, dashboards and listings (read-only); meetings, domains, modules, countries,
pipeline, deploys, mobile-money totals (single-row writes without an invariant); audit and activity (append-only);
`iam`, `infra`, `plans`, `kelasi-proxy` (clients and forwarders, inputs of other modules); the signature check of webhooks, the
token cache, the cipher of sessions and the scopes of machine clients (pure functions and tables); PDFs and
amounts in words; the migrations beyond the keys and indexes the modules rely on; scripts.
