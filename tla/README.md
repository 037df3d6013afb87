# Verification of the configurable CRM

TLA+ models of the program in `src/api/app`, model-checked with TLC and, where
it pays most, proved with TLAPS. The repository's code is the reference: every
definition is translated from the lines `PROJECT.json` maps it to.

1. [The system](#1-the-system)
2. [Modules](#2-modules)
3. [Runs](#3-runs)
4. [Findings](#4-findings)
5. [Proofs](#5-proofs)
6. [What is not modelled](#6-what-is-not-modelled)
7. [Plan](#7-plan)
8. [Running it](#8-running-it)

## 1. The system

A multi-tenant CRM. FastAPI request handlers (`routers/`) call services
(`services/`) over one SQLAlchemy session per request; PostgreSQL runs READ
COMMITTED; an arq worker (`workers/scheduler.py`) starts a dispatch pass every
ten seconds and a schedule tick every minute. Components interact through the
database alone: rows, row locks where the code asks for them, unique indexes.
So the hard behaviour is nearly always the same: **a handler reads rows, decides,
and writes later**, and other transactions commit in between.

| Component | State | Operations | Hard behaviour | Correct when |
|---|---|---|---|---|
| Outbound event queue (`events/dispatcher.py`, `services/actions.py`) | `outbox_events` rows: status, attempts, claimed_at, next_attempt_at | publish with the mutation, claim, reload, send, record, raise, redrive | overlapping passes, claims that time out, a crash between any two awaits, redrive in mid-flight | nothing is reported delivered that was not accepted, given up before its budget, or left stuck |
| Leads, timeline, undo (`services/leads.py`, `actions.py`, `undo.py`, `exporting.py`, `lead_ownership.py`, `events/intake.py`) | `leads`, `actions`, `changesets` | create, edit, bulk edit, intake, delete, log, merge, reassign, undo | lost updates, undos of undos, undo after merge or delete, rejected payloads that are committed | rows equal their timeline, undo is exact, a taken identity is refused by its check |
| Members, seats, hierarchy (`services/members.py`, `member_import.py`, `tenancy/scoping.py`) | `memberships`, `workspaces.seat_limit`, lead holders | invite, upload, manager, licences, deactivate, reactivate, limit | check-then-write on the reporting line and on seats | the hierarchy is a forest, seats stay within the limit, departures orphan nothing |
| Assignment (`services/assignment.py`, `routing.py`) | rules, groups, `assignment_cursors`, roster | match, deal, take a turn under `FOR UPDATE`, change rules and groups | overlapping batches, deals that change under a cursor, cursors deleted in mid-use, deadlock | turns are fair, nobody unreachable gets a lead |
| Scheduled reports (`services/scheduling.py`, `workers/scheduler.py`) | `scheduled_reports`: cadence, last_run_at | settings page, tick, run-now | mail before the one commit of a tick, overlapping ticks, the catch-up window | a due report is mailed, and again only for a reason |
| Imports (`services/importing.py`) | `import_jobs` | upload, map, preview, commit | mapping again after the preview, overlapping requests, re-preview after completion, repeated identities, leads created meanwhile, the rotation | a commit does what the dry run foretold; shares are even |
| Indexed fields (`workers/indexing.py`, `services/fields.py`) | `indexed_fields.status`, database indexes | declare, build, settle, withdraw | all four race over one name, a restart or a failed settling loses the task | READY means there is an index, PENDING ends |
| Rate limits (`auth/rate_limit.py`) | Redis counters | attempt, reset | INCR and EXPIRE are two calls | nobody is locked out for ever |
| Fields (`services/fields.py`, `fields/registry.py`, `fields/values.py`) | `lead_fields`, `field_options`, `leads.values` | create, edit, hide, identify, options, write a value | slugs and codes never reused, cloned trees, values older than the schema | the identity identifies, stored codes resolve |
| Recurring dates (`fields/registry.py`, `services/scheduling.py`) | a stored rule and its `next` | write, list | month ends, leap days, stale `next` | the first date of a window is listed, and no other |
| Pipeline settings (`services/pipeline.py`) | `stages`, `lost_reasons`, `call_dispositions`, `custom_action_types` | create, archive, reorder, choose the default | rules decided by rows that are not locked | one live stage per singleton kind, one live default |
| Permissions (`services/permissions.py`, `permissions/`, `tenancy/scoping.py`, `auth/api_keys.py`) | templates, `template_field_grants`, lead views | edit, delete, assign, gate | deletion while somebody is put under the template | what acts under a template has one; Root keeps working |
| Sessions and credentials (`services/auth.py`, `credentials.py`) | `refresh_tokens`, `password_reset_tokens`, hashes | sign in, rotate, log out, change password, issue, redeem | read-then-revoke without a lock | an ended session stays ended |
| Filters (`filters/`) | none | compile and evaluate a tree | SQL's NULLs, JSON null, the ends of a customer's day | a filter selects what it says |
| Provisioning, tenancy (`services/provisioning.py`, `tenancy/session.py`) | the session's scope, a new workspace's rows | bind, provision, put back | several workspaces through one session, failures half way | all parts or none; the scope is put back |
| Tasks and labels (`services/work.py`) | `tasks`, `labels`, `lead_labels` | create, complete, edit, reopen, name, attach | check-then-write on a task and on a label's name | the timeline tells of the tasks |
| Views, reports, dashboards, message templates, mail, web client | configuration rows, reads | single-row edits and queries | little | |

`PROJECT.json` lists all of them under `components` with their status, and under
`hazards` what is hard to test in this code, each at its line.

## 2. Modules

| Module | Models | Actions |
|---|---|---|
| `UnitOfWork` | how an ORM session writes a row back: only the columns whose value differs from the loaded one, without a version check | (operator `Column`) |
| `Outbox` | the event queue | `Publish Claim Reload Send Record Raise Crash RedriveRead RedriveCommit BackoffEnds ClaimExpires` |
| `OutboxContract` | the abstract promise to the consumer of an event: at-least-once within a retry budget | `Queue Try FailAndRecord Report Excuse` |
| `Outbox_proofs` | theorems about `Outbox` | |
| `Leads` | leads, timeline, changesets and undo | `BeginCreate BeginUpdate BeginIntake BeginDelete BeginLog BeginMerge BeginReassign BeginUndo Commit Abort` |
| `Leads_proofs` | theorems about `Leads` | |
| `Members` | memberships, seats, the reporting line | `Invite Upload SetManager AssignLicense RevokeLicense Deactivate Reactivate SetSeatLimit Commit Abort WorkLead` |
| `Members_proofs` | theorems about `Members` | |
| `Assignment` | rules, groups and the round-robin cursor | `Start Route Insert Lock Commit Abort Fail Configure Adjust Regroup Roster` |
| `Assignment_proofs` | theorems about `Assignment` | |
| `Schedules` | scheduled reports and the minute tick | `Create Update Delete Depart Erase Tick RunNow Send CannotRender Refused Commit Lose Advance` |
| `Imports` | sheet imports | `Upload SetMapping Open Read FinishPreview FinishCommit Fail CreateLead` |
| `IndexBuilds` | indexed fields and their background tasks | `Declare Undeclare CreateStarts CreateEnds CreateFails DropLeftover Settle SettleFails Drop DropFails Restart` |
| `Background_proofs` | theorems about `IndexBuilds` and `Schedules` | |
| `RateLimits` | the attempt counters | `Arrive Incr Expire Answer Crash WindowEnds` |
| `Registry` | field types: normal forms, operators, slugs (operators only) | |
| `Fields` | the schema: fields, options, identity | `CreateField UpdateField UpdateConfig Unhide SetPrimary AddOption AddBulk CopyOptions UpdateOption ArchiveOption Reorder Begin CommitHide CommitIdentity` |
| `FieldValues` | extends `Fields` with one lead's values | `Create Patch EditSchema` |
| `Recurrence` | recurring dates and the occurrences listed from them | `Write Advance` |
| `Pipeline` | stages, reasons, dispositions, action types | `CreateStage ArchiveStage ReorderStages BeginReason CommitReason ArchiveReason CreateDisposition BeginDisposition CommitArchive CommitDefault BeginType CommitType UpdateType AddActionField HideField Rollback` |
| `Access` | templates, matrix, scopes and gates | `CreateTemplate UpdateTemplate BeginDelete CommitDelete BeginGrants CommitGrants SetLeadView PutUnder AddField Abort` |
| `Settings_proofs` | theorems about `Access`, `Fields`, `FieldValues` and `Pipeline` | |
| `Sessions` | refresh tokens, passwords, links | `BeginLogin CommitLogin BeginRotate CommitRotate Replay Logout BeginChange BeginRedeem SetPassword BeginIssue CommitIssue Gate Abandon` |
| `Sessions_proofs` | theorems about `Sessions`, `Imports` and `Recurrence` | |
| `Filters` | the filter compiler over one lead and its timeline | `Write Act Tick` |
| `Provisioning` | the session's scope and a workspace's birth | `Open Start RunStep Finish Commit Fail` |
| `Work` | tasks and labels | `CreateTask BeginTask CommitComplete CommitUpdate ReopenTask BeginName CommitName ArchiveLabel BeginAttach CommitAttach Detach DeleteOrRestore Tick Abort` |
| `Workspace_proofs` | theorems about `Provisioning` and `Work` | |
| `MCOutbox`, `MCLeads`, `MCMembers`, `MCAssignment` | the small instances TLC checks: symmetry sets, the request bodies and settings a run may send | |
| `MCBackground` | four modules with fairness, side by side: `Outbox`, `Schedules`, `IndexBuilds`, `RateLimits` | |
| `MCBatches` | extends `MCOutbox`; two modules side by side: `Outbox` and `Imports` | |
| `MCServices` | ten modules side by side: `Schedules`, `Fields`, `FieldValues`, `Recurrence`, `Pipeline`, `Access`, `Sessions`, `Filters`, `Provisioning`, `Work` | |

### How a request is modelled

`Leads` and `Members` have one shape. `Begin...` stands for everything a handler
does before its commit: it reads the rows it needs and computes the rows it will
write. `txn[r]` keeps both. `Commit` applies `UnitOfWork!Column` to every column
of every row: what the request did not change keeps what others committed
meanwhile, what it did change overwrites it. `Abort` is a rollback. With a
single element in `Request` the module is the program used by one person at a
time; with two, any other request may commit between a read and its write. All
reads of a request happen at one point. The session's identity map makes this so
for each single row; reads of different rows are spread over several statements in
the code, and commits that fall between those are not in the model.

`Outbox` is finer: each await of `run_dispatch` is a boundary at which the pass
may die. A pass is a `Worker`; the in-memory copies (`loaded`, `answer`) are part
of the state since the code computes `attempts` and `status` from them. Times are
reduced to what the claim query compares: `due` (`next_attempt_at <= now`) and
`expired` (`claimed_at < now - CLAIM_TIMEOUT`).

`Assignment` keeps the two statements of the cursor apart: `Insert` (`INSERT ...
ON CONFLICT DO NOTHING`) and `Lock` (`SELECT ... FOR UPDATE` and the turn). A row
a request created or locked stays locked until its commit or rollback; a request
that meets a lock waits (its action is disabled); a cycle of waits is broken by
`Fail`, as PostgreSQL does. What a rule may be set to is a constant `Setting`: its
condition (`all`, the catch-all; `some`, true of the leads the environment picks;
`broken`, one the compiler refuses), how it decides (`list` for round-robin and
weighted, `group`, `direct` for a fixed member or a field value, `nobody`) and whom
it names, weights expanded. The roster is the set of members who are active,
licensed and WORKING, that is, `skip_unavailable` is on.

### Reading the modules against the code

* `Leads`: an edit's payload is a function from targets (fields, `stage`,
  `assignee`, `rating`, `reason`) to values; a changeset's actions about one lead are
  one entry with what it found (`from`) and what it left (`to`). A request writes an
  entry only for what it changes (`Changed`), and none for a lead it leaves as it is.
  The timeline is kept in commit order, which is not the order it is read in: an
  action is stamped (`performed_at`) while its request computes, before the flush and
  the commit, and `list_actions` sorts by the stamp. So `overtook` keeps, for each
  entry, the earlier ones about its lead that were stamped later: any set of them that
  committed since the request began (`Meanwhile`) and is closed under the order among
  them (`Overtaking`), chosen when it commits. `Before` compares two stamps, and
  `Said` takes what the last stamp says. Visibility of the caller matters only in undo, where the code
  silently drops what the caller cannot see; elsewhere it refuses requests, which
  an environment that never sends them covers. `search_vector` and
  `last_action_at` are left out, a merge has one source lead, and a merge's
  `UPDATE actions` takes the entries committed when it is sent (`upto`). `Clash` is the
  partial unique index.
* `Leads` history variables: `born` (each lead as created), `merged` (leads that
  inherited a timeline), `was`/`left` in a changeset (its leads before and after), `since`
  (the changesets there were when a request began).
  No guard reads them, and of what is stored only the order of stamps depends on `since`.
* `Members`: `Below` is the recursive read of `tenancy/scoping.py`, `Above` the walk
  of `_would_create_cycle`, both as closures. `WorkLead` is a request of its own
  (an edit of a lead) in one step. Templates, names and availability are left out.
* `Outbox`: `tries`, `acks`, `reclaimed`, `redriven` are history, saturating at what
  the properties read. A refused answer also covers a timeout after the consumer
  took the event. `delete_webhook` only clears `is_active`, so the branch for a
  missing endpoint (dispatcher.py:265-271) cannot be reached and is left out.
* `Assignment`: `served` is history: turns per place of the current deal since it
  last changed, and `seen` the roster at any time during the request.
* `Schedules`: a cron expression is the set of instants it fires at. A job (a tick
  over all due schedules, or one "run now") keeps the rows as read; each mail is a
  step, and `last_run_at` is written for all of them by the one commit, through
  `UnitOfWork!Column`. `mailed` (the occurrences a schedule was mailed about),
  `repeats` (mails about one of those), `forgotten` and `overlaps` are history. What
  a mail contains is left out.
* `Imports`: a cell is a value, `Bad` (the validator refuses it) or `Odd` (an action
  type that does not exist). a row is what decides its fate under each `Mapping`: whom
  it identifies, a value, the owner column. `Open` reads the job, a commit then holds
  the lock its early `UPDATE` takes, `Read` reads the leads and the roster, `Finish...`
  evaluates every row, read under the mapping the request loaded, and writes.
  `SetMapping` replaces the mapping and the strategy and keeps the result on show. Every
  write back goes through `UnitOfWork!Column`, so a result equal to the loaded one is
  not written, and the one on show may then be another request's. The result is kept
  row by row where the code keeps counts and the errors. A mapping without columns, or
  one without the identifier, is refused or fails and is left out.
  `basis` (the leads and the mapping a stored result was found with), `applied` and
  `tangled` (runs mapped while a preview or commit of them was under way) are history.
* `IndexBuilds`: an index is named by its field, so a build and a clean-up of two
  declarations meet. `SettleFails` is the session, the UPDATE or the commit of
  `run_declared_index_build` raising, before or after the commit took effect: the task
  ends and nothing starts another. `stranded` marks fields whose task a restart or such
  a failure ended, `muddled` those and fields declared again while a task of theirs was
  on or left behind by a failed drop; both are history.
* `RateLimits`: an attempt increments its keys one by one; a key without a lifetime
  is given one by a call of its own.
* `Registry`: a text carries the verdict the scanners give it (word, blank,
  template, refused). Normal forms are what `fields/registry.py` returns.
* `Fields`: hiding a field and designating the identity read before they commit;
  `crossed` marks fields on which the two overlapped. `FieldValues` writes values
  under the schema of the moment; `raws` marks keys that no field had when they
  were written.
* `Recurrence`: a date is a day number; the calendar of four-year leap cycles is
  spelt out, `AddMonths` and `FirstStep` follow the code's arithmetic.
* `Pipeline`, `Access`, `Work`, `Sessions`: only what decides by rows it does not
  lock is split into `Begin...` and `Commit...`; the rest is one step. `contested`,
  `overlapping`, `late` and `ended` are history.
* `Filters`: SQL's three truth values and its errors; `Means` is the reference, in
  two truth values and in days of the workspace's calendar, written from what
  `filters/dsl.py` and the comments of the compiler promise. `Errs` says which leaf rules
  answer something else for the lead at hand (section 6).
* `Provisioning`: `pending` is what a session has flushed; the six steps run in the
  code's order, each reading through the scope bound at that time.

### Compositions

The modules that share rows are composed by extension or instance: `FieldValues`
with `Fields` and `Registry`, `Pipeline`, `Recurrence` and `Filters` with
`Registry`, `Outbox` with `OutboxContract`, every unit of work with `UnitOfWork`.

`MCBackground`, `MCBatches` and `MCServices` put parts side by side that share no row and no
process state. A behaviour of all of them is then an interleaving of independent
behaviours, and a property of one part is true of the interleaving if and only if
it is of the part. So `focus`, chosen initially, names the part a behaviour is
about; the variables of the others stay `None`, and the state space is the sum of
the parts' instead of their product. The properties and the fairness conditions are
restated for `focus`. The modules' own specifications and fairness are the ones to
read and to prove about.

## 3. Runs

| Run | Instance | Question | Expected |
|---|---|---|---|
| `batches` | `Outbox` with 1 event, 2 passes, 3 tries, 2 redrives, 1 crash; `Imports` with 1 run, 1 identity, 2 mappings, 2 requests, 2 commits | Is what a row's status says true of what was sent, and does the row implement `OutboxContract`? Are imported rows dealt evenly, and as the dry run foretold? | holds |
| `outbox_stuck` | 1 event, 2 passes, 1 redrive, 1 crash | Is every DELIVERING row reclaimable, redriven ones too? | violated |
| `outbox_grind` | 1 event, 2 passes | Do rows awaiting a retry have budget left? | violated |
| `leads_serial` | 2 leads, 2 fields, 4 stages, 5 changesets, 1 request | Timeline, score, reasons and undo over every sequence of requests | holds |
| `leads_race` | 2 leads, 4 changesets, 2 requests, 2 kinds of caller | When requests overlap, do built-in columns match the timeline in the order of `performed_at`, and does the index refuse only what was taken meanwhile? | holds |
| `leads_lost_update` | as above, 3 changesets | The same for the field values | violated |
| `leads_reopened` | 1 request, 4 changesets | Does only a lost lead carry a lost reason? | violated |
| `members_serial` | 3 people, 2 leads, limits 1 and 2, 1 request | Forest, seats, clean departures | holds |
| `members_cycle` | 3 people, 1 lead, 2 requests | Is the hierarchy a forest when requests overlap? | violated |
| `assignment` | 2 members, 2 rules, 1 group, 2 requests of 1 or 2 leads, 1 settings change | Fair turns, reachable assignees, no deadlock that lasts | holds |
| `background` | `Outbox` with 2 events in one batch, `Schedules` with 2 jobs, `IndexBuilds` with 2 fields and 2 tasks, `RateLimits` with 2 attempts; fairness | Does what goes on without a caller come to an end: events settle, due reports are mailed, declared indexes leave PENDING, lock-outs pass? | holds |
| `services` | ten modules on small instances, one request or two | The safety properties of each, below | holds |

Properties of `services`, of `background` and of the imports of `batches`, by module:

| Property | Says |
|---|---|
| `PreviewForetells`, `EvenSplit` (`Imports`) | a commit of a run that stands PREVIEWED, and that finds the leads its dry run found, does to every row what the dry run on show said, whatever was mapped, previewed and committed before and beside it; rows are dealt by the weights, but for one turn |
| `RepeatsExplained`, `DueIsMailed` (`Schedules`) | every second mail about one occurrence is explained by "run now", a lost transaction or an overlap; and no occurrence is lost within the catch-up window |
| `RowsDescribeIndexes`, `PendingSettles` (`IndexBuilds`) | a settled row says what the catalogue holds; PENDING ends, unless the task ends with its process or at the settling |
| `LockoutEnds` (`RateLimits`) | a counter over its budget does not stay there, even if the process ended before it gave it a lifetime |
| `IdentityUsable`, `CopyKeepsTrees` (`Fields`) | the identity field is on show and can identify; cloned options keep their parents |
| `StoredResolves` (`FieldValues`) | whatever is done to the schema between two writes, a stored value is in the normal form of its field and its codes have labels |
| `FirstInWindow` (`Recurrence`) | a window lists the first date of the recurrence in it, against a search over all of them |
| `PipelineWhole` (`Pipeline`) | one live stage of each singleton kind, one live default disposition, the cap on reasons, with the two overlaps that break them named |
| `AccessStands` (`Access`) | what acts under a template acts under one that exists; Root can do everything; a key can do no more than a member with its template |
| `EndedStaysEnded` (`Sessions`) | a family that was ended has no usable token, a user one live link, but for requests already under way |
| `FiltersMean` (`Filters`) | what the SQL selects is what the filter says in two truth values and in the customer's days, but for three kinds of rule that err by themselves |
| `WorkspaceWhole` (`Provisioning`) | a workspace has all its parts or none, its own slug, grants that join its own rows; the session's scope is put back |
| `TimelineTellsTasks` (`Work`) | completions on the timeline match the state of the task; every visible task is in one list; labels differ by more than case |

Where the code lets two overlapping requests break such a property, the property
names that overlap as its one exception, by a history variable (`crossed`, `contested`,
`late`, `overlapping`, `muddled`, `tangled`, `overtook`): the run then shows that nothing else breaks it.

Each property of a passing run has a mutant in `PROJECT.json`: a definition of the
model with the bug a programmer might make, for which TLC does find the property
violated.

### Bounds, and why they are enough

* **Outbox.** `DeadAfter` is 3 instead of 8: below, at and above the limit all occur,
  and two passes can each lose one of the other's counts. A third pass adds no new
  kind of overlap: a row is held by its rightful holder and by late ones, and late
  ones differ only in what they loaded. `RaiseCap` bounds how often an exception
  may hit one row (else `attempts` grows without end, as in `outbox_grind`).
  The queue of `background` needs two events for the rows of a batch to end
  differently, and one pass, since only its own liveness is in question; there
  `DeadAfter` is 2 and `RaiseCap` 1: one exception on one row is enough to leave
  the other rows of the batch claimed, and more of them repeat that.
* **Leads.** Two leads are the smallest set on which a batch can conflict in part,
  a merge moves a timeline and identities collide. Five changesets allow an edit,
  another one over it, and an undo, an undo of the undo and one more edit. The
  request bodies (`SerialPatches`, `RacePatches`) each exercise a branch: identity
  changed, identity cleared, stage with reason, archived stage refused after the
  values were assigned, several columns at once. Fields, stages and scores beyond
  that behave alike.
* **Members.** Three members are a manager, somebody under them and somebody under
  that one; the leaver, the successor and the caller can all differ. Seats 1 and 2
  make every limit bite. All four properties are proved for any number of members.
* **Assignment.** Two rules are what two locks in opposite orders need; a batch of
  two fires both; a group of three places with one member twice has a turn order.
  One settings change may come at any point of the overlapping requests.

* **Schedules.** One schedule, a cadence of two occurrences in a horizon of two, a
  catch-up window of two: an occurrence may be answered at once, later, together with
  the next one or not at all. Two jobs overlap; one failure refuses a mail or loses a
  transaction.
* **Imports.** One sheet of four lines that all name one lead or nobody, read by two
  mappings: under one, an error stands among rows that take a turn and rows with an
  owner of their own, under the other there are a row without an identity and an action
  type that does not exist. So the fates of the rows differ between the mappings and by
  whether the lead is there. Each mapping comes with one of two strategies, dealing by
  weight and dealing to those at work; an even rotation is the first with equal weights, and
  without a rotation nothing is dealt. Weights are 2 and 1. Two requests overlap, the run may be applied
  twice, and the lead may be created by hand between any two steps.
* **IndexBuilds.** Two fields for the limit and for the one lock on the table, two
  tasks, one failed statement or settling, one restart: a build, a withdrawal and a second
  declaration of the same field fit in.
* **RateLimits.** An address with budget 1, a client with budget 2, so that either may
  be the one exceeded; one process ends between the two calls.
* **Fields.** The built-in field and two dependent ones with up to three options, five
  edits: enough for a parent, its child, an archived one and a copy of both.
* **FieldValues.** Two fields of three types, one key that a payload may name before a
  field has it, ten raw values (one for each branch of the normal forms), three edits.
* **Recurrence.** Starts on 31 January and 29 February of a leap year and 30 December,
  intervals 1, 2 and 5, every frequency, written and asked for on every day from 30
  January to early March of the next year, windows of one day and of 31: the clamp, the
  year's end and the leap day all occur.
* **Pipeline, Access, Work.** Four edits and two overlapping requests: a read, another
  request's read and commit, and the first one's commit. One stage, disposition and
  reason more than are provisioned; two templates, a member and a key; one task, two
  labels whose names differ in case.
* **Sessions.** One user, three tokens (a family rotated twice, or two families), two
  links, two requests, two passwords. Users do not interact.
* **Filters.** Every operator of the three kinds of storage, four windows, each history
  rule, and groups of pairs and of triples, on every lead of the small value sets, with
  a timeline of up to two actions at any half-day of two days, half a day east of UTC.
* **Provisioning.** Three workspaces that want one slug, through two sessions.

`CHECK_DEADLOCK FALSE` appears where the system may come to rest: when bounds on
changesets, crashes or redrives are used up, or nobody is left who could send a
request. `assignment` checks deadlock: somebody can always go on.

### Fairness

Only `background` assumes any.

* *Event queue*: weak fairness of the two clocks, of claiming a due row, and of a live
  pass's next step. arq starts a pass every ten seconds; the claim takes the oldest due
  rows first, so the due row that has waited longest cannot be passed over for ever;
  the HTTP client has a timeout, so a send ends.
* *Reports*: weak fairness of each job's start and next step: arq starts a tick every
  minute, whatever the last one does. Time need not pass and nobody has to press "run
  now".
* *Index builds*: strong fairness of each task's next step. The event loop runs it, and
  a task waiting for the lock on the table gets it if the lock is free again and again.
* *Rate limits*: Redis ends windows, a request under way goes on, and strong fairness
  of arrivals: somebody goes on trying. `LockoutEnds` needs that last one, because a
  key without a lifetime is repaired by the next attempt.

Nothing is assumed about operators, exceptions, refusals, restarts or crashes, and
these are bounded: a worker that always dies delivers nothing. All other properties
are safety properties, checked without fairness.

## 4. Findings

Disagreements between the code and what the repository says, met while modelling;
each has a run whose counterexample shows it, and `PROJECT.json` quotes the line.

* `outbox_stuck`: a redrive overlapping a delivery can leave a row DELIVERING
  without `claimed_at`; the reclaim never finds it.
* `outbox_grind`: the `except` branch of `run_dispatch` ignores
  `DEAD_AFTER_ATTEMPTS`.
* `leads_lost_update`: of two overlapping edits of different fields of a lead one
  is lost from the row and stays in the timeline.
* `leads_reopened`: undoing a move to Lost keeps the lost reason.
* `members_cycle`: two overlapping changes of managers make a reporting cycle,
  on which the visibility query does not end.

## 5. Proofs

Checked by `tlapm` for every value of the constants that meets the assumption of the
component's module. An assumption is part of a module, or, where several modules live in
one composition, a definition that is a hypothesis of the theorem and an ASSUME of the
module TLC runs; so TLC evaluates each of them.

| Assumption | Says | Evaluated in |
|---|---|---|
| `LimitsAssumption` (`Outbox`) | the limits are numbers, those of the batch and of the tries positive | `MCOutbox` |
| `SchemaAssumption` (`Leads`) | leads are finitely many, the identity is a field, no field has the name of a column, LOST stages are closed ones | `MCLeads` |
| `AssignmentAssumption` (`Assignment`) | a setting is a condition, a strategy and a deal of members; a new workspace's rules are settings; batches are not empty | `MCAssignment` |
| `MembersAssumption` (`Members`) | NULL is no member, a seat limit is positive, members are finitely many | `MCMembers` |
| `NoneIsNoValue` (`IndexBuilds`) | NULL is no field and no status | `MCBackground` |
| `SchedulesAssumption` (`Schedules`) | instants are numbers, schedules and jobs are finitely many, NULL is no time and no membership | `MCBackground`, `MCServices` |
| `IdentityAssumption` (`Fields`), `AccessAssumption` (`Access`), `SessionsAssumption` (`Sessions`), `NoneIsNoWorkspace` (`Provisioning`) | NULL is no value; the built-in identity field can identify; Root is a template | `MCServices` |
| `FieldAssumption` (`Fields`), `ValueAssumption` (`FieldValues`) | fields are numbered and finitely many, the built-in ones have a type, every label has a slug, pasted lines and lists are sequences, a text that is no option has a stored spelling | `MCServices` |
| `WorkAssumption` (`Work`) | NULL is no member and no kind of request, the bounds are numbers, every spelling has one without case | `MCServices` |
| `ImportAssumption` (`Imports`) | sheets are sequences of rows, members are finitely many, weights are at least 1, NULL is no request, no mapping and no status | `MCBatches` |
| `RecurAssumption` (`Recurrence`) | a start is a date of the calendar, not before the epoch; intervals are 1 to 365, which is all the registry stores | `MCServices` |
| `PipelineAssumption` (`Pipeline`) | there are rows for what provisioning writes, lost reasons and overlapping calls are finitely many, NULL is no kind of a stage | `MCServices` |

Theorems about `Leads` and `Members` may have a hypothesis about the environment as well:
`OneRequest` (`Leads`) and `Request = {r}` (`Members`) say that requests do not overlap.
Overlapping requests can break these properties: runs show it for `ValuesMatchTimeline`
and `ReportsAcyclic` (`leads_lost_update`, `members_cycle`), the hazards' notes in
`PROJECT.json` say how for `UndoneOnce`, `DeactivationIsClean` and `SeatsRespected`. The
others fall to the same two causes, a row written from a stale read and a decision by rows
that nobody locks: a move between two open stages that read the lead before another edit
moved it to Lost leaves that edit's reason behind, and a departure re-hangs the reports
under the manager the leaver had when it read.

### The event queue

| Theorem | Statement | Argument |
|---|---|---|
| `OutboxTypeCorrect` | `Spec => []TypeOK` | `TypeOK` is inductive; one step per action. `FlushType` and `OutcomeType` carry the row type through the ORM's flush. |
| `DeliveredIsAccepted` | `Spec => []DeliveredWasAccepted` | Not inductive by itself: a pass may hold a positive answer it has not recorded. `AcceptedInv` adds that such an answer was an acceptance. A flush can only leave the stored or the assigned status, so another pass's stale write cannot invent DELIVERED. |
| `DeadIsTried` | `Spec => []DeadWasTried` | `attempts` is not the number of tries: passes overwrite it, redrives reset it. `TriedInv` says that every value of it, stored or in a pass's memory, is *covered* by real tries, and that a pass that has sent is covered one further. |
| `OneDelivery` | `Spec => []OneDeliveryUnlessTakenOver` | `OwnedInv`: a row whose claim never timed out and that nobody redrove is *held* by the pass that claimed it. No other pass has it on its list, the copy in memory equals the row, and an acceptance not yet recorded is that pass's own. |
| `Reclaimable` | `Spec => []ReclaimableUnlessTakenOver` | A part of `OwnedInv`. |
| `OutboxImplementsContract` | `Spec => ImplementsContract` | Refinement, one action at a time: `Publish` is `Queue`, `Send` is `Try`, `Raise` is `FailAndRecord`, `Record` and the commit of a redrive are `Report`, a claim and the read of a redrive are `Excuse`, everything else is a stutter. `AcceptedInv` gives the contract's guard on reporting, `TriedInv` the one on giving up. |

### Leads, timeline and undo

| Theorem | Statement | Argument |
|---|---|---|
| `LeadsInvariant` | `Spec => []LeadsInv` | `RowsInv` and `TimelineInv` say the two tables are well-formed, `TxnInv` that what a request will write is *told* by the entries it will append (`Telling`): a change of a row it read has an entry naming what it found and what it leaves. `ToldInv` is the aim, for what the timeline can be trusted on (`Told`): the columns whatever overlaps, the field values, which share one JSON column, if nothing does. Each `Begin...` has a lemma that its transaction is sound; a commit takes the last entry of a target to the value its flush leaves. |
| `ColumnsTold` | `Spec => []ColumnsMatchTimeline` | From `LeadsInvariant`, for any number of overlapping requests: a flush writes the columns a request changed and no other, so that a column is what the last entry to commit says (`LastTold`). That entry is the last in the order of `performed_at` too unless it was overtaken (`LastIsSaid`). |
| `ValuesTold` | `OneRequest => (Spec => []ValuesMatchTimeline)` | From `LeadsInvariant`; the row a request read is still there when it commits (`CurrentInv`), and nothing is overtaken. |
| `IndexRefusals` | `Spec => []IndexRefusesOnlyOverlaps` | `IdentityInv`: an identity that a request is about to give a lead (`Renamed`) was free when it looked (`Fresh`, one lemma per handler, from `SameIdentity` or `Given`), so whoever has it now took it in a changeset committed since (`Guarded`, kept by `GuardStays`). That stored identities differ is a part of it and not the aim. A row that is rewritten keeps its identity unless the request renames it, so two leads that would clash are never both old. |
| `MarkedOnce`, `ReasonFollows` | `OneRequest => (Spec => []UndoneOnce)`, `... []ReasonFollowsEdits` | Conjuncts of `SerialInv`, which adds to `LeadsInv` that a request moves a stage together with its reason unless it undoes (`Reasoned`), that an undo writes what it planned (`Undoing`), and that the edit report agrees with the timeline (`ReportInv`). |
| `UndoExact`, `FullyUndone` | `OneRequest => (Spec => UndoIsExact)`, `... BatchFullyUndone` | Action properties, from `SerialInv`: what `_plan_for` compares, first and last entry of a changeset about a target, is what the batch found and left; so "not conflicted" means that the lead is as the batch left it. |
| `ScoreRollsUp` | `OneRequest => (Spec => []ScoreIsRollup)` | `ScoreInv`: the request in flight will write each lead the score it read and what its entries and the timeline it takes over (`Brought`) add. The total over a timeline is a fold over a set of positions, of which the library proves nothing by induction for an operator. `TotalIs` gives the fold as a sum defined by a recursive function, and each fact about sums (what one entry more adds, what a disjoint part adds) is proved by the *least counterexample*: the finite sets on which it fails have a smallest one (`WFMin`), which is not empty, and without one of its elements it still fails. |

### Members

| Theorem | Statement | Argument |
|---|---|---|
| `ReportsStayAcyclic` | `Request = {r} => (Spec => []ReportsAcyclic)` | `SerialInv`: the stored table is a forest, and so is the one the open transaction would leave. One lemma per way the table changes (`SetManagerKeepsForest`, `DeactivateKeepsForest`, `JoinKeepsForest`, `SameLines`), all without induction over chains: acyclic means that in every set of members somebody reports outside of it. |
| `SeatsKept` | `... (Spec => SeatsRespected)` | `TidyInv` says what the open transaction would do to the seats: hand out none, hand out one and there is one free, set a limit that fits, or be an upload. `SeatsCounted` turns that into cardinalities. |
| `CleanDeparture` | `... (Spec => DeactivationIsClean)` | `TidyInv` also says that a transaction that deactivates somebody re-hangs the reports and moves the open leads that there are now. |
| `StillBelow` | `... (Spec => StayBelow)` | `Above` is the smallest closed set, so it is enough that a set closed under the new lines is, with the leaver added if it needs to be, closed under the old ones. |

### Assignment

| Theorem | Statement | Argument |
|---|---|---|
| `AssignmentInvariant` | `Spec => []AssignmentInv` | The conjunction of the parts below. |
| `TypesHold` | `Spec => []TypeOK` | `ShapeInv` and `LockInv`: a request holds exactly the cursor rows it moved or created; a row it created and has not moved is the one it is about to lock, and no other request sees it. |
| `FairTurns` | `Spec => []FairShare` | `ServedInv`: since a deal last changed, every place had as many turns as the others, or the places of an arc that ends at the cursor had one more (`Even`). `TurnsInv`: the turns an open request took from one deal go round it from the place after the committed cursor to where the request left it. A commit joins the two arcs (`CommitKeeps`); the lock keeps the committed cursor still until then. A change of the deal starts the count again, and turns a request took from a deal that has changed since are not counted: the code's modulo goes on from the old position over the new list. |
| `LeadsReachSomebody` | `Spec => []NobodyUnreachable` | `SeenInv`: whom a request may still give a lead to was on the roster at some moment of the request: the roster it read, and the deal it filtered by it. |

### Services

| Theorem | Statement | Argument |
|---|---|---|
| `BuildsTypeCorrect`, `RowsAreTrue` (`IndexBuilds`) | `Spec => []TypeOK`, `[]RowsDescribeIndexes` | `DescribedInv`: a field that was never muddled has at most one build under way, PENDING means exactly that one is, and every step of it knows the state of the index (`StepKnows`). A settling that fails ends the task with the row as it was, and muddles the field. |
| `SchedulesTypeCorrect` (`Schedules`) | `ScheduleSpec => []ScheduleTypeOK` | `TimesInv`: every mail, last run and running job is at or before the clock, and a job has read a row of each schedule it deals with. |
| `RepeatsAreExplained` (`Schedules`) | `ScheduleSpec => []RepeatsExplained` | `RepeatsInv`, an argument by credit: presses, lost mails and overlaps buy the repeats there were *and* those still owed (`Owed`). Owed is one repeat for each job that waits for the schedule, one if a running job will overwrite a later last run (`Overwritten`), and one if the row does not know of an occurrence mailed (`Unknown`). A tick that began alone (`Clean`) pays for nothing, because its row was due after its last run; it owes a repeat only if another job has mailed its occurrence meanwhile, and the sending of it ends what is unknown. `LessIsOwed` covers the steps that owe no more than before, `SendOwed` a mail, `BeginOwed` a job that begins. |
| `SessionsTypeCorrect`, `EndedForGood` (`Sessions`) | `Spec => []TypeOK`, `[]EndedStaysEnded` | `FamiliesInv`: a family is named by its first token and is one user's. `RequestKnows`: a rotation that began after its family ended presented a token a late rotation brought in; an issue nobody overtook has seen all outstanding links. |
| `ImportTypeCorrect` (`Imports`) | `ImportSpec => []ImportTypeOK` | `ImportInv`: a commit that has read holds the row of its run, a request works under a mapping a run may have, and what was seen still exists. The type of a result comes from `ForetellInv`, next but one. |
| `BatchesSplitEvenly` (`Imports`) | `ImportSpec => []EvenSplit` | `ImportInv` keeps that the owners go round the targets (`GoRound`). `DealtByRounds`, by induction over the rows: after `k` rows that are not in error, a member has its weight times `k` div the number of targets, and its places among the first `k` mod that number. |
| `CommitsAreForetold` (`Imports`) | `ImportSpec => PreviewForetells` | `ForetellInv` on top of `ImportInv`. `ShownInv`: the result on show is what an evaluation found with the leads and the mapping `basis` names, and a run that is not tangled stands PREVIEWED or COMPLETED by the mapping it has. `LoadedInv`: the same of what a request in flight loaded; while its run is not tangled, no request to map it is open beside a preview or commit. A mapping takes its run out of PREVIEWED (`SetMappingForetells`), so an old result stays on show but foretells nothing; a preview that finds what it loaded writes nothing, and then the one on show may be another request's, found the same way (`ShowForetells`). With the same leads and mapping, dry run and write differ only in what the write looks up late; that a row reported as created made a lead is `Insertable` before and `CommitWrites` after. |
| `RecurTypeCorrect` (`Recurrence`) | `RecurSpec => []RecurTypeOK` | `RecurInv`: what is stored is a rule with one of the starts, a frequency and an interval the registry takes. |
| `ListingNamesFirst` (`Recurrence`) | `RecurSpec => []FirstInWindow` | Months are counted from the epoch (`MonthStart`); each ends where the next begins (`MonthsOfYear`, `MonthsApart`), so a date cut to the end of its month is still within it (`AddedMonths`) and later months give later dates (`DatesOfMonths`, `DatesRise`). The month of a day decides whether a date is before or after it (`MonthDecides`); so nothing before the step where the search begins is due, and the date after that step is late enough, in each of the four frequencies (`SearchStarts`). `NextIsFirst` puts that together. The calendar is the module's, with a leap year every fourth; it is the real one from 1901 to 2099. |
| `ProvisioningTypeCorrect`, `Whole` (`Provisioning`) | `Spec => []TypeOK`, `[]WorkspaceWhole` | `PartsInv`: what a session has flushed for a workspace is exactly what the steps it took write. `OnesOwn`: no workspace is two sessions'. `RowsInv`: slugs differ in what is committed and in each session's view. |
| `WorkTypeCorrect`, `TimelineTells` (`Work`) | `WorkSpec => []WorkTypeOK`, `[]TimelineTellsTasks` | `TasksInv`: the completions on the timeline of a task nobody overtook are its reopenings and one more while it is done; a task that is not there has none. `LabelsInv`: no two names agree without case. `RequestsInv`: what a request read (`seen`) was an unfinished task, or names that all differ from its own without case; a commit that finds something else puts its row in `late`. A count is the cardinality of a set of positions, and an entry adds one position to one set (`EntryAdds`, `EntriesCounted`). |
| `PipelineStaysWhole` (`Pipeline`) | `PipelineSpec => []PipelineWhole` | `StagesInv`: the singleton stages are the provisioned ones. `DefaultsInv`: a call that read a disposition read it neither archived nor default, as it needs it, and if it is one now the two calls are recorded in `contested`. `ReasonsInv`: a reason being created counts as one that exists, so each overlapping creation costs one place of the cap and no more. |
| `PipelineTypeCorrect` (`Pipeline`) | `PipelineSpec => []PipelineTypeOK` | `TypesInv`; that a slug which is taken is numbered until it is free (`SlugIsNew`) is a pigeonhole: a finite set of taken slugs cannot hold every number, and the least number it does not hold is the one chosen. |
| `AccessTypeCorrect`, `Stands` (`Access`) | `Spec => []TypeOK`, `[]AccessStands` | `RequestsInv`: no request half way through is about Root, and what it will write names its own template and fields that exist. |
| `Usable` (`Fields`) | `FieldSpec => []IdentityUsable` | `IdentityInv`: what a request read of its field still holds of it, or the field was crossed by the other kind. |
| `FieldsTypeCorrect` (`Fields`) | `FieldSpec => []FieldTypeOK` | `FieldsInv`: keys differ, and each field's options are a sequence whose codes differ (`OptionsHeld`). Every edit keeps that and takes away no code, parent, key or type (`Grown`, `SchemaGrows`); a new key or code is a slug nobody has (`SlugIsNew`). Pasting and copying are recursive functions over the lines and the options, each with its loop invariant. |
| `CopiesKeepTrees` (`Fields`) | `FieldSpec => CopyKeepsTrees` | `Copies`, the loop invariant of copying: what was copied so far stands behind what there was, each copy has the code of its original, and its parent, if it has one, is the copy of the original's parent. Roots come first (`InOrder`), so the copy of a root whose code was free is there when its children come. |
| `ValuesResolve` (`FieldValues`) | `ValueSpec => []StoredResolves` | `ValuesInv` adds that a key which is not raw is some field's. A write stores what resolves, type by type (`NormalResolves`; for tags, `TagsOf` is the loop invariant). An edit of the schema leaves it resolved, because the schema only grows (`ResolvesStill`), and no other field is given the key. |

These properties are checked by TLC for the same modules inside `MCBackground`,
`MCBatches` and `MCServices`, which restate them for `focus`.

The invariants were given to TLC before they were proved: `LeadsInv` and `IdentityInv`
hold in all 272,184 states of `leads_race`, `SerialInv` and `ScoreInv` in the 352,107 of
`leads_serial`, `SerialInv` and `TidyInv` of `Members` in the 108,763 of
`members_serial`, `AssignmentInv` in those of `assignment`, `PipelineInv` and `TypesInv`
in the 61,914 of `Pipeline` alone, `TimesInv` and `RepeatsInv` in the 242,646 of
`Schedules` with two jobs and two cadences, `TimelineInv` in the 29,162 of `Work` alone,
`FieldsInv` in the 81,801 of `Fields` alone, `ImportInv` and `ForetellInv` in those of
`batches`, `ValuesInv` in the 15,798 of `FieldValues`, `RecurInv` in the 5,748 of
`Recurrence` alone.

### Induction

The induction theorems of the library take a property as an operator, which no prover
here can instantiate. Where a proof needs one over a number or a finite set, it takes
the least counterexample instead: `WFMin` says that a set of naturals, or of finite sets,
has a minimal element, and a set defined by the negation of the claim is an ordinary
set. `NatLeast`, `LeastSet`, `Greatest` (that `Max` of a bounded set is one of it) and the
lemmas on sums and on numbered slugs are proved that way. It needs the definition to be a recursive function or a fold over a set whose step
can be unfolded, and one such proof for every fact about it.

### What stays with TLC

* Liveness, and with it everything about fairness and ENABLED: `EventuallySettled`,
  `DueIsMailed`, `PendingSettles`, `LockoutEnds`.
* What a recursion computes, against a reference: `FiltersMean` (a recursion over the
  nodes of a filter). The least counterexample would need an invariant of that recursion
  under SQL's three truth values, a theory of its own.

No module declares a RECURSIVE operator; sums and selections come from the community
modules' folds, `Filters` recurs by functions over its nodes, `Assignment` deals by one,
`Fields` and `Registry` paste, copy and collect tags by one, `Imports` repeats members by one.

### What the proofs taught about the models

* An entry of the timeline for a value that did not change would make `ToldInv` depend on
  the order of entries; reading `actions.py:226-239` again showed that the code writes none.
* The type of a result was no invariant of the requests alone: two previews under
  different mappings overlap, the later one finds what it had loaded, and the ORM writes
  nothing over the result the earlier one put on show. Hence `basis`, which follows the
  result on show and not the last preview, and the two halves of `ForetellInv`.
* A row of the queue can lose its claim time without any redrive when three passes overlap,
  which is why `ReclaimableUnlessTakenOver` excepts rows whose claim timed out as well as
  redriven ones.
* `DefaultsInv` was not inductive while committing a new default wrote a row that the call
  had read as the default already. The ORM finds nothing to write there, so a default
  archived meanwhile is not made the default again; the model now says so.
* That repeated reports are explained is not a matter of matching each repeat to a cause:
  a job that overlaps another can leave behind a last run earlier than an occurrence
  already mailed, and the repeat comes from a tick that starts later, alone. Hence
  `Overwritten` and `Unknown`, which keep that repeat on account.

## 6. What is not modelled

`PROJECT.json` has the whole list with reasons. In short: reads (views, reports,
dashboards, exports), rendering and scanning of text (their verdicts are members of
small sets), message templates, I/O, the web client, demo data. Within modelled
components: bulk distribution, the intake log, webhook payloads and signatures, money,
locations and users as filter operands, assignee-change filters (the transition of
stages under another name), the capability groups that open one kind of endpoint each, and
leads with `skip_unavailable` off.

### What the code does that no property forbids

Met while modelling. Where a property speaks of it, the property names it as an
exception; where a text of the repository says otherwise, that text is named.

* *Leads and members*: two overlapping undos of one changeset both apply; a lead given
  to a leaver during the deactivation stays with them; two requests that count the last
  free seat both take it; lowering the seat limit looks at no lock either. Of two overlapping
  edits of one column, the one that stamped its action first may commit last: the column
  is then not what the timeline's last entry says (`services/leads.py:11-12` says the two
  never diverge; `ColumnsMatchTimeline` excepts it). One bulk edit or intake that gives an
  identity to several leads, or a creation that lost the race for one, is refused by the
  index with an error of the database and not by the 409 of `docs/02-api-contract.md:30`.
* *Assignment*: a rule whose conditions parse and do not compile is stored and then
  fails every create; `highest.scalar() or -1` (`services/routing.py:298`) gives the
  second rule priority 0 again.
* *Reports*: `render` looks at neither `report_type` nor the parameters; `send_now`
  records nothing for a refused mail, although its text says it records the outcome
  either way; the module says a report is deactivated when its creator leaves
  (`services/scheduling.py:14-16`), and on the mail path nothing does that.
* *Imports*: the FAILED status is rolled back with the request that set it; a completed
  run becomes PREVIEWED by a new preview and may be committed again; mapping a run again
  keeps the old dry run's counts and errors in the job although its status is MAPPED, and
  it may be committed without a new preview; a preview that overlaps a new mapping leaves
  the run PREVIEWED with the result of the old one (`CommitAsForetold` excepts both, the
  first because nothing is foretold by a run that is not PREVIEWED); `sheets._dedupe`
  can make two column names equal; a dry run counts a new identity named twice as two
  creates, and the commit is then refused.
* *Indexed fields*: designating the identity field backfills nothing; the limit on
  declarations is counted without a lock; a declaration made while an earlier task of
  the field runs can end READY without an index; a restart leaves PENDING as it is,
  and so does an UPDATE or commit that raises when a build settles
  (`workers/indexing.py:235-248`): the index may then be there, valid, under a row that is
  PENDING until it is withdrawn (`workers/indexing.py:205-206` says a status reaches READY
  or FAILED; `RowsDescribeIndexes` and `PendingSettles` except it).
* *Fields and values*: hiding a field and designating it the identity can cross;
  cloned options lose their parent when its code is taken or when the parent is a child
  that comes later; a key written before a field had it becomes the field's value as it
  came (`fields/values.py:148-152`); a parent claimed for a root option is corrected in
  silence.
* *Recurring dates*: a bare date is stored as YEARLY; nothing refreshes the stored
  `next` (`services/scheduling.py:319`, `fields/registry.py:451` say a nightly job
  does); "today" is the server's date, and a window lists one date per lead.
* *Pipeline*: active stages are numbered from 0 when reordered and after LOST when
  created; an archive that overlaps a new default leaves no live default disposition;
  the cap on reasons is counted without a lock; the default reason can be archived;
  options whose slugs agree are refused by the constraint instead of being numbered.
* *Permissions*: an update may give a template the name of another; two overlapping
  replacements of the matrix can merge; revoked API keys still keep a template from
  being deleted; a key is an administrator by the leads flag alone, a member by leads
  or permissions.
* *Sessions*: two overlapping rotations of one token both succeed; a rotation under way
  survives a log-out or a reset; two overlapping redemptions of one link both set a
  password; a sign-in that rehashes an outdated hash writes back the old password if
  one was chosen meanwhile (`services/auth.py:78`). `revoke_all_for_user` has no caller
  on deactivation and `purge_expired` none in the scheduler, although their texts say so.
* *Filters*: three kinds of rule answer something else than the text beside them says,
  and `FiltersMean` excepts, by `Errs`, the leads on which one of them does. `last_days` is
  n times 24 hours back from now, where `filters/dsl.py:72-75` says "seven of the
  customer's days" and `filters/compiler.py:18` that relative windows resolve in the
  workspace's timezone. Asking whether tags are empty fails on JSON null, where
  `filters/compiler.py:207` counts it as no value. `not_in` drops a lead without a value,
  where the comment at `filters/compiler.py:308` says such a lead belongs in the negated
  result (it is about `not_contains`; `ne` keeps it too).
* *Tasks and labels*: two overlapping completions record two; a task that is completed
  meanwhile is still edited; a label archived meanwhile is still attached; names that
  differ in case can be created at the same time; completing a task of a deleted lead is
  refused.
* *Bootstrap*: the guard against a second first account reads the count without a lock.

## 7. Plan

Done, in this order: `UnitOfWork`, `Outbox` with its contract and proofs, `Leads`,
`Members` with its proof, `Assignment`; then `Schedules`, `Imports`, `IndexBuilds`,
`Registry`, `Fields`, `FieldValues`, `Recurrence`, `Pipeline`, `Access`, `Sessions`,
`RateLimits`, `Filters`, `Provisioning`, `Work` and the composed runs.

Then the theorems of section 5, in the order queue, sessions, index builds,
provisioning, permissions, fields, leads, members, assignment, scores, pipeline,
schedules, tasks and labels, options and values, imports, recurring dates.

Worth proving next: `FiltersMean` (`Filters`), with an invariant of the recursion over the
nodes of a filter.

To model: `Pipeline` composed with `Leads`, so that the stages and reasons that are
constants there may be archived while leads use them; assignee changes and money in `Filters`.

## 8. Running it

In this directory:

    tlc -workers 2 -config batches.cfg MCBatches
    tlc -workers 2 -config assignment.cfg MCAssignment
    tlc -workers 2 -config background.cfg MCBackground
    tlc -workers 2 -config services.cfg MCServices
    tlapm Outbox_proofs.tla
    tlapm Leads_proofs.tla
    tlapm Members_proofs.tla
    tlapm Background_proofs.tla
    tlapm Sessions_proofs.tla
    tlapm Workspace_proofs.tla
    tlapm Assignment_proofs.tla
    tlapm Settings_proofs.tla

Each run takes between a second and four minutes; `batches` is the largest, with
768,143 distinct states. `Leads_proofs`,
`Settings_proofs` and `Sessions_proofs` take about six minutes from nothing, each of the
others one or two.
