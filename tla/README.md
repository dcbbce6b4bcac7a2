# A formal model of the appointment agenda

This directory holds a TLA+ development of the agenda in this repository: a
multi-tenant scheduling system with a Node/Express backend on Postgres
(`backend/src`, `database/migrations`), rules shared by both sides
(`shared/src`) and a Vue frontend (`frontend/src`). The models are written from
the source; the documents (`docs/entrega/FEATURES.md`) and comments are quoted
only where the code does something else than they say.

Contents: [inventory](#inventory), [modules](#modules),
[how the modules read the code](#how-the-modules-read-the-code), [runs](#runs),
[bounds](#bounds), [fairness](#fairness), [proofs](#proofs),
[where code and documents disagree](#where-code-and-documents-disagree),
[other behaviour worth knowing](#other-behaviour-worth-knowing),
[not modelled](#not-modelled), [plan](#plan).

## Inventory

| Component | State it keeps | Operations | What is hard | What makes it correct | Module |
|---|---|---|---|---|---|
| Appointment lifecycle (`appointment-lifecycle.ts`, state trigger) | `appointments.state` | six states, two open | the map is written twice, in TypeScript and SQL | both lists agree; closed states stay closed | `AppointmentTypes` |
| Booking handlers (`routes/appointments.ts`, `services/booking.ts`) | rows of `appointments`, `override_*`, `audit_events` | request, schedule, approve, reschedule, transition, patch, ignore-conflict | rows are read from the pool before the transaction that writes them | no unmarked double booking; overrides attributed | `Booking`, `Agenda`, `Desk` |
| Conflict recheck (`services/scheduling.ts`, `conflict.ts`) | advisory locks per professional and room | lock, load, evaluate | several statements, two locks, two owners | what was found still holds at the write; no lock cycle | `Booking`, `Availability` |
| Session charge and ledger (`db/ledger.ts`, `routes/ledger.ts`) | append-only `ledger_entries` | automatic charge, manual entries | read-then-insert beside a partial unique index | one session charge per completed appointment | `Booking`, `Desk` |
| Recurring series (`appointment-series.ts`, `series-materialize.ts`, `db/series.ts`) | `appointment_series`, materialized rows | create, edit, split, end, materialize, list | virtual occurrences occupy slots without rows; concurrent materialization | one row per occurrence; lists without doubles | `Series` |
| Recurrence rules (`recurrence*.ts`) | none | accept, expand | fifth weeks, day 31, intervals, counts | equals a day-by-day reading | `Recurrence` |
| Availability and verdicts (`availability.ts`, `conflict.ts`, `time.ts`, `routes/scheduling.ts`) | none | merge, subtract, windows, slots, classes of conflict | boundaries of intervals, midnight | equals a minute-by-minute definition | `Availability` |
| Lists of the calendar (`series-listing.ts`, `GET /appointments`) | none | union of rows and occurrences, flags, sort, pages | ties, rows in any order | each entry on one page | `Listing` |
| Sessions and accounts (`routes/auth.ts`, `routes/users.ts`) | `auth.users`, `auth.sessions` | login, logout, change, reset, deactivate, enable, create | hashing is awaited between read and write | nothing of an old password survives a reset | `Accounts` |
| Attempt throttle (`auth-throttle.ts`) | failure times per key | check, record, clear, sweep | sliding window, cap, check and count apart | attempts are bounded | `Accounts` |
| Migration runner (`migrate.ts`) | `schema_migrations`, a session lock | apply in order | crash between files, two runners | what is recorded was applied, whole and once | `Operations` |
| Grants and authorization (`routes/grants.ts`, `appointment-authz.ts`) | `calendar_grants` | grant, revoke, check | read before the statement it guards | a revoked grant stops writing | `Entities`, `Desk` |
| Closures and time off (`business-closures.ts`) | `schedule_exceptions` | warn-first writes | affect availability, never rows | the warning counts what it hides | `Entities`, `Availability` |
| Generic CRUD (`db/generic.ts`, `crud-policy.ts`, `routes/*.ts`) | configuration tables | list, insert, update, delete | checks and statement are apart; tenant scope per table | rows stay in one tenant, owners stay | `Entities`, `Descriptors`, `Queries` |
| Business settings (`business-settings.ts`) | one row | PATCH | partial update checked against an older row | the window is never inverted | `Settings` |
| Audit trail (`audit.ts`, `db/audit.ts`) | `audit_events` | insert, list | one statement of a transaction may fail | no write without its audit row | `Booking`, `Desk`, `Queries` |
| Frontend (`api/`, `composables/`, `views/`, `components/`) | panels, forms, flags, kept answers, the address | load, open, submit, confirm, navigate | answers in any order, older than a write | what settles is current; flags end; writes are meant | `Tab` and the screens |
| Pool and process (`db.ts`, `server.ts`) | ten connections | acquire, release, shut down | every wait has its own timeout | every request ends | failures in `Booking`, `Desk` |

Interaction. Every HTTP request is one `async` handler on the event loop. It
reads from a pool of Postgres connections, then usually opens one transaction
(`withTransaction`) and writes. Handlers share nothing in memory but the
throttle; they meet in the database: in rows, in two families of advisory locks
(`pg_advisory_xact_lock(1, professional)` and `(2, room)`), in unique indexes
and in triggers. The frontend calls the same endpoints and shares the pure rules
with the backend; all that connects a screen to the server is which writes an
answer reflects.

## Modules

Appointments and series:

| Module | Models |
|---|---|
| `AppointmentTypes` | states, transition map, trigger, rows, overlap |
| `Agenda` | the abstract specification: what the booking endpoints promise about the table, one atomic step per operation |
| `Booking` | the handlers of request, schedule, approve, reschedule and transition, cut at every `await` that others can see, with locks, stale reads, aborts and the clock |
| `Series` | rules, virtual occurrences, create, edit, split, end, materialize and list, beside plain bookings |

Calculations, each step or question checked against a plain definition:

| Module | Models |
|---|---|
| `Recurrence` | the Gregorian calendar, which rules are accepted, the generator of candidates and `expandSeries` |
| `Availability` | intervals, windows, slots, the conflict verdict with the read-back of 24:00, the flag of time off |
| `Listing` | union, flags, order and pages of a calendar list |
| `Calculations` | asks the three above one question per behaviour and states their properties |

The rest of the server:

| Module | Models |
|---|---|
| `Server` | what the handlers of the modules below share |
| `Accounts` | accounts, sessions, throttle, restart |
| `Desk` | one appointment and the ledger under charges by hand, completion, edits and grants, statement by statement |
| `Entities` | generic create, update and delete over nine tables, closures, grants |
| `Settings` | the booking window of a business |
| `Operations` | the migration runner with crashes, competing runners and broken files |
| `Descriptors`, `Queries` | the declared columns, and the query a list request becomes: parameters, conditions, scope, order, page |

The frontend:

| Module | Models |
|---|---|
| `Views` | the vocabulary: what a load and a form of a view declare |
| `Sections`, `Records`, `Lists`, `Boards`, `Calendars` | the views themselves, as such declarations |
| `Screens` | every view by its name |
| `Tab` | a browser tab running one of them: requests, answers, flags, gates, kept answers, the address |

Instances: `MCBooking`, `MCSeries`, `MCCalculations`, `MCDesk`, `MCServer` (the
parts of the server that share no state, side by side), `MCClient` (the screens
and the list requests, side by side). Proofs: `AgendaProofs`, `BookingProofs`,
`SeriesProofs`, `CalculationsProofs`, `AccountsProofs`, `DeskProofs`,
`ClientProofs` (the tab and the list requests), `ServerProofs` (generic rows, settings and migrations).

`Booking` implements `Agenda` (`Promise == INSTANCE Agenda WITH ...`, tables
mapped to tables): that is the statement that the advisory locks make the
recheck and the write act as one. `Series` builds on it: there the plain booking
endpoints are one step each.

Operators named `X_Something` before an operator `X` are mutants: the change of
`X` that a plausible bug would make. Each property of a passing run was seen to
fail with one of them (`PROJECT.json`, "mutants").

## How the modules read the code

The rule for cuts is the same everywhere. A read from the pool before `BEGIN`,
or before an autocommitted statement, is a step of its own and may be stale at
the write. Inside a transaction READ COMMITTED gives each statement a fresh
snapshot, so statements that others can tell apart are steps of their own. What
a transaction wrote becomes visible at COMMIT, with the release of its locks.

**Booking.** `appt` is the `appointments` table reduced to what scheduling and
billing read: state, placement (professional, room, start, duration), price,
`override_conflict`, `override_actor_id`. `charges` are the session charges,
`overrideAudit` the `conflict_override` rows of `audit_events`, `lock` the
advisory locks. `pc` and `job` are what a handler holds in its local variables,
`job[q].seen` the row it loaded from the pool, `verdict` what its recheck has
found so far, `now` the clock. `vetted` is a ghost: the ids whose placement, as
it stands, was checked by a recheck. No guard reads it.

| Handler | Steps |
|---|---|
| `POST .../request` | `ReceiveRequest`, `DryRun`, `InsertRequested` |
| `POST .../schedule` | `ReceiveSchedule`, then the save |
| `POST .../approve` | `LoadForApprove`, `ReadWallClock`, then the save |
| `POST .../reschedule` | `LoadForReschedule`, then the save |
| `POST .../transition` | `LoadForTransition`, `Gate` or `AnswerTooEarly`, `WriteTransition` or `RejectedByTrigger` |
| the save (`saveWithConflictRecheck`) | `LockProfessional`, `LockResource` if there is a room, `CheckProfessional`, `CheckResource`, then `ReturnVerdict`, `SaveScheduled`, `SaveApproved`, `SaveRescheduled` or `RejectedByTrigger` |
| any | `Refuse` (an answer before a transaction), `Abort` (a statement fails, everything rolls back) |

The professional's grid, slot alignment, time off and virtual occurrences reach
the recheck as one extra conflict that may or may not be there
(`OtherConflicts`); `Availability` and `Series` say what they are. Authorization
and validation may refuse any request. A price is whatever `resolveBooking`
gives, one of `Prices`.

**Series.** `series` and `row` are the two tables, with days for dates. A
materialization is `LoadForMaterialize`, `ReturnExisting` or `FindNone`,
`LockOwner`, `RecheckOccurrence`, then `InsertOccurrence` or `LoseRace` (the
unique index). Edit, split and end load the series from the pool and write in a
later transaction, so `EditRule` may write back fields that changed. A list is
three statements (`ReadRows`, `ReadSeries`, `ReadOverrides`).

**Calculations.** A behaviour asks one question and answers it in the steps of
the code: `Walk` is one iteration of the candidate generator, `FetchPage` one
request of a list. The definitions compared with read a calendar day by day
(`Meaning`, `Barren`) and a day minute by minute (`Minutes`), without the
generator's steps and without merging or subtracting an interval. The loops of
`mergeIntervals` and `subtractIntervals` are recursive functions, one round per
interval (`MergeNext`, `CutNext`); a sorted list is where each entry has its
`Place`, the entries that compare before it and, among equals, those that
arrived first, which is what a stable sort gives.

**Accounts.** A handler is cut at each `await`: find the row, verify the hash,
write, remove sessions. `call[p].seen` is the row it verified against, which may
be out of date when it writes. The generation number `gen` of a password and
the variables `resetGen`, `basis`, `disturbed` and `crossed` exist for the
properties; no guard reads them. The throttle's
map is `hits`; a restart clears it and loses what was in flight.

**Desk.** One appointment, its ledger entries and grants. Here the transactions
are cut at each statement: `LedgerCheck`, `LedgerCount`, `LedgerInsert`, `Audit`
and `Commit` for `POST /ledger`; `TransitionLoad`, `Authorize`, `Update`, `Audit`,
`Bill`, `PostCharge`, `AuditCharge` and `Commit` for a transition; `PatchLoad` or
`IgnoreLoad` and the same write for PATCH and ignore-conflict. An audit row says
of which table it is and of which row: a completion writes one for the
appointment and, if it posted a charge, a second one for that ledger entry, in the
same transaction. `EveryWriteIsAudited` compares both tables with it: each entry
by its own id, and of the appointment its state, name, note and ignored flag, each
by the request that wrote it last. What was written and not
committed is in `work[p]`; the row lock of an UPDATE is `rowLock`, the wait for
another's uncommitted key `KeyPending`. Any statement may fail and the process
may end at any point.

**Entities.** A request is the checks it makes (references, tenant, ownership,
grant), in the order of the code, and one statement with its own `WHERE`
(`WriteScope`) and the constraints and triggers of the database (`Constraints`).
Columns that are not references are one revision number. `RowsSound` says what
the stored rows satisfy; it is assumed of the rows the model starts from and
proved of all others.

**Operations.** A migration file is a sequence of statements: work, transaction
control the runner recognises and blanks out, control it does not recognise,
an error. `Reached`, `KeptWork` and `OpenWork` say what one multi-statement query
of Postgres runs, keeps by itself, and leaves to the COMMIT of the runner.

**Queries.** A cell is an integer, a text fragment the set of cells that contain
it, a date cell a minute. A request is parsed, compiled to conditions on the
declared columns of `Descriptors`, narrowed by the scope of the viewer, sorted
and cut into pages, in the code's order of defaults and clamps.

**Tab and the screens.** The server is one number, the writes it has taken; an
answer reflects the writes taken when it was served, whenever it arrives. A
load of a view is a record: what it asks about, whether identical questions are
joined (`shared`), whether its answer is kept (`kept`), what keeps late answers
off the screen (`guard`: a counter, an abort, the question itself, nothing),
what follows it. A form is a record: what opens it, what it sends step by step,
whether a preview or a verdict comes between (`gate`, `checked`), what its flag
disables, what it closes and reloads at its end. `Tab` gives these records one
meaning, so that a screen is written as what differs from the others. In
particular a field that says "no guard" or "the target is read late" is what
the component does.

A write is owed to every panel of its screen (`Changed`, `Owe`), whether its
form loads that panel again or not. A form that leaves one out has to say why:
`patches` are drawn from its answer, `spares` show nothing it writes, and
`misses` do, and are not loaded again. `WritesReload` demands this of every form
with a write, and that a form whose second write may fail after the first was
taken loads what the first one changed (`Partial`); TLC evaluates it with
`ViewsAssumption`, so a reload taken out of a form stops every run of the
screens. The misses are these, and `SettledPanelsAreCurrent` excuses them:

- the turnos of the calendar after a saved series (`SeriesForm`): the form emits no
  `saved`, its report only `cancel` (`AppointmentForm.vue:253` to `:265`, `:517`),
  and the calendar just closes it (`CalendarView.vue:871`);
- the figures of the day beside a dashboard's turnos to settle and in conflict
  (`Settle`, `ConflictIgnore`, ...), which are loaded once;
- the clients seen so far, beside a changed client (`ClientChange`);
- what is highlighted for another drag while a move is saved (`Move`).

Where the screens differ from the code, and why it does not matter:

- A flag falls before the reload that follows its answer. `useSettleCard.ts:87`
  to `:101` lowers it after; that only lets less happen, and the reload is in
  flight in both, so the properties are asked of more behaviours.
- `ChangeForm`'s answer also makes the panel show the saved turno, even where
  another turno is open by then (`CalendarView.vue:750`, `:760`;
  `CalendarDialogs.vue:108`). No form of that panel is sent by this alone, and no
  property reads what a panel that is not loaded shows.
- A native drop in the month view awaits `loadSlotsByDay` before its dialog opens
  (`CalendarView.vue:669` to `:687`); `Move` begins with the dialog.
- The form of a turno and its report are two forms here, `BookForm` and
  `SeriesForm`, one component there; each opening is an instance with a flag of
  its own, so the second flag has another name.
- Each dashboard has the box of conflicts; it is written out beside the day of
  the Admin (`Triage`) only. Making a virtual turno real changes nothing a panel
  tells apart, so the step that does it (`prepare`) is not a write.
- `BlockServicesSave` stands for any number of its calls by two; it is the one
  form that goes on after a call failed (`GoesOn`).


## Runs

| Run | Shows | Distinct states |
|---|---|---|
| `calendar` | three requests of any kind, two professionals, one room, a confirmed appointment in it, all on one instant: `TypeOK`, `VettedClashIsForced`, `OverrideIsAttributed`, `LocksMatchHandlers`, `RecheckStillHolds` | 273 831 |
| `closing` | three requests on one confirmed appointment, two starts, a clock that passes the first start: `BilledOnce`, `TerminalStays` | 260 175 |
| `agenda` | two requests, two starts, two durations, conflicts of other kinds: `ImplementsAgenda` (refinement), `EveryRequestIsAnswered` (liveness, no cycle of waiting handlers) | 90 926 |
| `series` | three requests that create, edit, split, end, list and materialize, and book, move or cancel rows: `RulesWellFormed`, `OneRowPerOccurrence`, `ListedOnce`, `VettedClashIsForced` | 298 882 |
| `rules` | the calculations: `ExpansionIsExact`, `RunawayOnlyWhenBarren`, `SlotsAreExact`, `OfferedSlotIsBookable`, `OverlapMissedOnlyAtMidnight`, `RoomVerdictIsContainment`, `TimeOffAgreesWithVerdict`, `PagesPartition`, `BothSidesRing` | 32 065 |
| `server` | accounts, ledger desk, generic rows, settings and migrations, each by itself: `ResetHolds`, `AttemptsBounded`, `LockoutNeedsARace`, `NamesStick`; `CompletedIsBilledOnce`, `EveryWriteIsAudited` (each charge and each transition by its own row), `NoEditIsLost`; `RowsStayInOneTenant`, `OffersMatchTheirBlock`, `OwnersStick`, `GrantAtWrite`; `WindowNeverInverted`; `DeploymentsAgree` | 290 146 |
| `frontend` | every screen, and every kind of list request: `SettledPanelsAreCurrent`, `FlagsEndWithTheirCalls`, `WritesAreMeant`; `FilterAndNegationSplit`, `EveryReachableRowIsOnOnePage` | 574 091 |
| `silent_overlap`, `terminal_frozen`, `row_price`, `self_conflict`, `misbilled` | violated on purpose, see [below](#where-code-and-documents-disagree) | |

What each property says is in the comment above it in its module; several are
shaped by what the code does not promise: `ResetHolds` excepts a login or change
that had read the row when the reset wrote it, `OfferedSlotIsBookable` excepts
overlapping blocks, `OverlapMissedOnlyAtMidnight` names the one booking the
verdict misses, `SettledPanelsAreCurrent` excepts loads that nothing guards and
panels a form is declared to miss.
The exceptions are listed [below](#other-behaviour-worth-knowing); outside them
the properties hold.

Deadlock is not checked: every model stops by itself when its bounded requests
were handled. That no booking handler is stuck halfway is
`EveryRequestIsAnswered`.

## Bounds

- **`MCBooking`.** Each id is one request, handled once. Two are enough for
  every race of a stale read with a write and for two locks taken crosswise;
  three let a third request act between. A row gets the id of the request that
  inserts it, so requests also bound rows. One instant makes every placement of
  a shared owner clash, the worst case for the locks; starts `{0,1}` with
  durations `{1,2}` give touching, nested and partial overlaps; the run `agenda`
has them, `calendar` has one start and one duration. The clock passes
  a start and stops at `MaxNow`. In `row_price` two prices tell a stale one from
  the current. Requests are alike, so with three of them and a safety property
  only the orders in which they start by number are followed (`StartInOrder`).
- **`MCSeries`.** One stored series and three requests, so two materializations
  can meet an end, a split or an edit. Three days and a week of one day: every
  day may be an occurrence, rules with a count end inside the horizon, rules
  every other week skip one.
- **`MCCalculations`.** Rules start on 31 January, 28 February and a Sunday of
  April 2023, every frequency, fifth weeks, days 29 to 31, intervals 1, 2 and 12,
  the three ends, also fields that are refused; windows of three months, of the
  start alone and of a year that ends on the leap day. `Horizon` cuts a walk that
  would not end after 20 candidates. A day has ten minutes, up to two blocks,
  exceptions and bookings of four, five and five kinds, among them one that ends
  at midnight and a virtual one; a list up to three entries with equal sort values.
- **`MCServer`.** An initial state picks one part. Accounts: two admins with a
  session, a client without a login and a row to create; two handlers, three
  requests where a login takes part and two elsewhere; limits of one and two
  failures and two counters kept, so that every limit, sweep and shed happens.
  Desk: two handlers, two requests, every role. Entities: two requests over one
  of eight groups of tables that can meet, in two businesses, with every role
  that writes. Settings: two requests, three days. Operations: two runners,
  three runs, four directories: edited, failing, ending their own transaction in
  a way that is recognised and in one that is not.
- **`MCClient`.** An initial state picks one screen or one list request.
  `SomeMaxEvents` bounds what the user does on a screen: four events on small
  screens, three on most, two on the fourteen largest, one on the receptionist's
  day, which is the professional's but for the name of a flag. Answers, failures
  and timers are not bounded. Two rows, two subjects, two search terms, two
  pages. The subject and the search term a page starts with are fixed, since the
  others are like them; the rows are a symmetry set: they differ only by name,
  no definition chooses one, and the run checks invariants only.
  List requests: every kind of column under every kind of value, good, blank and
  malformed; every role; rows of this and another business, archived, related
  and not, tied on the sort column.

A bound that hides a case would show as a property no mutant breaks: each
property was broken by a mutant under the very bounds of its run.

## Fairness

`Booking` assumes weak fairness of the steps a handler takes by itself
(`Proceed`): the event loop resumes it and Postgres grants a free lock. Nothing
is assumed of arriving requests, failures or the clock. Weak fairness of the
wait for a lock is enough because there are finitely many requests, each of which
takes each lock at most once; Postgres also queues waiters in order. The answer
never rests on the timeouts of the database role (5 s for a lock, 15 s for a
statement): `Abort` has no fairness.

`Series` states the same fairness (`FairSpec`) for the run `self_conflict`, so
that its counterexample is not a system that merely stopped. The properties of
the other models are safety properties and need none. What could be
asked as liveness is asked of quiet states instead: when nothing is in flight, no
flag is up (`FlagsEndWithTheirCalls`) and what is shown is current
(`SettledPanelsAreCurrent`); a walk that reaches `Horizon` without ending has a
rule that never will (`RunawayOnlyWhenBarren`).

## Proofs

`tlapm` checks every theorem for all values of the constants: any set of
requests, handlers, professionals, rooms, people, tables' rows, runners and
directories, integer starts and positive durations, and no bound on the steps
but the named ones. What is assumed are the named `ASSUME`s of the modules, which
TLC evaluates on every run:

| Assumption | What it asks |
|---|---|
| `TypesAssumption`, `BookingAssumption`, `SeriesAssumption`, `SettingsAssumption`, `OperationsAssumption` | sentinels are outside the sets they extend; the calendar at the start has open, unforced rows, no two confirmed ones in a clash; the stored series passes the checks of a rule; files are numbered |
| `DeskAssumption` | the entries asked for have a type and a description of the API |
| `StoredAssumption`, `AccountsAssumption` | the accounts at the start have unique names, and sessions of accounts that exist; limits and the window of the throttle are positive; the handlers at work are finitely many |
| `EntitiesAssumption` | ids given to rows later are not ids at the start; only an Admin has no business |
| `FirstRowsAssumption` | the rows at the start satisfy the constraints, refer to rows that are there and stay in one business |
| `AvailabilityAssumption` | a day has minutes, and a tile of a room is not longer than a day |
| `QuestionsAssumption` | what the tables and parsers guarantee: blocks, exceptions and bookings end after they start and by 24:00; the entries of a list are finitely many with an id each; the fields of a rule are numbers, dates or nothing (whether it is accepted is the model's business) |
| `MonthsAssumption` | the months of the model have no gap, and hold the start of every rule and the end of every window |
| `TabAssumption`, `ViewsAssumption` | nobody and no row are not a subject or a row; each declared view refers to loads and forms of its own, a flag that disables a form is waited for by every form that raises it (`FlagsBar`), and the answers to a load that raises a flag keep counting, or it is asked again in a way that ends the flag (`FlagsFall`). A load that others follow has a signal, is of the section and is mounted, one whose answer is checked against the section joins what asks the same, one that must not overwrite what was typed is asked by no form, and only the list is about the query (`LoadsSettle`). Each panel is loaded again after a write that changes it, drawn from its answer, or declared to be missed (`WritesReload`). `ViewOf` is a definition, so TLC decides this for all the views there are, whatever the instance |
| `QueriesAssumption`, `RequestsAssumption` | limits are positive; stored rows are finitely many with an id each; sortable and number columns hold numbers or nothing, and a value of a filter is read as its kind of column reads it |

`BookingProofs`:

1. `IndInv` is inductive (`InitIndInv`, `NextIndInv`). `TypeOK` alone is not:
   a handler that saves writes the row it holds in `job`, so
   `HandlersKnowTheirRows` says that a handler at a step has the job of that
   step, on a row that exists. `LocksMatchHandlers` says which locks it holds.
   `RecheckStillHolds` needs both: the only steps that could spoil a verdict are
   saves of other handlers, a save holds the locks of its own placement, and a
   key has one holder (`LockedApart`), so the two placements share neither a
   professional nor a room.
2. `BookingImplementsAgenda`: a save that is not forced found no conflict
   (`SaveIsClear` from `RecheckStillHolds`), so it is the agenda's checked step;
   all other steps map to a transition, a request, or a stutter
   (`StepImplements`).
3. `BookingVettedClash`: the property is inductive relative to `IndInv`: a save
   either marks the row or found it clear. `AgendaVettedClash` proves the same
   of the abstract specification alone, where no lock is mentioned.
4. `BookingLocksMatch`, `BookingBilledOnce`, `BookingOverrideAttributed`,
   `BookingTerminalStays`: conjuncts of `IndInv`, and one action property from
   it. Billing and closing rest on the trigger, which looks at the row as it is;
   `TriggerMatchesMap` shows that its edges are those of `TRANSITION_MAP`.

`DeskProofs`, of the ledger and the edits of one appointment, statement by
statement, with failures and crashes:

1. `DeskInv` is inductive (`DeskInitInv`, `DeskStepInv`). Its parts: `OneKey`,
   that the key of the partial unique index has one holder, a transaction or the
   ledger; `RowOf`, that what a transaction is about to commit differs from the
   row only in what it was sent, because it holds the row lock; `Prepared`, that
   a transaction past its audit statement has its audit row, and one about to
   complete the appointment has or finds its charge.
2. Steps that commit nothing are handled once (`QuietStep`: only what the moving
   handler prepared can matter), with `DropStep` and `AdvanceStep` for the two
   commonest; each action then has its lemma. `CommitStep` publishes row, entry
   and audit row together.
3. `DeskBilledOnce`, `DeskAudited`, `DeskKeepsEdits` follow. That there is a
   charge is the completing transaction's doing, that there is only one is the
   index's.

`SeriesProofs`, of recurring rows beside plain bookings:

1. `SeriesInv` is inductive (`SeriesInitInv`, `SeriesStepInv`). Its parts: the
   types; `KnowsItsSeries`, that a handler that will write a rule or a row has
   read a series that exists, in a shape `ValidRule` accepted (but for an end
   before the start, which an end or a split may leave); `HoldsTheSlot`, that
   between its recheck and its insert a handler holds the lock and what the
   recheck found is still so; `RowsStillThere`, that the rows a list read keep
   the occurrence they stand for.
2. Steps that write neither table are handled once (`QuietStep`), and what the
   other handlers know survives any step that keeps the rows' occurrences
   (`OthersKeep`). Then one lemma per kind of step.
3. `SeriesOneRow` is the index. `SeriesListedOnce` rests on the order of the
   three statements: the overrides are read last, and a row that was read keeps
   its occurrence. `SeriesVettedClash` is `HoldsTheSlot` at the insert.
   `SeriesRules` is the type of a stored rule, whatever stale rows were merged.

`AccountsProofs`, of accounts, sessions and their handlers:

1. `AccountsInv` (`AccountsInitInv`, `AccountsStepInv`): `Knows`, what each
   handler holds at each step, as one record set per kind of request;
   `NamesUnique`; `ResetOf`, what a reset has left behind after its first and
   after its second statement.
2. `ResetsHold`: the generation of a row only grows, so whoever reads a row after
   the reset acts on a password at least as new (`Fresh`); whoever had read it
   before is in `disturbed`, and the second statement removes every session.
3. `ThrottleHolds` (`AttemptsBounded`): the failures of a key still in the window
   and the requests that passed its check and have not recorded a failure yet
   are at most the limit and the other handlers, because each of these passed
   the check when fewer than the limit were there (`ThrottleInv`). Sweeps, time
   and restarts only take failures away.
4. `NamesStay`: the unique index, and that only a row without a name is given
   one (`RowKept`). `LockoutIsARace`: the actor of a deactivation is an active
   Admin when it starts and never its target. Its hypothesis is that an active
   Admin is stored at the start; without one there is none to keep.

`ServerProofs`, of nine tables under generic requests:

1. An id is never given twice, so what a check found about an id is true of the
   row of that id for as long as there is one: `Settled` ids have the row they
   had, or none (`Stays`), and a step never changes the owner or the business of
   a row (`SameOwner`). From this `BusinessStays`: the business a reference
   resolves to, through the joins of its table, never changes.
2. `EntitiesInv`: `IdsFresh`, `RowsSound`, and `Knows`, what each handler has
   found. `AgreedStays` and `KnowsStays` say that no step of another handler
   takes it away: this is why a check that ran before the statement still
   stands when the statement runs.
3. Three kinds of step remain: a request moves on (`MoveStep`), a row is stored
   (`StoreStep`), rows go (`DropStep`: a block with its offers). Each handler's
   lemma says which one it is, and `WrittenIsSound` that an agreed body which
   the constraints let through makes a sound row.
4. `OneTenantPerRow`, `OffersFollowTheirBlock` are read off `RowsSound`;
   `OwnersStickAlways` is `Stays`; `GrantsAreInHand` needs only that the id of a
   request is of the table it names, the rest is the `WHERE` of the statement.

`ServerProofs`, of settings and migrations:

1. `SettingsInv` adds to `WindowNeverInverted` that what a request is about to
   write was checked whole; `SettingsWindow` follows.
2. `OperationsInv` of the migration runner: `RunnerKnows`, that a runner past
   its lock holds it, that what is not in its copy of the record and not behind
   it is not in the record, and that a file it executes has no row; and
   `RecordIsTrue` of every file. `FileFacts` says what a query leaves of a file
   after `stripTransactionControl`. `DeploymentsAgreeAlways` follows.

`CalculationsProofs`. There is no induction principle to cite; where a loop
runs, the proof looks at the first round that fails (`LeastNat`: a set of numbers
has a least one).

1. Days. The loop of `mergeIntervals` keeps what it put out in pieces that do not
   touch, whose minutes are those of the intervals taken so far; the loop of
   `subtractIntervals` keeps minus the minutes of the blocks so far. In pieces
   that do not touch an interval is covered exactly when all its minutes are
   (`ContainedMinutes`), so the containment tests of slots and verdicts count
   minutes: `SlotsExactAlways`, `OverlapsAreFound`, `TimeOffAlwaysAgrees`,
   `OfferedSlotsAreBookable`, `RoomTilesDoNotDecide`, `BothSidesAlwaysRing`.
2. Lists, `PagesCoverTheList`: with the tie break no two entries compare equal,
   so the place of an entry is one more than the number of entries before it,
   whatever the order of arrival. Places are the numbers from 1 to the total, so
   every request cuts its page from the same sequence, and what was seen is its
   beginning.
3. Rules, `ExpansionAlwaysExact`: a month begins where the one before ends
   (`NextMonth`, from the lengths of months and years), so a day lies in one
   month. The candidates are the days that fit the pattern, each once and in
   order, and `WalkInv` says that a walk has given the fitting days of the window
   before its next candidate and counted the fitting days before it.
4. `OnlyBarrenRulesRunAway` has no run of its own. Every 4800 months the
   calendar repeats, so a rule that never meets its day in one such round
   never does; any other yields dates without end, one of which is past the
   window.

`ClientProofs`, of the tab:

1. `TabInv` is inductive (`TabInvInit`, `TabInvNext`). `WritesAreMeant` alone is
   not: that a form has one write in flight rests on its flag, which other
   answers lower too. `Meant` adds what the flags do: a write that is still
   heard has its flag up (`FlagsUp`) and to itself (`FlagsApart`), also against a
   write that waits to be sent again over a verdict; `KeysApart` is the property,
   with that same write; a dialog that only waits for a flag is open only while
   it is down (`DialogsWait`), and of two components that share a flag one is
   open at a time (`PairsApart`).
2. Which forms share a flag, how each waits for it, and which loads raise one is
   `ViewsAssumption`. Nothing else about a view is used: the proof never looks
   at one.
3. Asking leaves all this aside (`Aside`). A load asks for the ones it leads to
   in turn, and the fold over a set of them is unfolded from its definition
   (`AskAllUnfolds`): the least set that broke `Aside` would break it with one
   panel less (`LeastNat`).
4. Sending is the one step that can go wrong: `AddKeeps` asks that no write has
   the flag (`Sendable`), which `SubmitSends` and `ConfirmAction` show.
   `WritesStayMeant` follows.
5. `FlagsEndWithTheirCalls` only speaks of a tab with nothing in flight. `Lit`
   says what is true before that: every flag that is up is ended by a call in
   flight (`LoadEnds`: the last call of its load, where older ones are not heard;
   `WriteEnds`: a write whose form is still there), or belongs to a section that
   is about nobody. It is kept up to loads about to be asked: a step that drops
   calls, or turns the section to another subject, leaves flags that nothing
   ends, and asking each of those loads ends its flag again (`AskOneLit`), one
   less at every panel of the fold (`AskAllLit`). `SwitchLit` and `ReloadLit` are
   where this is needed; `FlagInv` adds `TabInv`, and `FlagsAlwaysEnd` follows.
6. `SettledPanelsAreCurrent`, too, only speaks of panels with nothing in flight.
   `CurrentBut` says of every panel why it will come to be current. `Dated`: an
   answer to what was asked since the tab was last told of a write reflects
   every write it was told of, and so does one that was kept since. `Numbered`:
   the last call of a panel is of what the panel is of, and a load that others
   follow has no other in flight. `Addressed`: the list asks for what its address
   says unless something typed waits. `Good`: the answer to the last question is
   in flight or on screen, and an answer that will be put on screen reflects
   what the panel owes; a panel that follows another is excepted while that one
   is in flight or failed (`Covered`), and one of a section about nobody is empty.
   `WritesReload` is what makes a panel that owes a write one that is asked again,
   or excused (`ChangedPanels`), and what makes a write that failed halfway one
   whose panels are asked all the same.
   A step that turns the section or the address elsewhere (`AimedCurrent`), or
   makes panels owe a write (`OweCurrent`), leaves out the panels it asks again
   and what they lead to (`With`), and asking each of them brings it back
   (`AskForCurrent`, `AskAllCurrent`). `LoadAnsweredCurrent` is where an answer
   arrives late, fails, or leads to the next loads; `PatchCurrent` where a row is
   drawn at once and may be loaded over. `PanelInv` adds `FlagInv`, and
   `PanelsStayCurrent` follows.

`ClientProofs`, of the list requests: the pages of a list, which are cut from one
order whatever page is asked (`PagesSplitTheList`), and what a condition and its
negation keep of the rows that hold a value (`FiltersSplitAlways`).

Only model-checked, and why:

- `EveryRequestIsAnswered` is liveness, out of this prover's reach.
- `RunawayOnlyWhenBarren` speaks of a walk at `Horizon`, and is false for a
  horizon that is too short. What it approximates is `OnlyBarrenRulesRunAway`.
- The five statements of documents that the code refutes have a counterexample
  each.

## Where code and documents disagree

Each has a run that TLC refutes.

- **`NoSilentOverlap`** (FEATURES.md F10.11, "Nunca se guarda en silencio"). A
  client's request passes its dry run; staff schedules the same slot; the
  request is inserted, unlocked and unchecked; staff confirms it with
  `POST /transition` to `scheduled`. The result is a confirmed overlap with no
  mark and no audit row. `POST /approve` would have found it, and the bundled
  frontend sends confirmations there; the endpoint itself accepts the other way.
  `VettedClashIsForced` is the part that does hold, and is proved.
- **`TerminalFrozen`** (F9.21, "Cualquier otro campo devuelve 422"). A
  reschedule loads an open appointment; another request completes it; the
  reschedule then rewrites start, owner, room and price of a closed row. The
  trigger lets it pass because the state does not change. By the same race,
  seen from the other side, an appointment can be completed although its new
  start is in the future (F9.16), and a PATCH that was checked on the open row
  (`routes/appointments.ts:588`) can rename a closed one.
- **`ChargedAtRowPrice`** (F9.19, "al precio congelado"). The completion loads
  the price, a reschedule commits another, the completion charges the loaded
  one. Ledger rows cannot be edited afterwards.
- **`ForcedMeansConflict`** (comment at `series-materialize.ts:27`). The recheck
  of a materialization folds in the virtual bookings of every active series, its
  own occurrence included: on an empty calendar it is stored as forced.
- **`BilledToItsClient`** (comments at `db/ledger.ts:12` and `:49`). When staff
  gives the amount, nothing checks that the appointment named in a charge is the
  client's. An undescribed charge for A that names B's appointment takes the key
  of B's session charge, and B is never charged.

## Other behaviour worth knowing

Read while modelling, in the models, and reachable there; no property claims the
contrary.

*Series.* The comment at `series-materialize.ts:30` says a concurrent loser
returns the winner's row; its re-select runs in a transaction the 23505 aborted,
so the request fails (`LoseRace`). `/future` and `/end` set the status to `ended`
and active series are what lists and rechecks read, so virtual occurrences before
the date that have not happened yet vanish from both. A materialization that
loaded its series before an `/end` can insert an open row past the end. `PUT`
never looks at the status and writes back every field of the rule it read. A
split takes the full count over, which no document promises otherwise, and rows of the old series from the date on
stay beside the new occurrences.

*Rules and slots.* A rule whose months never have its day (day 31, every twelve
months from April) makes the generator loop without end
(`recurrence-expand.ts:109`). The comment at `services/scheduling.ts:72`, that
the tile of a room "never affects a save", is not so when its hours or exceptions cut a
tile. Overlapping blocks with different slot lengths offer slots whose booking
takes the other length. A booking that ends at 24:00 sharp is read back as ending
at 00:00 and no overlap test sees it. The flags of a list depend on its filter.

*Accounts.* A password change that verified before a reset writes after it,
replaces the handed-out password and clears the duty to change it; a login that
read before a reset opens a session that survives it. Reset and deactivate are
two autocommitted statements. Two admins who archive each other leave no admin.
The throttle sheds the keys least recently active, which are not always "the
ones furthest from reaching their limit" of its comment (`auth-throttle.ts:116`).

*Ledger and grants.* The comments at `appointment-authz.ts:90` and
`routes/ledger.ts:92`, that checking inside the transaction closes the race with
a revocation or a second charge, do not hold under READ COMMITTED: a grant may
be revoked, or a charge committed, between check and insert. A blank description
is stored as a description that does not explain anything.

*Settings, entities, migrations.* A PATCH of the settings writes back stale
values of the fields it was not sent. A generic PUT updates archived rows that
GET hides; a reference to an archived service or room passes the tenant check; a
schedule exception is written without the grant in its `WHERE`; deleting a
professional through the generic route leaves their sessions. A closure changed
after a concurrent delete answers 500. `ABORT` is not among the transaction
control the migration runner recognises, though the comment at
`migration-files.ts:37` says it matches a statement that "aborts a transaction".

*List requests.* Negating a filter on a nullable identity column leaves out the
rows without a value, so it is not "the complement of the match"
(`generic.ts:95`). The audit list drops an actor filter it cannot read and shows
more, where `generic.ts:24` says such a value narrows to nothing.

*Screens.* A series saved from the form of a turno leaves the turnos of the
calendar as they were until something else loads them: nothing tells the calendar,
though for the other actions on a series "the parent just needs to refetch the
list" (`CalendarDialogs.vue:54`). A reload after a save may join an identical GET sent before it
(`client.ts:135`) and show the old rows. Loads without a guard (among them
`GenericTable`, the detail of `RequestsView`, the price of `RequestFlow`,
`BalanceView`, the portal's list) may show an older answer; `SlotPicker` guards
its date only. Back and forward start such a load too, so "rather than leaving
stale rows on screen" (`useListQuerySync`) is not certain. A dialog that resets
its target when its answer arrives resets whatever is its target by then. The
retry of `AppointmentForm` over a verdict is built from fields that could be
edited meanwhile, and a closure edit reads its row after its preview. Some forms
raise their flag after an `await` and can be sent twice (closures,
`ExceptionForm`, the portal's cancel); `CalendarGrants` has one slot for the row
being revoked. A child form closed while it saves never tells its list. A write
that timed out but was taken does not end what was kept before it.

## Not modelled

- Thirty-day expiry of sessions and PATCH of the own profile (no property reads
  what they touch).
- The bound of ten connections: every wait for one ends by its own timeout,
  which is `Abort` in `Booking` and `Fail` in `Desk`. Start-up, shutdown, health
  and telemetry are I/O; the best-effort audit writer decides nothing.
- Amounts of ledger entries and the balance (a sum over rows that never change).
- Field checks of request bodies beyond references, rules of series and list
  parameters: they are the refusal any request may meet.
- Prices and durations by professional, client and service: a choice among
  `Prices` and `EffectiveDurations`.
- Deletion of users (no route deletes one); seeds, fixtures, translations,
  styles, layout, the geometry of dragging, the session-expired banner and the
  two log-in pages.
- Booking compares instants, so the read-back of 24:00 is in `Availability` only.

## Plan

Done: the modules above, and proofs of every safety property a run checks, save
the bounded form of one. Next:

1. The refinement of `Booking` by the rows of `Series`: its `PlainBook` as one
   step of `Agenda`.
