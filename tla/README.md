# A TLA+ model of SchoolFlow

SchoolFlow administers Austrian schools: it solves timetables with a Timefold
sidecar, lets admins edit them, finds substitutions, keeps the class book,
imports data, sends messages and obeys the data protection law (DSGVO). The
modules here model the parts where several things go on at once: the life of a
timetable from the master data to the plan the admins edit by hand,
substitutions, the class book, messages and polls, the jobs and records of the
school office, accounts and bookings, and the web client's query cache and
forms.

## The system

A NestJS API (`src/apps/api`) over PostgreSQL (Prisma, READ COMMITTED unless a
transaction asks for more) and Redis (BullMQ); a Quarkus sidecar
(`src/apps/solver`) that solves timetables and calls the API back; a React client
(`src/apps/web`) with TanStack Query; Keycloak for identities. On the server,
state lives in the database; the API holds none between two requests. What
interleaves is therefore every `await`: a service reads, decides, and writes in
statements of its own unless it opens a transaction. In the client state lives
twice, in the query cache and in the forms filled from it, and what interleaves
is the user, the answers and the socket events.

| Component | State it keeps | Operations | What is hard | What makes it correct |
|---|---|---|---|---|
| Solve runs (`timetable.service`, `solve.processor`, `solve-watchdog`) | TimetableRun rows, lessons, conflicts; BullMQ jobs | start, progress, complete, stop, activate, sweep, trim | lost and late callbacks, crashes, redelivery, several writers of one status | at most one active run; the newest runs kept; no conflicts without a plan; no run SOLVING for ever |
| Solver sidecar (`SolverResource`, `TimetableConstraintProvider`) | a solve per run id | solve, terminate, two callbacks | callbacks asynchronous, sent once | every solve ends in one final callback or none; its hard constraints are what the tables accept |
| Solver input and diagnostics (`solver-input`, `timetable-diagnostics`) | none | build the payload, bound what is feasible | master data changes while the sidecar solves; week types | a stored plan honours the templates; an alarm is genuine |
| Lesson partition (`handleCompletion`) | none | split a solution | residual clashes | what is stored fits the unique constraints; nothing is lost |
| Manual edits (`timetable-edit`, `timetable-conflict`) | lessons, edit history, conflicts | validate, move, revert, resolve | checks outside the transaction, constraints weaker than the checks | no double booking; a revert restores; the run completes with its last conflict |
| Substitutions (`substitution/`) | absences, substitutions, class book entries, handovers | create/cancel absence, offer, answer, Entfall, Stillarbeit | offers against withdrawals, two isolation levels | one substitute is in one place; the class book says what the substitution says |
| Class book (`classbook/`, `AttendanceGrid`) | entries, attendance, excuses, grades | first read, record, review | rows created on first read; a client that saves by itself | registers are whole; an accepted excuse excuses; what is set is stored |
| Messaging, polls (`communication/`) | conversations, messages, recipients, unread counters, votes | send, read, report, vote, close, page | counters against rows | the counter is the number of unread rows; one vote per choice |
| Import (`import/`) | ImportJob rows, a temp file, BullMQ jobs | upload, dry run, commit, delete | a worker and requests writing one row | a committed job imports once and says what it did |
| DSGVO (`dsgvo/`) | DsgvoJob rows, BullMQ jobs, persons, policies | request deletion/export, anonymise, retention | a row and a job written apart | one deletion per person; a checked category is clean |
| Bookings (`room/`, `resource/`) | bookings | book, cancel | check, then insert | no double booking, also with A, B and BOTH weeks |
| Accounts (`role-management/`, `keycloak-admin/`, CASL) | UserRole rows, Keycloak mappings, overrides | replace roles, enable, override | mirror written after the commit | one admin is left; what is shown is what is decided |
| Person links (`user-directory`) | Person.keycloakUserId | link, unlink | check, then write | no link is stolen |
| Master data (`class`, `subject`, `teacher`, `student`, ...) | rows | CRUD behind orphan guards, Stundentafel | count, then delete; references without a key | no counted reference is left dangling; one row per subject |
| Web client | query cache, drafts | hooks, sockets, pages, forms | invalidation by key, late answers, drafts filled from a cache | a page shows what its user changed; a draft is not lost |
| Everything else | rows | CRUD, views, export, audit, push | little | foreign keys |

The components meet in the database. The active TimetableRun is read by views,
room booking, absences and substitutions; a substitution writes class book
entries; retention and anonymisation delete under all of them.

## Modules

| Module | Models |
|---|---|
| `SchoolRuns` | what the table of runs promises, abstractly |
| `SolveRun` | `startSolve`, the BullMQ job and its worker, the sidecar and its callbacks, `stopSolve`, `activateRun`, the watchdog, crashes; implements `SchoolRuns` |
| `Scheduling` | the payload of a solve, the seven hard constraints, what is stored of a solution, the feasibility bounds |
| `LessonPartition` | the loop of `handleCompletion` that splits a solution |
| `TimetablePlan` | `validateMove`/`moveLesson`, `revertToEdit`, `resolveConflict` on the plan of one run |
| `Substitution` | `TeacherAbsenceService`, `SubstitutionService`, the class book entries they write |
| `ClassBook` | `AttendanceService`, `ExcuseService`, and the `AttendanceGrid` of each teacher |
| `Messaging` | `ConversationService`, `MessageService`, `PollService`, and a client's message list |
| `ImportJobs` | `ImportService` and `ImportProcessor` |
| `DsgvoJobs` | `DsgvoService`, the deletion and export workers, `ConsentService` where it meets an erasure |
| `Retention` | policies, the nightly check and those an admin starts |
| `Bookings` | `RoomBookingService`, `ResourceService`, against the lessons of the active plan |
| `Accounts` | role changes, the Keycloak mirror, tokens, overrides, the CASL rules |
| `PersonLinks` | linking persons to Keycloak users |
| `Curriculum` | a class's Stundentafel: apply, update, reset, single rows |
| `SchoolRecords` | deletions behind the orphan guards |
| `WebHook`, `AdminHooks`, `SchoolDayHooks` | what a hook is; every query, mutation and socket hook of the client |
| `WebComponents`, `WebPages` | which hooks a component mounts, and a page with its components |
| `WebCache` | the query cache between an action of a page and a query that shows it |
| `WebForm`, `AdminForms`, `SchoolDayForms` | what a form is; every dialog, tab and button that sends |
| `WebForms` | a form at work |
| `LessonContent` | the form that saves lesson contents by itself |
| `MC...` | instances for TLC and the constraints that bound them |
| `SolveRunProofs`, `TimetablePlanProofs`, `SubstitutionProofs`, `ImportProofs` | theorems and proofs about the module of that name |
| `MasterDataProofs` | about `LessonPartition`, `Scheduling`, `Curriculum`, `SchoolRecords` and `MCMasterData` |
| `SchoolDayProofs` | about `WebCache`, `Messaging`, `ClassBook`, `WebForms`, `LessonContent` and `MCSchoolDay` |
| `RecordsProofs`, `AccessProofs` | about `Retention`, `DsgvoJobs`; about `PersonLinks`, `Accounts`, `Bookings` and `MCBackOffice` |

Variables named `aux_...` are auxiliary: they remember what a property speaks of,
and no guard reads them.

### SolveRun

`row` is the table: a record per run, in order of creation, with the fields of
TimetableRun the code decides on. Scores and violations are only told apart by
who wrote them (`figures`), lessons and conflicts by the delivery of the job whose
solution they came from. A solution that comes after another of the same run may lose
lessons to it, since `createMany` skips duplicates: `skipped` are the deliveries some of
whose lessons were left out (`LeftOut`). `updatedAt` is `overdue`, cleared by every Prisma
update, as `@updatedAt` is. A value of `starts`, `worker`, `handling`, `stopping`
or `sweep` says at which `await` a call is; what the call has read and uses later
is kept with it (`victims`, `sweep`). One action is one stretch between two awaits:

- `startSolve`: `CreateRun`, `Enqueue` / `EnqueueFails`, `ReadRunLimit`, `DeleteSurplus`;
- `SolveProcessor.process`: `FetchJob`, `MarkSolving`, `Submit` / `SubmitFails` /
  `AcceptanceLost`, `FinishJob` / `MarkFailed`;
- `SolverResource`: `BestSolution`, `FinalSolution`, `SolverDies`, `LoseCallback`;
- `handleProgress`, and `handleCompletion` as `ReceiveCompletion`, `PersistLessons` /
  `PersistFails`, `RecordConflicts`, `DowngradeRun`, with `HandlerThrows` for an
  error nothing catches;
- `stopSolve`: `RequestStop`, then `MarkStopped` or `StopUnreachable`; `activateRun`: `ActivateRun`;
- `sweep`: `SweepBegins`, then one `SweepFails` per expired run.

A handler whose run was deleted gets an error from Prisma or the foreign key and
changes nothing. `Crash` drops every call in flight and gives the job in hand
back to BullMQ. The code sorts the runs by `createdAt`; the model takes the
order of creation. `net` is a set, so two progress callbacks of one
solve that are under way at once are one message: handling either has the same
effect.

### LessonPartition

One step per candidate. A key is a pair of a teacher (room) and a slot, where a
slot stands for day, period and weekType. The maps are sets of pairs of a key and
an index. Parsing of lesson ids and labels is left out: the candidates are any
sequence of lessons.

### TimetablePlan

`plan` is the sequence of the run's lessons, `edits` its history, `open` the OPEN
conflicts. Every admin has one request at a time, and `op` says which query or
write comes next: the lesson is read, then teacher, room and class are checked by
a query each, then (a move) the lesson is read again, then written.
`resolveConflict`'s transaction is three steps, insert and update, count, commit,
because at READ COMMITTED its count does not see what other transactions have yet
to commit. The unique constraints of the table refuse a write (P2002), and a write
waits for an uncommitted insert of the same key. Edit times are taken to be in
the order of commits. `aux_after` remembers the plan each edit left, `aux_stale` whether a write was decided
on a plan that had changed.

### Substitution

The system has one weekday here, so a date is the number of a week, and odd weeks are A
weeks. A substitution is named by what never changes in its row, its absence, the lesson it was expanded
from and the date; `row` holds status, type and substitute. `entries` are the class
book entries with their two unique keys; whoever opens a lesson creates one
without a substitution. Every transaction is one action, for three reasons:

- `assignSubstitute` is Serializable. Two of them are ordered by PostgreSQL, and one fails when its
  own row was written since it began. Against the others, which are READ COMMITTED, it
  could as well have run when it took its snapshot: they read nothing of other rows.
- `setEntfall`, `setStillarbeit` and `cancel` decide nothing on what they read but that the row is
  there. They lock it with their first write, before they touch the class book.
- `respondToOffer` does decide on what it read: it is two steps, `ReadOffer` and `WriteAnswer` (or
  `AnswerRefused`, when the class book's unique key rolls it back). Its entry is
  made from the row the update returned, not from the one it read.

`aux_stale` remembers that an answer was written to an offer other than the one it
was read from.

### Scheduling

`school` is what the tables hold, `problem` the payload `buildSolverInput` made
of it, `placed` the sidecar's assignment so far, `result` what was stored. A
course (ClassSubject) yields `Lessons` by its hours, block length and week types;
`Restrictions` keeps the strictest NO_LESSONS_AFTER of a class as the code does.
The search is `PlaceLesson`: any placement that breaks none of the seven hard
constraints, each an operator named as in `TimetableConstraintProvider`. Teachers
may be changed meanwhile (`ReassignTeacher`); `StoreLessons` stores with the
teachers of that moment, as `handleCompletion` does. `ClassOverloaded`,
`TeacherOverloaded`, `RoomCapacity` and `RoomTypeCapacity` are the bounds of the
diagnostics. Soft constraints are left out.

### Curriculum, SchoolRecords

`Curriculum` follows one class. `applyStundentafel` counts and then creates a row
for each subject of the template, `updateClassSubjects` and `resetStundentafel` read and then
commit a transaction, and single rows are added and removed by themselves; `editing`
holds what a call has read. A request of `updateClassSubjects` is a list (`Wishes`), and nothing
forbids it to name a subject twice. Apply and reset take the template of the `schoolType` in the
request (`Templates`), an update compares with that of the class's school (`OwnTemplate`).

`SchoolRecords` deletes one record of one kind. `Columns` lists the columns that
may refer to it, with what the database does to them (`onDelete`) and whether the
guard counts them. `CountReferences` and `Delete` are the guard and the delete;
`WriterBegins` and `WriterCommits` are any call that reads the record and later
writes a reference; a teacher's Person is deleted by a statement of its own (`DeletePerson`),
and `CrashRemoval` may come between any two.

### ClassBook

`record` holds the attendance rows, `opened` the lessons with an entry. The server's
first read of a register is two steps, `ReadRegister` and `CreateRegister`: it
finds no rows, and then creates all of them in one transaction, which fails whole when
another request was faster; reviewing is `StartReview` and `WriteReview`. `grid` is the `AttendanceGrid` of a teacher: cached
and local register, `dirty`, the two-second timer, the query. A tap restarts the
timer; when it fires, `Save` sends the whole register, which may be answered, refused or
lost and may overtake another (`saves` is a set). `aux_doubt` says why a grid may
be at rest without what was set: a lost request, saves that overtook each other,
a list that showed an older state.

### Messaging

One conversation and one poll at a time. `receipt` and `unread` are the two places that
count what is unread; `message` the rows; `call` the call of each client that has read
and has yet to write; `list` what a client has paged through. A user may have
two clients. `StartMarkRead`/`WriteMarkRead`, `StartVote`/`DeleteVotes`/`InsertVotes`,
`StartReport`/`CreateForReport`/`WriteReport` are the calls whose parts come apart.

### ImportJobs

`import` holds the rows, `disk` the uploaded files, `importQueue` BullMQ, `importer` the
worker and the row it is at, `entries` what has been imported. `starting` are the calls of
`startDryRun` and `commitImport` under way, one per caller, of the same job too: they read the row
(`StartDryRun`, `RepeatDryRun`, `CommitImport`), write options or status into it (`KeepImport`), add the BullMQ
job (`QueueImport`), and write its id, a dry run also QUEUED (`MarkQueued`), so a short dry run is
overtaken; the row may be deleted, and the database or Redis reject, between any two (`CallEnds`). The worker's last update
(`FinishImport`, `FailImport`, or `LeaveImport` if that one rejects) and the unlink in `finally`
(`CleanUp`) are two steps, and `CrashImport`, which hands the job out again, may come between them.
A row is refused by a number the database does not take whether it creates or updates an entry.

### DsgvoJobs, Retention

`Ask`, `CheckPending`, `CreateDsgvo`, `EnqueueDsgvo` are the four awaits of a request: load the person,
look for a pending job, create the row, add it to the queue, which may reject. `dsgvoWorker` holds a worker
per type and how far it is: `MarkProcessing`, then for a deletion `LoadPerson`, which looks at `isAnonymized`, and
`Anonymize`, the transaction, for an export two `ReadData`; then `Complete`, or `Fail`, wherever something
throws in between. `UpdateRejected` is an update of the row that rejects, before the `try` or in the
`catch`. `plain` says which data still name the person. `aux_lost` holds the rows that a named fault parted from their job: a
crash before the add or of a job handed out before, a rejected add, a rejected update. `ReadConsent` and `GrantConsent`
are a grant that overlaps the erasure.

`Retention` counts days: records are created and grow old, `StartCheck` fixes `now` and a list of schools and
categories, `ReadPolicy` reads the policy of one of them and `CheckCategory` deletes or counts by it. The night's check of
all schools and an admin's of one (`GET dsgvo/retention/school/:id/check`) overlap.

### Bookings, Accounts, PersonLinks

`Bookings`: `CheckBookings`, `FindActiveRun`, `CheckLessons`, `CreateBooking`, one hour of the week, with the week
types. The query for overlaps is `Meets`, the meaning is `Overlap`. `PlaceLesson` and `RemoveLesson` are
solutions and plan edits, `ActivateRun` puts another run's lessons into force; none looks at a booking.

`Accounts`: `CommitRoles` is the Serializable transaction with the last-admin check,
`ListMappings`, `AddMappings`, `RemoveMappings` the mirror, which may fail after any of
them. Tokens carry the realm roles of their login. `PersonLinks`: check and write of a
link, by clerks at once.

### The web client

`WebHook` says what a hook is: a query with its key and what it reads, a mutation with
what it writes and the keys it invalidates, a handler of a socket event. `AdminHooks` and
`SchoolDayHooks` list every hook of `src/apps/web/src/hooks` with these;
`WebComponents` and `WebPages` say which are mounted together. Layout, columns and
wording are abstracted: a component is its hooks, a page its components. From these
`Pairs` computes every action of a page (or of a socket the page listens to) and
query of it that shows what the action writes, and `WebCache` runs each pair
through every interleaving of the request, the refetch, errors, lost
events, leaving and coming back. The library itself is modelled from how the hooks use
it. `told` is what the user knows to be stored, on the page or off it. `ChangesAreShown` names its exceptions:
`Overlooked` are the forgotten invalidations, and `aux_overtaken` is one timing: the page was left while an answer
was on its way to it, and the change was settled before that answer came. Nothing refetches a query that no
page shows, and the older answer then ends the invalidation: on return it is shown as fresh, until the query
is next asked for.

`WebForm` describes a form, one field per decision of the component: when its draft is filled (on opening, on
the first mount, with the cache, with the lists beside it), when it is emptied, during which of its
requests the button is disabled, whether it is mounted anew each time it opens and its parent still hears the answer,
whether it can be left or typed into meanwhile, what a conflict does to it, and what the page asks before it
is left. `AdminForms` and `SchoolDayForms` list the forms, grouped by page. `WebForms` runs each with
two entities, late and refused requests, other users and refetches:

- `openFor`, `draft` and `typed` are the component's state hooks; `wire` are its requests on their way;
- `mountedAt` is the last request before the component was mounted: `isPending` of a new instance does not know the earlier
  ones, nor does a callback of an unmounted instance run (`InFlight`, `Local`);
- `prompting` is the page's prompt, and its answer, or a refusal that shows what is affected;
- `cleared` is the page that takes a tab for clean with every accepted request (`StudentDetailTabs`);
- `OpenForm`, `Type`, `Undo`, `Cancel`, `LeaveForm`, `Submit` and the three buttons of the prompt are the
  user's; `AcceptForm` and `RefuseForm` are the answers, `RefetchForm` the effects that follow the cache.

The page itself is not left: only the school settings block that in the router, and a form that
is unmounted with its page has nothing more to lose than one that is closed.
`DraftsAreSafe` names the forms that lose a draft (`Forgetful`) or send it twice or to the wrong one
(`Misdirected`), by cause.

`LessonContent` is `LessonContentForm` with its one debounce timer.

These modules follow the client at the granularity of hooks, components and forms, so much
of the code a definition stands for is layout it abstracts from.

The server modules have a step for each await after which something that was read, checked or written is relied
upon while another call can change it, with these exceptions. The following awaits are merged into one step, so the model has
no other call between them: the reads of `buildSolverInput` (`BuildSolverInput`; they are of one school
whose data an admin may edit meanwhile, and the payload is then a mixture the model does not have); the counts of an orphan guard
(`CountReferences`; that one reference goes and another comes between two counts, so that both are missed, is
not in the model); `uploadAndParse`'s create and update with the write of the file (`Upload`: no call knows the id before it
returns); `deleteJob`'s find and delete (`DeleteImport`); the find and the write of a row of an import (`ImportRow`:
one worker writes them); the reads of names, schools and users before the first check of a call; and the statements of a
transaction whose isolation is argued for above.

## What the runs check

| Run | Checks | Instance |
|---|---|---|
| `solve_single` | `ConflictsHavePlan`, `SettledStatus`, `RunsLeaveSolving` | one run, every shape of solution, two deliveries, a progress callback, one fault |
| `solve_pair` | `TypeOK`, `AtMostOneActive`, `RunLimit`, refinement of `SchoolRuns` | two runs with a limit of one, clashing solutions, one fault; stops are left to `solve_single` |
| `solve_watchdog` | `WatchdogFlipsOnlySolving`, violated | one run |
| `plan_edit` | `CompletedIsSettled`, `MovesAreUndone`, `PlanIsClashFree` | two settlers, one of them a planner too, two lessons, two conflicts, weeks A and BOTH, four edits |
| `plan_flip` | `LastResolveCompletes`, violated | two settlers |
| `subst` | `TypeOK`, `ClassBookMatches`, `OneStandIn`, `NoDoubleOffer` | three teachers, two absences, two timetables, two answers under way, one period of one A week |
| `subst_settled` | `SettledIsNotDeclined`, violated | one absence, one answer under way |
| `master_data` | `MasterTypeOK`; of the partition `AcceptedFitsConstraints`, `ConflictsAreReal`; of the solve `StoredPlanIsSound`, `ErrorsAreGenuine`; `OneRowPerSubject`; `GuardHolds` | every solution of four lessons, two teachers, rooms, slots; two courses in some 4000 schools; two templates, requests of up to two rows, two editors; six kinds of records |
| `backoffice` | `TypeOK`; `ImportedOnce`, `CompletedIsImported`, `QueuedHasWork`; `ErasedOnce`, `PendingIsOnItsWay`; `CheckedIsClean`; `GivenOnce`; `LastAdmin`, `ShownIsDecided`; `LinkNotStolen` | two files of four rows, two callers; three requests, two faults; two schools, four days, the night's check and an admin's; a room, a resource, two runs, two bookers; two users, two roles; two persons, three logins, two clerks |
| `import_commit` | `DryRunCanBeCommitted`, violated | the same |
| `school_day` | `TypeOK`; `RegisterWhole`, `ExcusesApply`, `GridIsStored`; `UnreadMatches`, `PollIsFair`; `ChangesAreShown`; `DraftsAreSafe` | two grids, or a grid, an excuse and two reviewers, two taps; a parent on two clients and the Klassenvorstand, two messages, a poll; every pair of action and query with two writes; every form with two entities, two requests, one change by others |
| `lesson_autosave` | `EachFieldSavesOnBlur`, violated | three fields, one change |

`master_data`, `backoffice` and `school_day` hold several components that share no state.
`moving` picks in the initial state which of them moves, so a run explores the sum of
their state spaces, and every behaviour of each alone, instead of the product. The
properties of all are checked in every state.

Bounds. `MaxStarts`, `MaxDeliveries`, `MaxFaults`, `MaxProgress`, `MaxEdits`, `MaxAbsences`, `MaxQueued`,
`MaxCrashes`, `MaxDay`, `MaxExcuses`, `MaxTaps`, `MaxMessages`, `MaxConvs`, `MaxReports`, `MaxWrites`, `MaxSent`,
`MaxOthers`, `MaxChanges`, `MaxRows`, `MaxWishes`, `MaxRejected`, `MaxDsgvoFaults` and `MaxRefs` cap what would
be unbounded; each stands in a guard. Two runs with a limit of one are enough for a
run to be deleted under every handler it has. Two deliveries are what BullMQ's default
(`maxStalledCount` 1) gives, and let two solutions of one run meet; `ConflictsHavePlan` is therefore checked in `solve_single`. Four lessons over two of everything give every pattern
of teacher and room clash with up to two earlier lessons. Four edits are two moves
and two reverts, the least in which a revert goes back over a revert. Two settlers with two conflicts resolve
both in overlapping transactions, or one of them twice. Two absences in
one period are two teachers away at once, or one teacher away twice, which leaves two substitutions of one
lesson; two answers are a late one and one that overtakes it. Two import jobs share a
row, so one meets what the other imported; one row is refused, in a new entry or an updated one, and one has missing
fields; two callers start one job at once. Three DSGVO requests are two deletions and an export at once; two
faults are a crash and a second one, which finds the job stalled before. Four days
and a default of two let a policy be shortened and lengthened between two checks, and between a check's reading and its
deletion. Two runs let another plan come into force between a booking's read of the active run and that of its
lessons. Two rows of one request name a new subject twice. Two clerks, and three logins,
are a link and its thief. Two writes let an answer carry the first while the second is done.
Where the proofs below hold, they hold for every value; the bounds then only decide
what TLC looked at before.

Constraints (`CONSTRAINT` in a cfg) stop the exploration where a state space would grow
without telling more: when a write of the plan was stale (its history then promises
nothing), when a third call of a conversation would begin, when a second thing goes
on in a state where two are checked apart. Each stands with its reason in its MC module; `backoffice` explores one import with overlapping calls and rejections, and
two with a crash, started one after the other. `SYMMETRY`
is used in `subst` and `school_day`, of values only compared for equality; in `school_day` the class book's
teachers are the same model values as the conversation's clients, and its reviewers as the
poll's options, which keeps the group small and never meets in a state that moves.
`CHECK_DEADLOCK FALSE` stands where bounded behaviours end: all jobs done, all days passed.
The `solve_...`, `plan_...` and `subst...` runs check deadlock.

Fairness. `solve_single` assumes weak fairness of time passing (`BudgetPasses`) and of
the watchdog: a cron that fires every minute and a loop over its rows that awaits
only the database. Nothing is assumed of users, network, sidecar or worker, which
may all stop. The property excuses runs whose school activates runs for ever:
`activateRun` updates every row of the school, which refreshes `updatedAt` and with it
the watchdog's clock.

## Where code and documentation disagree

Shown by a run of its own:

- `WatchdogFlipsOnlySolving`: `sweep` reads the SOLVING runs and then updates each by id alone.
  A completion handled in between is overwritten: its lessons are stored and the run is FAILED.
- `LastResolveCompletes`: two admins who resolve the last two conflicts at the same time each
  count the other's as OPEN; the run never flips back to COMPLETED.
- `SettledIsNotDeclined`: a teacher declines while the admin sets Entfall. The answer was checked
  against an OFFERED row and is written by id, so the lapsed lesson, of which everybody
  was told, is DECLINED and listed as open again. The class book stays right
  (`ClassBookMatches`), since the entry follows the row as it is when it is written.
- `DryRunCanBeCommitted`: a dry run deletes the uploaded file and overwrites the field that held its
  path; the wizard's second step, the commit, is always refused.
- `EachFieldSavesOnBlur`: the content form's fields share a debounce timer; leaving a second field within
  a second cancels the save of the first.

Stated in the modules, and refuted by TLC when checked by itself (put the name in a cfg as an
INVARIANT or PROPERTY to see the counterexample):

- `SolveRun!FailedRunHasReason`: a failure in the worker sets FAILED without an `errorReason`
  (`solve.processor.ts:61`), which the schema says is set whenever a run fails.
- `TimetablePlan!RevertRestoresPlan`: the record of a revert holds no placement, so a later revert over
  it skips it in silence (`timetable-edit.service.ts:375`). Without a revert in between, `MovesAreUndone`
  shows that going back does restore the plan.
- `ClassBook!TapsAreStored`: a tap between the answer of a save and the refetch it triggers is undone,
  with no request lost (`AttendanceGrid.tsx:39`). `Focus` stops before it: leave the constraint out, and take one
  teacher and no reviewers.
- `Messaging!PagesShowAll`: the message that serves as cursor is on neither page
  (`message.service.ts:245`), and a deleted cursor starts the list again.
- `Retention!KeptForItsTime`: the cleanup queries do not name the school, so the shortest policy of any
  school deletes the records of all. `DsgvoJobs!NotesAreErased`: no phase anonymises the student notes its
  comment announces. `ExportsAreErased`: a bundle made before the erasure keeps the person.
- `Bookings!AvailableIsFree`: availability is looked up under BOTH only, so a room with an A week's
  lesson is shown as free.
- `Accounts!SomeoneCanReapply`: promote a second user while the mirror fails, then demote the first:
  nobody is admin in Keycloak, where the comment counts on an admin to apply the roles again.
- `PersonLinks!RaceIsRefused`: the fallback for a link that was faster waits for a P2002 the
  write cannot raise; the second link wins.
- `Scheduling!EveryErrorIsGenuine`: with one subject in A weeks and one in B weeks, which share hours,
  the bounds raise a false alarm.
- `Curriculum!AppliedOnce`: two calls at once, or the template twice through the class's page, double the
  Stundentafel; `skipDuplicates` does nothing where `groupId` is NULL.
- `SchoolRecords!GuardIsComplete`: `TimetableConflict.teacherId`, `GroupDerivationRule.studentIds` and
  `AbsenceExcuse.parentId` are counted by no guard.
- `WebCache!FailuresAreShown`: many hooks answer null or an empty list when the server refuses.
  `PartsAreShown`: the bulk move stops at the first refusal, refreshing nothing, where its comment announces
  a toast about the part that was done (`useStudents.ts:341`).
- `WebForms!LateAnswersAreHarmless`: in nearly every dialog a late answer closes whichever dialog is open.

Met while modelling, and part of the models' behaviour (an `aux_` variable or an exception set tells
the properties about it):

- `NoDoubleOffer` holds until a stale answer is written, since one that accepts an offer
  declined in the meantime can bring it back beside a new one. Supervisors of Stillarbeit and
  activations of another run are checked against no offer at all, so the property does not
  speak of them. `SettledStatus` holds without crashes only, since `handleCompletion` says COMPLETED
  before it stores anything; `PlanIsClashFree` holds only as long as no write was
  overtaken (the checks are outside the transactions, and the constraints know no
  classes, and A and BOTH as different weeks), and it assumes a solution without
  clashes the constraints do not catch.
- Messaging: `markRead` resets the counter over a message that came between its read and its
  transaction; deleting an unread message leaves the counter too high, and `markRead` then returns early;
  two votes from two clients at once are both counted; `retractVote` checks no deadline; `reportAbsence`
  stores the excuse before it may lose the race for the conversation.
- Solve runs: where a job is handed out again and both its solutions come back, `createMany` leaves out the lessons of the second
  that meet those of the first and counts them as stored; its conflicts then name lessons of which some are missing. `ConflictsHavePlan`
  promises a whole plan of the first solution only.
- Import: `processImportRow`'s promise is returned unawaited inside `try`, so a refused row fails the job
  with the rows before it imported; a late QUEUED overwrites DRY_RUN, and where a worker's last update
  rejects the row stays as it is (`aux_adrift`); deleting the row leaves the queue;
  a crash after `finally` turns COMPLETED into FAILED when the job comes again; MIXED passes its dry
  run and fails at every row.
- DSGVO: a crash between create and add, a `queue.add` that rejects (`data-deletion.service.ts:53`,
  `data-export.service.ts:50`) or a rejected update of the row leaves it pending and blocks all later requests of that
  type; a redelivery after the
  commit calls a finished deletion FAILED; a grant with a stale read restores the legal basis.
- Bookings: two calls at once double-book a unit, in an A or B week and in BOTH; plan edits and activations look at no
  bookings. Roles: `setEnabled` can disable the last admin; the mirror removes Keycloak's built-in roles; a deny
  override with conditions denies without them.
- Solver input: lessons without a teacher are "schedulable but unconstrained" by the comment, but two of them
  are in each other's way, as '' = ''; a teacher changed while the sidecar solves makes lessons drop and
  ignores blocks; an A-week subject of a school without A/B weeks is stored as BOTH.
- Curriculum: one update that names a new subject twice gives it two rows (`update-class-subjects.dto.ts:94` checks no
  uniqueness); a crash in the middle of `applyTemplate` leaves a part that the next call refuses with
  409; a reset leaves plan lessons that point at nothing.
- Records: a crash between the deletes of a teacher and its Person leaves the Person; a year activated between
  count and delete leaves no active year.
- Web cache: the pairs in `Overlooked`, among them the list of runs, whose key is
  `timetable-runs:recent` while the socket invalidates `timetable-runs`, the two invalidations of a key that
  only an unused hook has, and the events that never reach the substitution lists. Only the
  timetable socket refetches after a reconnect. No hook awaits its refetch, so a dialog opened again
  right after its save is filled with the old data.
- Web forms: "Speichern & Weiter" saves nothing, and in some tabs goes on; a reply typed for one
  conversation is sent to the next (`MessageReplyInput` is not keyed); some dialogs are filled anew under the
  user's hands when a list arrives; a form that is mounted anew for each opening sends again what
  its last instance has on its way.

## What is proved

Every invariant and action property that a passing run checks is also proved, for every value of the constants. The
assumptions are named in the modules: bounds are natural numbers and limits positive; marks such as `None`, `Null`,
`Nobody` and `NoEdit` are no rows; the data given to a model have their types (`File`, `Plan`, `Given`, `DateOf`, `UserOf`,
`Templates`, `Permits`). Sets that are counted are finite: the admins who edit a plan, the clients and options of a
conversation, the subjects of a class, days, periods and the rooms of a school (`DataAssumption`,
`MessagingAssumption`, `CurriculumAssumption`, `SchedulingAssumption`). The plan that admins edit is
one the unique constraints accept, and each recorded conflict is one with a stored lesson, which is
what `PartitionCorrect` says the solve run leaves (`DataAssumption`).

- `SolveRunProofs!TypeCorrect`. `TypeOK` is inductive; one lemma for each group of actions.
  It carries more than types: a deleted row is `NoRow`, so no handler that outlives
  its run brings anything back.
- `RunTableCorrect`, `RunLimitHolds`. `RunLimit` is not inductive: it must be known that what a request
  read as surplus still is when it deletes. `RunTableInv` says that requests are
  numbered in order of creation, the newest `MaxRuns` runs always have a row (so a
  run with that many newer rows is old for good), and what was read as surplus is
  older than those. Every action but `startSolve`'s leaves the set of runs alone
  (`TableKept`), so the induction looks at four actions only. That the newest
  request leaves at most `MaxRuns` runs is then a count of an interval. The run checks a
  limit of one; the theorem holds for every limit.
- `OneActiveRun`, `Implementation`. Every step creates, trims outdated runs, activates one,
  deactivates one, or stutters on `SchoolRuns`; trimming is allowed because of
  `RunTableInv`.
- `PlansAreWhole` (`ConflictsHavePlan`) and `StatusSettles` (`SettledStatus`). Conflicts are recorded by a handler
  that stored their lessons; the first solution stored for a run loses none of them, a later one may. That
  the status tells whether conflicts are left needs that one thing at most is under way for a run
  until something fails.
- `PartitionCorrect`, `PartitionTypes`, with `StoredLessonsFit` and `RecordedConflictsAreReal`. The loop invariant:
  the maps hold exactly the accepted lessons' keys, and everything before `next` is accepted or
  recorded.
- `TimetablePlanProofs!RunsAreSettled`. `CompletedIsSettled` for any number of admins and conflicts.
  `SettledInv` adds that a request about to commit as the last one is right about
  it; this is stable because no conflict is ever opened again, so `open` only
  shrinks between the count and the commit.
- `PlanIsTyped`, `HistoryIsKept`, with `RevertsUndoMoves` (`MovesAreUndone`) and `EditsKeepPlanClashFree`
  (`PlanIsClashFree`). Neither property is inductive. `HistInv` says of a request that nothing overtook that
  what it has found out is still true of the plan, and of the history that undoing the moves after an edit gives
  the plan which that edit left. `MovesAreUndone` says nothing of a revert that goes back over an earlier one. The code undoes the edits newest first; what remains of that loop is, for
  each lesson, what its oldest undone edit held (`Rollback`). Such a statement needs no
  induction over the history: an edit more is either of another lesson, or it is the newest
  and undoing it gives the plan before it (`MovesInOneMore`, `EditOfAnother`, `EditOfThis`).
- `StandInTypes`, `StandInCorrect`, with `ClassBookIsRight` and `OneStandInEver`. `ClassBookMatches` speaks of CONFIRMED
  rows and is not inductive: one late answer may decline quiet work and another confirm it again,
  and the entry must not be lost in between. `Matches` asks for the entry of a Stillarbeit,
  and for the absence of one of an Entfall, whatever the status. With the unique keys
  (`UniqueKeys`), two staffed substitutions of one lesson would be one entry, so one
  substitution.
- `OneOfferPerSlot`. Given types, `NoDoubleOffer` is inductive: every step but an assignment only takes
  offers away, as long as no answer is stale, and an assignment has looked.
- `ImportCorrect`, with `NothingTwice`, `CompletedMeansImported`, `QueuedIsWorkedOn`. `Tally` says that the
  worker's counters add up to the row it is at, and that without skipped and refused rows
  every row so far has its entry; so zero errors at the end mean all of them. `OnTheWay` adds
  to `QueuedHasWork` that a call yet to set QUEUED has its job waiting or in hand, or is known to be late (`aux_adrift`).
- `LinksCorrect`, with `LinkIsNotStolen`. A clerk past the check finds the person free or the user's own,
  or another call for the person came in between; in that case the second link does win, and the theorem says nothing of it.
- `AccountsCorrect`, with `AdminRemains` and `GuardFollowsRows`. `OnCourse` says of a user whose changes did not
  overlap or fail that the mirror, plus what the one call in progress has yet to do, is the rows; users whose mirror failed are
  left out. The last
  admin stays because a transaction that read other rows than it finds is aborted.
- `BookingsCorrect`, with `BookedOnce`. A call that has checked meets no booking, or one made by a call it
  overlapped; past the read of the lessons, none but later ones, or those of a run activated since. `QueryFindsOverlap` shows that the
  query's split of BOTH finds every overlap.
- `RetentionCorrect`, with `CheckedStaysClean`. No check is of a day to come, so what is written after it is younger
  than what it looked for; a policy that changes takes the promise with it, and a deletion by a policy read before that and longer
  than the new one gives none. However many checks overlap, each deletion can only take more away.
- `RecordsCorrect`, with `GuardAlwaysHolds`. Between count and delete every counted reference was written late.
- `DsgvoCorrect`, with `ErasedAtMostOnce` and `PendingMoves`. `Sorted` says that calls, queues and workers are about rows
  of their type; `Erasing` that a worker that has anonymised the person is the only one that can still complete a
  deletion, since the others find the person anonymised. Every step that takes a pending row out of a call, a queue or a
  worker hands it on, settles it, or is one of the named faults.
- `SchedulingIsTyped`, with `StoredPlansAreSound` (`StoredPlanIsSound`) and `NoFalseErrors` (`ErrorsAreGenuine`). The school
  keeps its courses while the sidecar searches, and what is placed breaks no hard constraint, of a plan with hard score 0,
  which alone the search of this module makes; of the restrictions of a
  class the code keeps one, which is the strictest because every set of naturals has a smallest
  (`StrictestIsKept`). `NoFalseErrors` is a count: with a complete plan each weekly hour of a class's, teacher's or
  room type's courses has a lesson, two of them have different slots (`OneAtATime`), so there are at
  most as many as slots (`FS_Injection`).
- `CurriculumIsTyped`, with `SubjectsHaveOneRow`. A call that met nobody, and names no subject twice, finds what it has read: the subjects it still has to
  write have no row (`Undisturbed`), and an id stays with its subject.
- `ClassBookIsTyped`, with `RegistersAreWhole`, `ExcusesAreApplied`, `GridsAreStored`. `RegistersOK` and `GridOK`: only a lesson
  that has all its records is shown or saved, so a save never makes half a register. `ReviewOK`: what a
  reviewer has read still holds but for what `aux_late` names, the absences recorded while an excuse is reviewed or later, and `aux_twice`, the
  excuses two reviewers decided on. `Meant`: what a teacher has set waits in the
  timer, or is in the latest save, on its way or stored; with the grid at rest the last one remains.
- `MessagingIsTyped`, with `BadgesMatch` and `PollsAreFair`. Every transaction changes a receipt and its counter together or
  leaves an auxiliary that says why not. That message numbers do not run out needs `RoomLeft`: a call
  about to write a message has its number kept. The result of a poll stands if it closed while no vote was under way. A vote that raced with none is the only one (`OneEach`).
- `RefreshedIsShown`, `PagesShowChanges` (`ChangesAreShown`), `CacheIsTyped`. For a hook whose invalidation reaches the
  query, `WillShow` is inductive: an answer on its way was asked for after all that was announced, or the page was left
  and `aux_overtaken` says so; with none on its way the page shows it all, or the query is stale and will be asked for on return. The rest is data: page by page (`SchoolSettingsTells` to
  `SettingsPageTells`), every hook that changes what a query of its page shows refreshes it, or is
  in `Overlooked`.
- `FormIsTyped`, with `DraftsStaySafe` (`DraftsAreSafe`). `KeepsDraft` and `SendsItsOwn` say what it takes of a form;
  `KeptDraft` and `OwnRequest` that every step of such a form keeps the promise, for any entities and requests.
  The inductive invariant (`DraftIsOwn`) says besides the types that only what the user types is "mine", that only a form
  mounted anew forgets requests, that only a tab that clears takes changes for saved, and that a draft belongs to the
  entity the form is open for unless it is filled only once. That each form of the client is of that kind or named in `Forgetful` or `Misdirected` is data again
  (`FormsAreListed`).
- `ContentIsTyped`, and the composed systems: `MasterDataIsTyped`, `OfficeIsTyped`, `SchoolDayIsTyped`. A behaviour of a composed system
  is one of each of its components, which moves or stands still (`MasterRunsComponents`, `OfficeRunsComponents`,
  `DayRunsComponents`).

Only model-checked: `RunsLeaveSolving`, since liveness under fairness is beyond the prover; and the properties of the runs
that find a violation, which are false.

## Not modelled

Left out of the modelled components: views, suggestions, exports and
soft warnings, which write nothing; the ranking of candidates, which
`assignSubstitute` checks again; notifications and WebSocket events on the server, which are best effort after the
commit (the client's side of them is in `WebCache`); handover notes; scores and soft constraints, which
order plans and exclude none; deletion of a run
under an admin who edits it (its lessons go, the admin's request fails); group derivation rules; the time grid, whose
impact check is a check before a write and looks at period numbers only; withdrawal of consents; CRUD of
homework, exams, grades, rooms and resources on the server, which is one statement per call.

Of the web client: layout and wording, the validation of fields, polling intervals, the first load of a query, the
progress state of the import wizard and the solver page, the Zustand stores.

Not to be modelled: the optimiser's search and its scores (third-party; only what a feasible assignment is), stateless
guards and strategies, audit, dashboard, calendar and health (views and logging), push, seed data, the generated route
tree, the static prototypes, the shared package (types and schemas), docker files.

## Running

    tlc -config solve_pair.cfg MCSolveRun
    tlc -config plan_edit.cfg MCTimetablePlan
    tlc -config subst.cfg MCSubstitution
    tlc -config master_data.cfg MCMasterData
    tlc -config backoffice.cfg MCBackOffice
    tlc -config school_day.cfg MCSchoolDay
    tlc -config lesson_autosave.cfg LessonContent
    tlapm SolveRunProofs.tla
    tlapm SchoolDayProofs.tla

The largest runs, `backoffice`, `school_day` and `subst`, take about two minutes with two workers. Each property of a passing
run has a mutant in `PROJECT.json`: a definition next to the one it mutates (marked `mutant`), with
which TLC finds the property violated.
