# Gradely: a verification of the school's books, rosters and days

Gradely is a school-management server: NestJS handlers over PostgreSQL through
Prisma, one database for many schools. This directory models the parts of it that
keep state for others to rely on -- fees, payments and their review, examinations and
results, who sits where and takes what, registers, timetables, assignments, quizzes,
messages, announcements and notifications -- as TLA+ modules, checks them with TLC on
small instances, and proves with TLAPS, for instances of every size, the safety of the
ledger and that it implements an account, of the review of payments, of installment plans
and their reminders, of examinations and their results, of the roster and of the
timetables.

Paths below are relative to the repository, and `fees/`, `exams/`, `academics/` and the
like stand for `src/fees/` and so on.

## How the program runs, and what is hard about it

Every operation is an `async` handler. A handler reads, decides, and usually writes
in a later `$transaction`; PostgreSQL runs at READ COMMITTED. So two handlers
interleave at every `await`, and only four things keep them apart:

- a row lock (`SELECT ... FOR UPDATE` in `payments.service.ts`, or the implicit lock
  of the conditional `updateMany` that opens a transaction in the exams services);
- a condition repeated inside the write (`updateMany ... WHERE status = ...`, and
  the number of rows it reports);
- a unique index, whose violation (`P2002`) the code reports or retries;
- a foreign key and what it does on delete (`SET NULL`, `CASCADE`).

There are no queues between the components: they call each other directly and share
tables. Timers run in every server instance. Events to the notification listener are
sent after the commit and live in memory. Nothing is undone when a process dies between
two transactions. And most questions that people ask -- who takes this subject, what
does this family owe, who may see this -- are answered by several pieces of code, each
with its own query: they have to agree over every roster, the odd ones included.

Hence two kinds of module. In those about **steps**, a request is an `Ask...` action
(everything up to the last read that decides) and an action that writes (everything
after it); what lies between is held in `call`. Those about **views** move the state
in whole transactions and compare what the screens derive from it.

## Inventory

The components with the state they keep, their operations, what they touch, and what
makes them correct. The last column names the module, or says why there is none.
`PROJECT.json` has the same list with files and with what of each is left out, and under
"hazards" each thing that is hard to test, at its line.

| component | state | operations | meets | correct when | module |
|---|---|---|---|---|---|
| fee ledger: `fees/payments.service.ts`, `fees/challans.service.ts` | `Challan` and its items, `Payment` | record, void, cancel; monthly and installment runs; the pages that show them | each other, through row locks, unique indexes and the arrears a run carries forward | totals are the sums of the receipts, nothing is overpaid, no debt is lost or owed twice, and everybody is shown the same debt | `ChallanLedger`, `FeeAccount`, `FeeViews` |
| fee arithmetic: `fees/fee-calculator.ts` | none | compose a challan, discount, waterfall, split, due dates | called by all of the fees module | exact to the unit | `FeeCalculator` |
| payment submissions: `fees/payment-submissions.service.ts` | `PaymentSubmission` | submit, verify, reject | calls the ledger between two writes of its own | one receipt, at most one payment; no receipt is left behind | `PaymentReview` |
| installment plans: `fees/installment-plans.service.ts`, half of `challans.service.ts` | `FeeInstallmentPlan`, `FeeInstallment`, the pointer of `Challan` | save a plan, bill it, cancel a bill | deletes rows that challans point at | an installment is billed once; a billed schedule stays | `InstallmentPlans` |
| reminders of installments: `fees/installment-reminders.service.ts`, its scheduler | `reminderSentAt` | the daily sweep | rows a save recreates; the notification listener | nobody is told twice | `InstallmentReminders` |
| fee set-up: heads, overrides, discounts, subject fees, accounts (`fees/*.service.ts`) | `FeeHead`, `StudentFeeHeadOverride`, `Discount`, `SubjectFee`, `BankAccount` | create, update, replace, delete | the next run reads them | what is shown is what is billed; parents are told when it changes | `FeeSetup`, `SubjectBilling` |
| fee reports: `fees/fee-reports.service.ts` | none | six reports | the moving ledger, students who change class | the reports contradict neither each other nor the receipts | `FeeViews` |
| examinations: `exams/exams.service.ts`, `exam-status.ts`, `exam-settings.service.ts` | `Examination`, `Exam` | create, edit, submit, review, publish, delete | teachers and administrators on one sheet | what is published is what was checked, and stays | `ExamSheets` |
| results: `exams/exam-results.service.ts`, `result-calculator.ts`, `exam-access.service.ts` | `ExamResult`, `ExaminationResult`, `resultStatus` | save marks, finalize, reopen; cards, lists, ranks | enrolments and subject choices | final totals are the sums of valid marks; card, list and ranks agree | `ExamResults`, `ResultCards` |
| enrolments: `academics/enrollments/` | `Enrollment` | enrol one or many, move, close, remove | the picks that depend on a place | one place per student and session; a pick has a place | `Roster` |
| promotions and sections: `academics/promotions/`, `academics/sections/` | `Enrollment`, teachers and timetable of a section | plan and commit the promotion of a session | enrolments that move meanwhile | everybody moves once, no student is left without teachers | `Roster` |
| subject selection: `academics/student-subjects/`, `academics/section-subjects/` | `StudentSubject`, `SectionSubject.isElective` | open a subject, choose, drop | marks and attendance that hold a choice | every roster says the same of who takes what | `Roster`, `SubjectTakers` |
| attendance: `attendance/` | `Attendance` | the sheet, the save, the figures | the roster of a past date | a register lists who takes it and who is marked in it, a save accepts exactly the former; figures count the same marks | `Attendance` |
| timetable: `academics/timetable/` | `Timetable`, `TimetablePeriod`, `TimetableEntry` | set up, edit, publish one or a batch, archive | teachers and rooms of other sections | nobody is in two rooms at once, a room is shared only where the code does not look; edits respect what is published | `Timetable`, `TimetableTime` |
| users, teachers, schools: `users/`, `teachers/`, `schools/` | `User`, profiles, `ParentStudent` | create with a guardian, link, unlink, move, delete; number | two desks on one family or one counter | a pupil has a guardian; a number is given once and there is always a next | `Families`, `Numbering` |
| quizzes: `quizzes/` | `Quiz`, `Question`, `QuizAttempt` | edit, publish, start, submit | authors who overlap, two tabs of a student | a published quiz can be answered; a grade stands | `Quizzes` |
| assignments: `assignments/` | `Assignment`, `AssignmentSubmission`, stored files | create, publish, close, upload in two steps, hand in, mark | a second upload beside the marking | a file named is there, a mark is for the file it was given for; who is told may open | `Assignments` |
| messaging: `messaging/` | `MessageThread`, `ThreadParticipant`, `Message`, deletions | open, send, edit, read, clear, hide, leave, join | two tabs of one user; two requests, of one user or two, that open one thread | nothing is missed; a student speaks in turn; offered means allowed | `Messaging`, `Correspondents` |
| announcements: `announcements/` | `Announcement`, `AnnouncementRead` | create, edit, publish by the cron, read, dismiss | ticks of several instances and edits | listed for and opened by whom its targets name; claimed once each time it is scheduled | `Announcements` |
| notifications: `notifications/` | `Notification`, settings | deliver in chunks, read, dismiss; reminders of assignments | accounts deleted meanwhile; crashes | nobody is told twice; whose account stands is told | `Notifications` |
| statistics cache: `common/services/cache.service.ts` | one entry per key | compute, store, delete, expire | a writer's commit | stale for no longer than the TTL | `StatsCache` |
| authentication: `auth/` | token hash, reset code | login, refresh, logout, reset | -- | -- | not modelled: single-row writes of one account |
| students, subjects, classes, years: `academics/` | a row each | create, update, delete | -- | unique indexes | not modelled: single-row updates |
| chatbot: `chatbot/` | a log | text in, text out | a language model | -- | not modelled |
| search, dashboard, audit, settings | -- | reads; writes that may fail silently | the cache | -- | not modelled, but for the cache |
| scripts and seeds | -- | run by hand | -- | -- | not modelled |

## The modules

| module | what it is | extends or instantiates |
|---|---|---|
| `Money` | sums and the settlement status | |
| `FeeAccount` | what the ledger promises: billing, receiving, returning, writing off, one at a time | `Money` |
| `ChallanLedger` | the ledger as the code does it, lock by lock, with the invariants that say why it is safe | `Money`; refines `FeeAccount` |
| `PaymentReview` | the review, on top of the account | `Money`, `INSTANCE FeeAccount` |
| `InstallmentPlans` | plans, their rows, and the challans that point at them | `Money` |
| `InstallmentReminders` | the sweep | |
| `FeeCalculator` | the arithmetic, as operators | `Money` |
| `FeeSetup` | heads, overrides, discounts, prices, accounts under two administrators | |
| `SubjectBilling` | what a student's subjects add to a bill | `SubjectTakers` |
| `FeeViews` | every page and report over one ledger | `Money` |
| `ExamSheets` | an examination up to publication | |
| `ExamResults` | its results, save by save | `Money` |
| `ResultCards` | what is shown of a term's results | `SubjectTakers` |
| `SubjectTakers` | who takes a subject: pure functions of places, picks and offerings | |
| `Roster` | places and picks under two administrators, promotions included | `SubjectTakers` |
| `Attendance` | the register of a subject | `SubjectTakers`, `Money` |
| `Quizzes`, `Assignments` | one quiz, one assignment, over a roster | `SubjectTakers` |
| `TimetableTime`, `Timetable` | clock arithmetic; the grids of a session | the second the first |
| `Families`, `Numbering` | guardians and pupils; numbers handed out | |
| `Messaging`, `Correspondents` | one conversation; who may hold one | |
| `Announcements`, `Notifications` | one announcement; the bell | |
| `StatsCache` | one key of the cache | |
| `ChallanLedgerProofs`, `PaymentReviewProofs`, `FeeOfficeProofs`, `ExamSheetsProofs`, `ExamResultsProofs`, `TimetableProofs`, `SchoolYearProofs`, `SchoolDayProofs` | theorems | the last two extend `MCSchoolYear` and `MCSchoolDay`, `FeeOfficeProofs` and `PaymentReviewProofs` extend `MCFeeOffice` and `MCPayments`, the others the module they are about |
| `MC...` | instances for TLC | |

`MCPayments` (review, views, cache), `MCFeeOffice` (plans, arithmetic, runs, set-up, subjects),
`MCSchoolYear` (roster, registers, cards, families, numbers, hours) and `MCSchoolDay`
(reminders, quiz, assignment, messages, writers, announcement, bell) each check several modules that share no state in one run. Their variable
`part` is chosen in the initial state and never changes; where several runs share a module,
the `.cfg` says which parts (`Parts`). Each of them extends one module,
about which there are theorems, so that TLC checks the definitions the theorems name: its
variables keep their initial values in the other parts. The other modules are named
instances, and their variables hold `Off` outside their own part (in `MCPayments`, their
initial values). A behaviour is thus a behaviour of one part alone, the
state count is the sum and not the product, and a property of a part holds trivially
outside it. Every module is used unchanged: `part` and the bounds of an instance are
conjuncts beside its actions. The sizes of the parts -- students, tabs, rosters, sections,
who holds which role -- are CONSTANTS of these MC modules too, to which the `.cfg` gives the
values defined there (`MCOwner`, `MCWorkRoster`, ...): what is proved about `MCSchoolDay`,
`MCSchoolYear`, `MCPayments` and `MCFeeOffice` is proved for every size. Where such an
instance also has bounds beside its actions, they only take steps away, and the theorem about
the part alone (`HeadsAreShownAndHeard`, `SubjectsArePaidFor`, ...) is without them.

Sums in what is proved are written as the cardinality of a set of units (`Money!Total`):
a sum over a set of any size can then be reasoned about with the library's theorems on
finite sets, which a fold cannot.

### ChallanLedger

One variable per column that matters (`status`, `netAmount`, `paidAmount`,
`challanNo`, `carriedTo` for the number inside `cancelReason`, `charges` for the
challan's own lines), the `Payment` table, the row locks, and what each request and
each run holds in its local variables. A challan is its student and its period: the
unique index on the period covers cancelled rows too and no code deletes one.

| action | code |
|---|---|
| `CallRecord`, `CallVoid`, `CallCancel` | the unlocked reads at the top of `record`, `void`, `cancelChallan` |
| `LockChallan` | `lockChallan`: `FOR UPDATE`, and the row as it is then |
| `Decide`, `Refuse` | the checks under the lock; an exception rolls back |
| `CommitRecord`, `CommitVoid`, `CommitCancel` | `resettle` and commit; a cancellation gives back what the challan carried |
| `FailRequest` | the process or the connection dies: rollback |
| `BuildPlan`, `BuildInstallmentBatch`, `NothingToBill` | the reads of a run, its roster, its arrears |
| `ReadHighestNo`, `CountChallans` | how a monthly and an installment run number |
| `CommitRun` | one transaction: all challans, all arrears cancelled, or nothing |
| `LoseRace`, `Deadlock`, `FailRun` | `P2002`, `StaleArrearsError`, `P2034`, anything else; `StartOver` counts the attempts |

Three abstractions. An installment batch bills one period for all its students, where
the code takes each installment's own month. The reads of a plan are one step: they
are unlocked and the commit checks again whatever it relies on (periods and numbers by
index, arrears by count). And an administrator who cancels a challan by hand never
types exactly `Carried forward to <number>` as the reason, which the code would take
for a link (the comment at `payments.service.ts:234` accepts this).

### PaymentReview

`verify` is four commits: the check of the installment, the claim (`updateMany` from
PENDING_VERIFICATION), the recording of the payment by the ledger, the link. Between
any two the process may die, the ledger may move, and another administrator may verify
or reject. The ledger below is `FeeAccount`, whose steps are atomic because
`ChallanLedger` is proved to implement it. The set `Faults` says what may go wrong in
a run: a crash, a failed recording, a failed release, and a commit whose answer is
lost. A receipt goes to the challan that was issued for its installment, while that one is
unsettled (`IssuedFor`), and otherwise to the student's unsettled challan that comes first
by due date and number (`DueOrder`); how challans and installments come to be linked is in
`InstallmentPlans`.

### InstallmentPlans

One student, one year. The rows of the plan have identities, because that is what goes
wrong with them: every save, changed or not, deletes all rows and creates new ones, and
the pointer of a challan is then set to null. Saving reads twice before its transaction
(`ReadPlan`, `CheckBilled`, `SavePlan`); billing by installment and by month read first
and write later. `overlapped` is a history variable: whether two calls have ever been
in flight at once.

### InstallmentReminders

`sweep` in its five steps (`ReadDue`, `Claim`, `ReadClaimed`, `Emit`, and `Crash` in
between) in several instances at once, with a clock, plan saves that replace the rows,
and payments that settle them.

### FeeCalculator

Each function of `fee-calculator.ts` as an operator. Rounding, clamping and the
calendar are modelled by what they do (a year of 365 days); labels are not.

### FeeSetup and SubjectBilling

`FeeSetup` holds the heads of a school, one student's own heads, its discounts, its
prices by subject code and its bank accounts. `fee-heads`, `student-fee-heads`,
`discounts`, `subject-fees` and `bank-accounts.service.ts`: a write that reads first is an
`Ask...` action and a later one, and a new default account demotes the others under their
locks; two administrators cross. `Billed` is what
`buildPlan` makes of these rows, `Shown` what the page of the student makes of them.
`SubjectBilling` is `subjectCharges` and the part of `buildPlan` that decides whether
there is a bill at all, over every small roster of a child.

### FeeViews

The list, the print run, coverage, badges and the family's pages (`challans.service.ts`)
and six reports (`fee-reports.service.ts`) as operators on one ledger, which moves in
whole transactions (`Issue`, `SetPaid`, `CancelBill`, `Move`, `Relink`, `NextDay`). A challan
that is cancelled gives back the months it carried, which are owed again. A bill
keeps the section and class that were stamped on it, while students move.

### ExamSheets

A session reads an examination, decides (`ReadDetails`, `ReadSheet`,
`ReadTransition`), and commits later under `guardStatus`, which compares only the
status. A slot stands for a day, a time and a place, so two papers in one slot clash
for the students, the room or the invigilator. The papers written by one save get one
slot. A paper dropped and added again counts as the same row. `terms` says whether the
session has terms at all: only then does a teacher's submission need one, and terms are
created and deleted beside it. Not modelled: a change of an examination's class or section
(`exams.service.ts:378`, allowed while it has no papers), exam paper files, and grading
schemes.

### ExamResults

One published examination; its papers are fixed (`ExamSheets!ReviewBinds`).
`saveMarks` reads the paper and checks the marks against the total it read
(`ReadPaper`), then locks the examination row, checks roster, papers and status again
and writes (`SaveMarks`). `finalize` and `reopen` hold the same row for all they do.
`Enrol` moves students and subject choices at any time. Passing marks travel with the
total; the entries of one save carry one value; remarks, grades and positions are left
to `ResultCards`.

### ResultCards

What `exam-results.service.ts` derives for reading, each function on its own: the sheet
of an examination, one student's card, the cards of a section with their places, the list
of finalized results a family sees, the register of one paper, and who may open a report
card. Marks, finalizing and moves of the roster are whole steps here; `ExamResults` has
them in detail. One session, one term, one grading scheme.

### SubjectTakers and Roster

`SubjectTakers` translates `subject-takers.ts` and its siblings: who takes an offering,
given placements (`Enrollment`), picks (`StudentSubject`) and the offerings open to
selection. It holds no state and is what `Roster`, `Attendance`, `ResultCards`,
`Quizzes`, `Assignments` and `SubjectBilling` are built on.

`Roster` has the steps: `enrol` one or many, `move`, `close`, `remove` with the picks they
drop or carry, the choice of subjects in two services, opening a subject to selection, and
the promotion. The plan of a promotion (`promotion-planner.ts`) is drawn from one reading
and committed in one transaction later; what is then in the way (`P2002`) rolls back all
of it. `staffed` stands for a section's teachers and timetable, which the commit resets
for the sections it empties. `RolledBack` may end any request. `overlapped` remembers that
two were in flight at once: nothing is locked between what a request reads and what it writes,
so two that cross can orphan a pick or pick a subject twice (see below). `PicksBacked`,
`PickedOnce` and most step properties therefore speak of histories without overlap; that
rosters agree, that the dialog lists whom the plan moves (`PreviewHolds`), and
`PromotedStep`, which only a unique index guards, of all.

### Attendance

The sheet (`Sheet`) and the check of a save (`Accepted`) each derive a session and a list
of students from the placements and the date; a save checks its entries and writes later.
The sheet adds whoever is marked already, and the save does not: a student who was marked
and moved since is listed, and a save that names them is refused. `RegisterIsMarkable` says
of both lists who is on them, by a definition of its own (`Takes`).
`TeacherStats`, `StudentStats` and `SchoolSummary` count the rows.

### Quizzes and Assignments

`Quizzes`: questions are added, edited (their text, their points) and deleted by any number
of authors, one in the instance; a save of the quiz may change or clear its subject;
`publish` reads the count of questions before its write; a student's attempt is started, and submitted from
either of two tabs, and scored against what is stored at that moment. `coauthored`
remembers that two authors' requests overlapped.

`Assignments`: a file goes into storage before the row that names it (`Upload`, then
`Open` or `Submit`, or `Fail`); the marking reads before it writes. `Shown`, `Opens`,
`ResultRead`, `Recipients` are the audience rules. `crossed` remembers a mark in flight
beside a student's request.

### Timetable and TimetableTime

`TimetableTime` is `timetable-time.ts`: the set of periods a grid may have, generated
rows, the end of a slot, the merge of the sections a student attends into one grid.
`Timetable` has the operations of `timetable.service.ts`: set-up, replacing, adding,
changing and deleting periods, templates, entries one by one and in a batch, publication
of one and of a batch, archive and deletion, and another room for a section
(`SetRoom`, `sections.service.ts:236`). A class keeps the room that is stored, which may be
none: it is then held in its section's (`EffectiveRoom`). What a request checks and what it
stores are separate, since for a blank room they differ (`AskCreateEntry`). A batch may retime
several periods at once, as many as `MaxRetimed`. `RoomsStep` names the three
doors by which two classes may come to share a room. `EditorAgrees` compares what the editor
offers (`TeacherOptions`, `TeacherBusy`) with what the save accepts, `ViewsAgree` the grids
of classes, teachers and pupils with the entries.

### Families and Numbering

`Families`: a pupil is created with exactly one guardian, links come and go, an account
may be moved to another school, accounts without records are deleted; every request
checks first. `Numbering`: a form that leaves its number empty gets the next one, and
tries again when another form took it; somebody may type any number by hand.

### Messaging and Correspondents

`Messaging` is one conversation: messages carry a time from between the request and the
commit, while other readers mark the thread read, clear or hide it, and leave or rejoin.
`Correspondents` is `permission-matrix.ts` with `assertCanReach`, `listRecipients`, the
roster of a section, groups and class threads, and the creation of a direct thread by
requests that may overlap, whether two people make them or one person in two tabs.

### Announcements and Notifications

`Announcements`: one announcement, its targets, the moment it is published,
ticks of the cron that find it due and claim it, and edits, which may overlap too, that read
the flag and write it back. Nobody is sent anything: `emitAnnouncementNotification`
is called by nobody, so that and `resolveRecipients`, which it calls, are not modelled. The list and its count (`Visible`) and the door of a single
announcement (`CanView`) start from the reader and their sections; `AudienceAgrees` compares
both with whom each target names. `Notifications`: a job reads the settings of its recipients and writes
their rows in chunks, from memory; accounts go and the process may crash between any two.

### StatsCache

One key. `wrap` computes on a miss and stores later; a writer commits and deletes the key
afterwards; each call of the backend may fail; the entry expires.

## What the runs check and show

Every run is one question, or the questions of the parts it is made of. "States" are
distinct states; times depend on the machine, none needs more than about four minutes
with two workers.

| run | instance | states | question and answer |
|---|---|---|---|
| `ledger` | one student, three months, two requests, two payments, one monthly run, two attempts | 558 000 | Do receipts, statuses and carried-forward debt stay consistent while requests and a run interleave, fail and retry? Yes, by the inductive invariant `DebtInvariant` (which contains `LedgerInvariant`) and by `ArrearsFollowed` (`CarriedDebtHasBearer` and `DebtConserved`), `ReceiptsAppendOnly`, `ReopenedOnlyWithBearer`; and every step is a step of `FeeAccount` or none (`ImplementsAccount`). |
| `ledger_live` | one student, two months, charges 0 and 1, receipts of 1 and 2 | 45 000 | Does every request get its answer and every run return? Yes. A bill for nothing is born PAID and takes no receipt. |
| `payments` | views: two students, two months, two classes; review: two receipts, two administrators, crashes, failed recordings and releases | 598 000 | One payment per receipt, only from a receipt that stands verified (`SubmissionsPaidOnce`), and a verdict is final (`VerdictIsFinal`)? Yes. Do reports, coverage and receipts agree, and do family, office and reports read one debt (`FiguresAgree`)? Yes. |
| `progress` | review with a plan of two installments, failures and lost answers; a cache with two readers and two writers | 35 000 | Is every claim settled, by a payment or by a return to the queue (`EveryClaimSettles`), with somebody at work on it until then (`NoneStranded`)? Does an old figure leave the cache (`StaleEnds`), and is only one that crossed a write, or whose deletion was lost, ever old (`StaleOnlyAcrossWrite`)? Yes. |
| `fee_office` | five parts: plans, arithmetic, runs, set-up, subjects | 925 000 | Is an installment billed once, does a bill agree with the row it points at, and is what a run can bill offered to it (`InstallmentsBilledOnce`)? Are numbers without gaps and debts kept by two runs of different kinds (`RunsNumberAndConserve`)? Does each function of the calculator agree with its reference (`ArithmeticExact`)? Is what is shown what is billed, and is every subject taught paid for once (`ChargesAsShown`)? Yes. Does a billed schedule keep its shape, is nobody on a plan billed by month, do parents hear of exactly the saves that change their bill (`SavesKeepFaith`)? Yes, as long as no two saves overlap. |
| `review_installment` | two receipts for one installment, two months, the second bill issued for the first installment | counterexample | Is a receipt credited only while its installment owes that much? No, see below. |
| `installment_relinked` | three months, three schedules, one administrator | counterexample | Does an issued challan keep the installment it bills? No, see below. |
| `exam_sheets` | two examinations, one subject, one slot, two sessions of a teacher, one administrator, two calls in flight, terms created and deleted | 640 000 | Does what is published have a slot and an invigilator for every paper and no clash (`PublishedWhole`)? Does it stay, and is what is under review out of a teacher's hands (`ReviewBinds`)? Yes. |
| `exam_results` | two students, two papers, totals 1 and 2, two saves in flight | 1 774 000 | Are final totals the sums of valid marks, whatever was in flight (`FinalRestsOnMarks`)? Do totals (`NeverRescaled`) and marks (`MarksStand`) stand? Yes. |
| `timetable` | two sections, two teachers, a room that classes name, a section has of its own or both, two days, up to two periods, one administrator | 520 000 | Does every class sit in a period of its grid, at its times, with nobody teaching or taught twice at once, and do the editor and the views agree with the server (`ClassesStand`)? Does a live grid keep its periods, and do two classes come to share a room only by a batch, a blank room or another room for a section (`EditsHoldBack`)? Yes. |
| `school_year` | six parts: roster, registers, cards, families, numbers, hours | 224 000 | Does a pick have a place and one section (`PicksHeld`)? Do the register, the sheet, the grid, the student's list and the notices name the same students, and the promotion dialog those who move (`RostersOfOneMind`)? Are recorded subjects kept, changes told, promotions complete, and sections with students left their teachers (`PlacesKept`)? Does a register list exactly who takes it and who is marked in it, does a save accept exactly the former, and are three figures one (`RegistersAgree`)? Do a card, a section's cards, ranks, registers and what may be opened agree (`CardsOfOneMind`)? Does a pupil keep a guardian in its school (`FamiliesWhole`)? Is a form refused only when others took every number it tried (`RefusedOnlyByRivals`)? Does a generated day fit, and a student's week show every class (`HoursStand`)? Yes, where the properties ask: see below. |
| `school_day` | seven parts: the reminders of installments, a quiz, an assignment, a thread, the right to write, an announcement, the bell | 1 349 000 | Is a row announced under one stamp, and by no sweep twice (`RemindedUnderOneStamp`)? Do grades and marks stand (`WorkStands`)? Can a published quiz be answered by whom it is listed for (`QuizOpen`)? May whoever is told of an assignment open it, is an announcement listed for and opened by exactly those its targets name, does the picker offer whom the server allows, and has a pair one thread unless two requests for it overlapped (`AudiencesAgree`)? Is an announcement claimed once each time it is scheduled, does the bell tell nobody twice, and everybody who stands (`ToldOnce`)? Is no message missed and does a student speak in turn (`ThreadsKept`)? Yes, where the properties ask. |

### Bounds, and why they are enough

The bounds of an instance are named in its MC module, under "Bounds".

- Ledger: a chain of three months is the shortest in which a bill carries another that
  carries a third, and two requests with one run are the smallest set in which a lock
  is waited for while arrears are held. Amounts 1 and charge 1 make every receipt
  matter; part payments and full scholarships are in `ledger_live`. The proofs cover
  all sizes, so the bounds matter for liveness only.
- `MaxAttempts` is 2 instead of 3: one retry and one surrender.
- Runs (in `fee_office`): two students and two runs of either kind, the smallest case in
  which one counts rows while the other reads the highest number.
- Review: two receipts and two administrators are all the actors a double
  verification or a mix-up of links needs.
- Views: two students, two months, part payments, a change of class, a guardian linked
  later; each report with every kind of filter alone and with some together.
- Plans: two schedules of equal length that differ, and one of another length; the row
  limit allows a save after a save of a billed plan.
- Reminders: two clock readings a day, so that two sweeps of one day may or may not
  share their stamp.
- Set-up: two heads and two administrators, one kind of row at a time, since the kinds
  meet only in the bill.
- Examinations: a clash needs two examinations. `InFlight = 2` bounds the calls that
  have been read and not committed; a race on one examination needs one that is read
  and one that overtakes it.
- Results: a total that is lowered while a save checked against the old one is in
  flight needs two totals and two savers; a blank entry and a score are the two ways a
  mark can be wrong.
- Roster: one student, two sections of a class and one of the next, two sessions, two
  requests. Requests overlap while nobody chooses subjects, none is made after two have
  overlapped, only a promotion leads into the second session, and no form is filled in
  after it beside a mark. What is said of rosters of several students (registers,
  cards, subject bills, audiences) is checked over every small roster, with two students.
- Review of an installment (`review_installment`): two months, so that the challan issued for
  the installment and the one that falls due first can differ.
- Timetable: two sections sharing a teacher, a room that the classes of the second name and
  that is, at first, the first section's own; two days, two periods in the first, one period
  retimed by a batch. Each of the three doors to a shared room occurs. One administrator: what
  crosses is in the definitions and in the list below.
- A school day: one student with two tabs, one author of a quiz, whose patches raise the points
  of one question to 2; two ticks and two edits of an announcement, the second edit beside the
  first, before anybody has read it; two requests for direct threads, which may be of one user;
  the limits in `MCSchoolDay` keep a part from multiplying questions that do not
  meet, such as rosters that change while work is in flight, a teacher who hides a thread,
  or picks of a subject that everybody takes outside the sibling section, where alone such
  picks stay behind. No theorem has these limits.

Symmetry is used only in runs without liveness properties. Five runs disable the deadlock
check, those with parts: some of their parts answer one question and stop (arithmetic,
hours, subjects), others reach their bounds (the last day, the last number, an archived
year). The four that model nothing but a running component keep it.

### Fairness

`ledger_live`: a handler that has started goes on, as awaited code does. Taking the row
lock and finishing under it are strongly fair: PostgreSQL serves the waiters of a row in
order, and whoever holds one commits, refuses or rolls back. A run's commit attempt is
strongly fair because what disables it -- a lock on one of its arrears -- is released
again and again. No request and no run has to start, so nothing depends on a user.

`progress`: each step of a verification that has begun is weakly fair, and the process
does not crash; with crashes a claim can be stranded, see below. Time passes, which is
the fairness of `Expire`; what a reader has computed it stores or gives up, and what a
writer has committed it goes on to delete, whether or not the backend hears of it.

## What the code does that it says it does not

The first two have a run whose property quotes the statement. The others were met while
modelling; where a property would fail for one of them, the property says what it leaves
out, and the model keeps the behaviour.

1. `installment_relinked`. `installment-plans.service.ts:451` deletes and recreates the
   rows on every save, also of an unchanged plan. `schema.prisma:1450` says of the
   relation "Restrict: once a row has been billed, the schedule can no longer be
   re-shaped underneath it", but it is `onDelete: SetNull`, so saving unlinks every
   challan that was issued. It stays billed once only because the month is taken.
2. `review_installment`. What an installment still owes is read before the claim
   (`payment-submissions.service.ts:202`), so two verifications of two receipts pass
   it together and both credit, which the comment at line 628 says it prevents. The
   total stays below the challan's balance, so no challan is overpaid.
3. The catch block of `verify` (line 241) takes every error for a payment that was not
   recorded. If the transaction committed and its answer was lost, the receipt returns
   to the queue and can be credited again, against `schema.prisma:1652`. With the fault
   "lost ack" `OnePaymentPerSubmission` fails in the instance of `payments`; without it,
   it holds.
4. A crash between the claim and the recording leaves a VERIFIED submission without a
   payment, and nothing looks for those (line 242 says this is avoided; it is, for
   exceptions).
5. When two calls overlap, a plan's shape can change after it was billed
   (`installment-plans.service.ts:403`, read before the transaction) and a monthly run
   can bill a student whose plan was switched on after its roster was read
   (`challans.service.ts:667`). These are why `SavesKeepFaith` speaks of histories in
   which no two calls have overlapped.
6. A refused schedule advises "Cancel the challan first"
   (`installment-plans.service.ts:413`), but the query counts cancelled challans too,
   so the schedule stays refused.
7. Two sweeps that read the same millisecond share a stamp and both send
   (`installment-reminders.service.ts:151`); a saved plan has new rows, and its families
   are told again.
8. Two sheets published in the same instant can both take one room; the comment at
   `exams.service.ts:1134` says so. `PublishedWhole` is checked with one administrator.
9. Deleting a term takes it from published examinations too
   (`exam-settings.service.ts:177`), which were published because they had one.
10. A total lowered between the read and the lock of another save lets a score above
    the total into the sheet (`exam-results.service.ts:298`). It is never finalized.
11. "A student must always keep at least one guardian" (`users.service.ts:1450`): the count
    is read before the deletion (line 1483), so two unlinks that cross leave none; and
    deleting the guardian's account (`remove`, line 1733) does not ask.
12. The next admission number follows the last one as text (`users.service.ts:542`):
    after `...9999`, or after a longer one that was typed, every try asks for a number that
    is taken. Roll numbers and staff codes take the greatest number and do not get stuck.
13. "The upsert below would overwrite the graded file" (`assignments.service.ts:630`): the
    status is read in a statement of its own, so an upload that crossed the marking still
    overwrites it.
14. "A subject is taken from one section only" (`student-subjects.service.ts:609`), and a
    pick goes with the last placement of its class (`enrollments.service.ts:792`): both are
    read without a lock. Two choices that cross may pick one subject from two sections,
    two removals that cross leave picks of a class nobody sits in.
15. Before it takes the teachers from an emptied section, a promotion looks for students
    who are left (`promotions.service.ts:364`), again without a lock: one enrolled
    meanwhile loses their teachers.
16. The promotion dialog flags who is placed in the target session already. Promoting
    within one session, everybody is flagged and the plan still moves them; `PreviewHolds`
    speaks of two different sessions.
17. Saving one entry asks whether its room is free; three doors lead around the question. A
    published batch replaces a section's entries without asking
    (`timetable.service.ts:1763`). A new entry with a blank room is checked as one without a
    room (`createEntry`, line 1054), but stored as null (line 1082), which stands for the
    section's room ("override; falls back to Section.room on read", `schema.prisma:1797`).
    And another room for a section (`sections.service.ts:236`) moves all its classes that name
    none, unchecked. `RoomsStep` names these three and excludes every other. Two saves that
    cross can put one teacher in two rooms; and a publication that was read before an archive
    commits publishes what was archived.
18. A published timetable is announced to whoever is placed in the section
    (`timetable.service.ts:2566`), in any session.
19. A sheet of marks counts a closed placement in the class as a place
    (`exam-access.service.ts:308`), which the register does not; `SheetAgrees` excuses the
    students who hold one. A subject taken up after results are final shows as a missing
    paper in the register of that paper.
20. An examination of a sibling section is listed to whoever picked any subject there
    (`exams.service.ts:1431`); opening it is refused when none of its papers is theirs
    (`exam-access.service.ts:209`).
21. A student may open an assignment of an elective they do not take, as long as they sit
    in its section, though it is not listed for them; and guardians may read the results of
    an assignment that was taken back to draft. The rate of completion counts a section's
    own picks (`assignments.service.ts`, `computeSchoolStats`), while a subject that turns
    compulsory keeps the picks of its siblings (`section-subjects.service.ts:361`); those
    students are told and may hand in, but are not counted. `AudienceAgrees` asks for the
    count only where no such pick is left.
22. The super-admin may open the roster of a section (`messaging.service.ts:808`), but
    every group made of it is refused.
23. "So 'exactly one default' holds" (`bank-accounts.service.ts:33`): two creations that
    cross demote each other's accounts before either sees the other, and both stay default
    (`schema.prisma:1359` expects one).
24. Two identical saves of a student's overrides (`student-fee-heads.service.ts:112`) both
    compare with what was there before, and the parents are told twice.
25. A chunk of notifications that names a deleted account fails as a whole, and its
    delivery is dropped without another try (`notifications.service.ts:61`).
26. An edit of an announcement that read its flag before the cron claimed it writes the
    flag back (`announcements.service.ts:287`), and the next tick claims it once more. The
    flag is there so that "a second tick can't double-notify", but nobody is notified by the
    cron (line 367) or by a publication at once (line 126): `emitAnnouncementNotification`
    and the recipients it would resolve are unwired.
27. The options of an installment run count every unbilled row of a plan
    (`challans.service.ts:1621`), also those that a run will skip.
28. A register lists everybody who is marked in it already (`rosterFor`,
    `attendance.service.ts:438`), a save accepts only those who take the subject now and
    otherwise refuses the whole batch with "Not enrolled in this section"
    (`attendance.service.ts:168`). After a marked student moves, saving the register as it was
    opened fails until that student is left out.
29. A direct thread is looked for before it is created (`messaging.service.ts:247`), with
    neither a lock nor a unique key. Two requests that overlap, of two users or of two tabs of
    one, make two threads; `OneThreadPerPair` excuses the pairs for which that happened.
30. A message is stamped before its transaction commits (`messaging.service.ts:1233`). A reader
    who marks the thread read between the two has read up to a time later than the message's,
    and it never counts as unread. `NothingMissed` holds until requests have raced so.
31. Between the count of a quiz's questions (`quizzes.service.ts:544`) and its publication
    another author may delete the last one, and an empty quiz is published; and an edit that
    was read before the publication may write under an attempt. The properties of `Quizzes` excuse histories in
    which two authors' requests overlapped (`coauthored`).

## What is proved

Eight modules hold theorems, each about every value of the constants: any number of
students, months, requests, runs, reviewers, sweeps, sections, subjects, days and periods,
and any plan, schedule, date sheet or grid. Assumptions are those on the constants, and TLC evaluates them in
the runs of those modules: `LedgerAssumption` and `ReviewAssumption` (finitely many
students and payments, natural charges, positive amounts), `PlanAssumption` (schedules as
the form validates them: positive amounts, months that ascend), `ReminderAssumption`
(finitely many sweeps), `SheetAssumption`, `ResultAssumption` and `EntryAssumption`
(finitely many papers, positive totals, marks that are marks), `StructureAssumption` (a
section has a class, an offering has a section and a subject, and a section offers a subject
once), `RosterAssumption` (finitely many students; the two row markers are no rows) and
`TimetableAssumption` (finitely many rows; a grid that is offered has distinct numbers and
periods that run forwards, which is what `validatePeriodSet` accepts and
`generatePeriodSlots` produces; the marker of a free row is no row, and no room is not the
wish for the section's room). The smaller parts add
that a tab belongs to one student and a teacher is no tab (`WorkAssumption`,
`QuizAssumption`, `MessagingAssumption`), that a roster is finite and made of placements and
picks, with one open place a student and session where that matters (the partial unique
index; `RosterAssumption` of `Assignments`), that a school's people have one role and, but for
the super-admin, one school (`SchoolAssumption`, `PeopleAssumption`, which also says that
the marker of no announcement and no edit is neither), that a pupil is no
guardian (`FamilyAssumption`), that students, offerings, dates and periods of a register are
finitely many (`AttendanceAssumption`), that reports are asked with sets of classes, sections
and months and a window of days (`ViewsAssumption`), and that a school has finitely many fee heads and the marker of
no row is neither an amount nor an administrator (`SetupAssumption`).
What else a theorem supposes -- a fault that does not occur, one administrator -- stands in
its statement and is named below.

**The ledger** (`ChallanLedgerProofs`). None of the properties is inductive by itself:
that two receipts do not overpay depends on what the second transaction has read, and
that on who holds the lock. `LedgerInvariant` says it all at once: rows and receipts
agree (`BooksInOrder` and the four properties on rows), a call is about an issued challan
and no two calls write one payment (`CallsInOrder`), a transaction past its lock is the
holder and the only one (`LocksInOrder`), what it read is still the row and what it
decided still stands (`ReadsStand`), and a run carries only earlier challans of students
it bills (`JobsInOrder`). One lemma per action shows that it is kept. The debt needs four
things more, `DebtInvariant`: a plan that will be written bills somebody for a charge and
for what its carried challans asked (`PlansInOrder`), numbers are given without a gap and a link names the bill that was
issued (`NumbersInOrder`, `CarriedDebtHasBearer`), and a bill asks for its own charges and
exactly what it carried (`BillsAddUp`), of which `DebtConserved` is the sum.

The refinement then follows step by step under `ImplementsAccount`'s mapping: a commit of
a request is a receipt, a return or a write-off of `FeeAccount`, a commit of a run is its
`Issue`, and everything else -- reads, locks, refusals, retries -- changes nothing that the
account sees.

| theorem | states |
|---|---|
| `LedgerIsInvariant`, `DebtIsInvariant` | `[]LedgerInvariant`, `[]DebtInvariant` |
| `TypeCorrect` | `[]TypeOK` |
| `PaidIsAlwaysTheReceipts` | `[]PaidIsReceiptSum` |
| `NeverOverpays` | `[]NeverOverpaid` |
| `NoMoneyIsStranded` | `[]CancelledHasNoMoney` |
| `StatusIsAlwaysImplied` | `[]StatusMatchesLedger` |
| `ReceiptsStay` | `ReceiptsAppendOnly` |
| `ReopeningNeedsBearer` | `ReopenedOnlyWithBearer` |
| `ArrearsAreFollowed` | `[]ArrearsFollowed` |
| `NumbersNeverSkip` | `[]NumbersContiguous` |
| `LedgerImplementsAccount` | `ImplementsAccount` |

The sums rest on lemmas at the head of the module: a total of naturals is a natural, splits over disjoint
sets, grows with the set, and `ResolvedStatus`, that the status is PAID exactly when
nothing is owed.

**The review of payments** (`PaymentReviewProofs`). `ClaimsInOrder` is inductive whatever
fails: a submission has one holder at a time, and what was recorded for it or linked to it
is the money it claimed. On it rest three results, each with the faults it cannot bear as a
hypothesis. `ReceiptsArePaidOnce` and `VerdictsAreFinal` exclude lost answers ("lost ack"):
only then does a holder always know whether it has paid, which is `ReviewInvariant`'s last
conjunct. `NobodyIsStranded` excludes crashes and failed releases, and bears lost answers.
`ReviewKeepsAccount` shows, with no hypothesis on faults, that reviewers move money only as
`FeeAccount` allows; with `LedgerImplementsAccount` the two halves of the code meet in one
account.

**Installment plans** (`FeeOfficeProofs`). A row is known by its position, since a
save gives it a new identity. `PlanInvariant` says that identities are never given twice
(`RowsNumbered`), that a bill that points at a row bills it (`LinkedRowAgrees`), and,
until two calls overlap (`Undisturbed`), that what a call has read is still so when it
writes (`StillSo`). `InstallmentsAreBilledOnce` and `BilledPlansStand` follow; the second is
about steps: a billed schedule keeps its shape, and nobody on a plan is billed by month.

**The set-up of fees and the subjects of a bill** (`FeeOfficeProofs`). That a save is heard
of exactly when it changes the bill compares two computations: `differs` asks whether there
are as many rows as before and each is among those before, the bill goes head by head.
`DiffersIs` (by the cardinality of the two sets of rows) and `BilledSame` show that each
amounts to `SaySame`. `SetupInvariant` adds what the step needs: until another save comes
between, a call still knows whether it changes what is stored. That the page shows what is
billed needs no invariant: it holds of whatever is stored, crossed saves included. Of the
subjects, `SubjectInvariant` is the unique index (one open place a student and session), and
it is what lets `SiblingsAre` equate the lines of a bill with the register of a sibling
section.

| theorem | states |
|---|---|
| `InstallmentsAreBilledOnce` | `[]InstallmentsBilledOnce` |
| `BilledPlansStand` | `FrozenStep`, `ByMonthStep` of every step |
| `HeadsAreShownAndHeard` | `[]BilledAsShown`; `HeardStep` of every step |
| `SubjectsArePaidFor` | `[]TaughtIsPaidFor` |
| `ChargesAlwaysShown` | `[]ChargesAsShown`, of the parts beside each other |
| `SavesAlwaysKeepFaith` | `SavesKeepFaith`, of the parts beside each other |

**Reminders** (`SchoolDayProofs`). `StampsInOrder`: the stamp of a row, the
announcements of it and the sweeps at work on it agree on one time, and the announcements
made and the sweeps still to announce are together no more than the sweeps there are. That
count is what makes `OneStampPerRow` survive crashes and late sweeps.

**Examinations** (`ExamSheetsProofs`). `ReviewInvariant` says what every call in flight has
decided, from which `DecisionsBind` (`ReviewBinds`) follows with any number of sessions.
`PublicationsStayWhole` (`PublishedWhole`) needs more: while a publication is in flight the
sheet is as it was checked (`PublicationsStand`). That holds as long as no two
administrators have requests in flight at once, which is the theorem's hypothesis
`[]OneAtWork`; `OneAdministratorSuffices` discharges it where there is one administrator, as
in the run.

**The results** (`ExamResultsProofs`). `FinalRestsOnMarks` with the types is inductive.
Its heart is `CompleteIsMarked`: a student whose result is complete holds a mark on every
paper that is theirs, so the papers finalize adds up are exactly the papers with marks,
whatever happens to enrolments afterwards. Then `ResultsTyped`, `FinalIsTheSum`,
`TotalsAreNotRescaled` and `MarksAreKept` hold for every class, date sheet and number of
saves.

**The roster** (`SchoolYearProofs`). Two arguments of different kinds. `RostersAreOfOneMind`
is about queries: the register, the sheet, the grid, the doors, the notices and a student's
own subjects, each a translation of its own piece of code, are shown to be one relation
over any set of placements and picks. It needs nothing of how that set came about but its
types, so it holds in every reachable state, the ones that crossing requests leave behind
included. `PicksAreHeld` is about steps: `RosterInvariant` says that the unique indexes
hold, that a request commits on rows it knows, and that until two requests overlap what a
request has found is still so when it writes (`CallSound`, one clause per kind of request).
`PlacesAreKept` rests on the same invariant; its `PromotedStep` holds with overlap too,
because only the unique index is needed for it.

**The timetables** (`TimetableProofs`). That no teacher has two classes at once is not
inductive: a batch that was found clear of the other sections commits later, a class is
written at the times its period had when it was read, and a period is retimed with the
classes that were there. `TimetableInvariant` has two halves. The first needs nothing of the
schedule: rows are typed and keep their keys (`TypeOK`), what a request brings is well formed
(`Brought`), and a period that a request holds is, while it is there, still of the section it
was read in (`Owns`). The second holds until two requests overlap: one request is in flight
at most (`Alone`), the grids are in order (`GridsKept`: every class fits its period, no two
that meet share a teacher or a section, what is live has periods), and what each request knows
of the grid is still so (`Knows`, one clause per kind of request). Only a deletion of one
class and an archive write without reading first, and these are shown to disturb no clause.
One lemma per action shows that the invariant is kept, and with it the two step properties
(`StepHolds`), so `EditsHoldBackHolds` comes with the invariant. For the rooms, `Knows` says of
a class in flight that the room that is checked is the one it will be held in, or none, and the
latter only on creation. `NoConflict` takes the check to the grid where the two are the same;
where they are not, the property names the door. The views and the editor
(`ViewsAgree`, `EditorAgrees`) are consequences in each state; the editor needs the types
alone, so it agrees with the server after any overlap too.

Two lemmas of general use stand before that. `NeighboursSuffice`: where each range
ends before the next in the order of their starts begins, any two are apart, which is why
`hasOverlap` and `validatePeriodSet` may compare neighbours only; a batch may thus place two
classes of a day in two periods without comparing their times. `CreatedRows`: `createMany`
writes each row once, under an id that was free.

| theorem | states |
|---|---|
| `TimetableIsInvariant` | `[]TimetableInvariant` |
| `ClassesAlwaysStand` | `[]ClassesStand` |
| `EditsHoldBackHolds` | `EditsHoldBack` |

**Families** (`SchoolYearProofs`). `FamiliesInvariant` adds to `GuardianKept` and
`LinkedWithinSchool` what a request relies on between its checks and its write (`Relies`): the
guardian it found is of the school unless the account moved since, and the link it will take
away is not the last unless another request took one in between. The histories that the
properties excuse -- `bereft`, `moved` -- appear in the invariant in the same places.

**The registers** (`SchoolYearProofs`). `RegistersAreOfOneMind` needs the types alone
(`RegisterInvariant`), for any placements and picks. The sheet derives its session from the
placements, the save from the placements and the sibling takers it found with that session:
`SessionStays` shows that adding takers of the session found gives the session again, so the
two name the same students. That both are what `Takes` says of one student is `SheetIsTakers`;
the marked are added to the sheet alone, whoever they are, so the moved ones are on one list
and not on the other. That figures agree is a fact about counting: `PartsAddUp`, the
sizes of sets that share nothing add up to the size of their union, applied to the marks
student by student and date by date. `Add` counts units for that reason, as `Money` does.

**The statistics cache** (`PaymentReviewProofs`). An entry that is old and was not stored
across a write has a writer who committed and is yet to delete it (`CacheInvariant`).

**What is shown of the ledger** (`PaymentReviewProofs`). The ledger underneath needs little,
`ViewsInvariant`: a challan is paid up to what it asks for, its status follows from the two,
and a cancelled one holds no money (which is why a run carries only challans that nothing was
paid on; a run that also carried what is left of a part-paid one would lose its receipts from
every report), and what was carried asked for something, so that a cancellation may reopen it
as UNPAID. From there each figure is a sum over a set of rows, and two figures agree when
the sets are taken apart alike: `TotalsAddUp` (parts that share no rows), `TotalOfSums` (what
is asked for is what came in and what is owed, challan by challan, hence of any challans,
`BooksOf`), `TotalOfSome` (rows of nothing do not count: paid challans owe nothing, so who is
listed as owing owes everything). That CREATED means everybody is the pigeon-hole principle:
as many challans as students, and no two for one.

**A school day** (`SchoolDayProofs`). One section for each part, each with the invariant of
its part; the last section puts the parts beside each other, as `MCSchoolDay` does.

- Assignments: `WorkInvariant`. While no mark is given beside a student's request (`Apart`),
  nobody hands in what is marked, and the file a teacher has before them is still the file of
  the row. Who sees, opens, is told and is counted is a matter of the roster alone.
- Quizzes: `QuizInvariant`. While one author is at work (`OneAuthor`), no question is edited
  under an attempt, what is published has questions that can be answered, and a grade is the
  sum of what is asked. That a quiz is listed for exactly those it admits needs no
  invariant but the roster's types.
- Messages: `ThreadInvariant`. Until two requests race, messages are in the order of their
  times (`InOrder`), what a member has not seen is newer than what they read or hid
  (`Noticed`), whoever is about to write is on turn (`OnTurns`), two stay (`Company`).
- Who writes to whom: `WriterInvariant`. What the picker offers is compared role by role with
  what the server accepts (`ReachIs`). A second thread of a pair takes two requests for that
  pair that overlap: until then the pair has one thread or one request in flight, not both
  (`Sole`).
- Announcements: `NewsInvariant`. An announcement that is not marked as notified has been
  scheduled once more than it was claimed (`Armed`), which is what makes ticks of several
  instances harmless, and what an edit in flight will write keeps it so (`Pending`); an edit
  that writes the mark back is the excuse the property names. `AudienceAgrees` starts from the
  targets where the code starts from the reader, and needs the types alone.

| theorem | states |
|---|---|
| `GuardiansAreKept`, `FamiliesStayWhole` | `[]FamiliesWhole` and its two halves |
| `RegistersAreOfOneMind`, `RegistersAlwaysAgree` | `RegisterIsMarkable` and `FiguresAgree` of `Attendance`; `[]RegistersAgree` |
| `OnlyCrossedIsStale` | `[]StaleOnlyAcrossWrite` |
| `FiguresAreOfOneLedger`, `FiguresAlwaysAgree` | `ReportsAgree`, `OneDebt`, `CreatedMeansEverybody` of `FeeViews`; `[]FiguresAgree` |
| `MarksStand`, `WorkAlwaysStands` | `[]MarkStands`; with `GradeStands`, `[]WorkStands` |
| `QuizzesAreFair`, `QuizAlwaysOpen` | `GradeStands`, `PublishedAnswerable`, `ListedIffAdmitted`; `[]QuizOpen` |
| `WorkReachesItsAudience`, `WritersAgree`, `NewsReachesItsAudience`, `AudiencesAlwaysAgree` | the audience of each part; together `[]AudiencesAgree` |
| `ThreadsAreKept`, `ThreadsAlwaysKept` | `NothingMissed`, `ThreadOrderly`; `[]ThreadsKept` |

**Only model-checked**: liveness and everything under fairness, and these safety properties:

- `CardsOfOneMind`: its places come from a walk over sorted percentages and its totals from folds,
  for neither of which there is an induction here.
- `ArithmeticExact`, `HoursStand`: recursive functions of amounts, percentages and clocks.
- `RunsNumberAndConserve`: its conjuncts are `[]DebtInvariant` and `[]NumbersContiguous`, both
  proved of `ChallanLedger`; the run checks them on another instance (two kinds of run).
- `RefusedOnlyByRivals`: that a number written with digits is read back as itself is an
  induction over its digits.
- `ToldOnce`: its announcement is `NotifiedOnce` (of claims), which `NewsReachesItsAudience`
  proves; its bell flattens a sequence of batches.

## Not modelled

- **Authentication**: each operation writes one row of one account, secrets are opaque,
  and no other component reads what it keeps.
- **Students, subjects, classes, years**, and the set-up of sections: create, update and
  delete of single rows under unique indexes.
- **Chatbot, search, dashboards, audit, settings, mail, push, uploads of pictures, scripts**:
  reads, text, or writes whose failure is swallowed on purpose.
- Parts of modelled components: day and week cadences of a plan; exam paper files and
  grading schemes; roll lists and dates of placements; sections that a promotion creates or
  suggests; teachers of an offering; calendars and exports of attendance; the import of
  quiz questions from text; another class or section for an examination without papers; whom an
  announcement would notify, which nothing asks; attachments everywhere; reactions; the change of a school's
  timetable window. The note of each component in `PROJECT.json` says so too.
- Hazards of the code that no property covers, because each is one write that the code
  makes knowingly, or a race of two rare ones: a term that is deleted under a published
  examination, the bands of a grading scheme checked before the transaction that replaces them
  (`exam-settings.service.ts:279`), a change of section while a subject is added
  (`exams.service.ts:382`), two sheets that take one room in the same instant, and an
  administrator who types `Carried forward to <number>` as the reason of a cancellation
  (`payments.service.ts:241`).

## What is left

Proofs: what `ResultCards` lists and opens, which needs the lemmas of `SchoolYearProofs` about
`SubjectTakers`.
