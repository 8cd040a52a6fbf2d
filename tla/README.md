# A verification project for salon-booking-bot

TLA+ modules, TLC runs and TLAPS proofs about the program in `src/`: an
asynchronous Telegram bot through which clients of a salon book a master, a
day and a time.  Paths below are relative to `src/` unless they end in `.tla`
or `.cfg`.

## 1. The system

One bot process (`app/main.py`) polls Telegram and handles every update in an
asyncio task of its own, so that handlers interleave wherever they `await`.
Beside it run a Taskiq scheduler and a Taskiq worker.  PostgreSQL 16 holds the
data at its default isolation level (READ COMMITTED); Redis holds the dialogs,
the FSM states, the schedule of reminders and the task queue.

| part | state | operations | interacts with |
|---|---|---|---|
| booking store (`app/db/repository.py`, `migrations/versions/0001_initial.py`, the handlers that commit) | table `bookings`, advisory locks, the transaction of each update | `create_booking`, `cancel_booking`, commit, rollback | every handler through its `AsyncSession`; PostgreSQL |
| slot search (`get_available_slots`, `app/db/schedule.py:get_working_hours`) | reads `bookings`, `master_schedules`, `master_time_off` | one call | the dialog shows what it returns |
| roles and profiles (`app/db/users.py`, `app/handlers/admin.py`, `scripts/grant_admin.py`) | `users.role`, `masters.is_active`, identity map of each session | `set_role`, `toggle_master`, bootstrap script | the access filter, the list of masters clients see |
| booking dialog (`app/dialogs/booking.py`, `app/handlers/errors.py`) | window and `dialog_data` per client, in Redis | selections, Back, Cancel, confirm, `/start` | slot search, store, reminders, notices to the staff |
| reminders (`app/tasks/`) | schedule and queue in Redis | `schedule_reminder`, the scheduler, the worker with retries | store (status when it fires), Telegram |
| admin input (`app/handlers/admin.py`, `app/db/schedule.py`) | FSM state and data in Redis, schedules, time off | prompts, hours, days off, time off | parsing, slot search |
| parsing (`app/utils/parse.py`, `app/schemas/contact.py`) | none | hours, date ranges, name and phone | admin input, dialog |
| registration and access (`app/middlewares/`, `app/filters/role.py`) | `users` | `get_or_create`, role filter | every update |
| notices to the staff (`app/services/notify.py`), lists (`/my`, `/schedule`, admin lists) | none | read and send | Telegram |

What is hard here: interleaved transactions of one bot (two clients, a double
press, two administrators), transactions that do not come from the repository,
a decision taken on a value read some statements earlier, the connection or
the process lost between a commit and what should follow it, and the
boundaries of the slot grid.  `PROJECT.json` lists these hazards at their
lines, with the properties that cover each of them or the reason why none does
yet.

What makes each part correct:

* store: no two active bookings of a master overlap; a booking appears and is
  cancelled atomically and once; an answer of success is true; no path leaks
  the lock of a master; every update is answered;
* slot search: exactly the starts that can be booked are offered;
* roles: an administrator remains; a master has one profile, and a demoted one
  cannot be booked;
* dialog: what is booked is what was chosen for this service, master and
  day; one pass books at most once; nothing is booked in the past;
* reminders: what is scheduled is sent, once, while the booking is active;
* admin input: what is typed is applied to what was asked; the hours stored are
  the hours announced; a date without a year is the next such date;
* registration: a user is inserted once, and keeps the role he was given.

## 2. Modules

| module | models | kind |
|---|---|---|
| `BookingRows.tla` | a row of `bookings`, the overlap test written in SQL and Python, the EXCLUDE constraint of migration 0001 | operators |
| `BookingLedger.tla` | what the store promises: `Book` and `Cancel`, each in one step | abstract specification |
| `BookingLedgerProofs.tla` | what the ledger comes to: nobody is booked twice, the history is kept | proofs |
| `BookingRepository.tla` | the transactions of `create_booking` and `cancel_booking`, statement by statement | detailed specification |
| `BookingRepositoryProofs.tla` | its theorems | proofs |
| `SlotRules.tla` | rows of the schedules, and when a start can be booked | operators |
| `AvailableSlots.tla` | one call of `get_available_slots`, query by query and turn by turn | specification |
| `AvailableSlotsProofs.tla` | its theorems | proofs |
| `BookingDialog.tla` | the booking dialog of each client from `/start` to `manager.done()`, beside other clients, administrators and the clock | specification |
| `BookingDialogProofs.tla` | its theorems | proofs |
| `StaffRoles.tla` | registration, `set_role` and `toggle_master` with their handlers, under concurrent updates | specification |
| `StaffRolesProofs.tla` | its theorems | proofs |
| `ReminderPromise.tla` | what reminders promise: one, of a booking found active | abstract specification |
| `ReminderPromiseProofs.tla` | what the promise comes to for a client | proofs |
| `Reminders.tla` | `schedule_reminder` and `send_booking_reminder` with the scheduler, the queue, the workers and their retries | specification |
| `RemindersProofs.tla` | its theorems | proofs |
| `ParseInput.tla` | what `app/utils/parse.py` makes of a text, and what the administrator means by it | operators |
| `AdminInput.tla` | the text prompts of `/admin`: the FSM in Redis, the schedules and the time off, under concurrent updates | specification |
| `AdminInputProofs.tla` | theorems about the prompts and the parsers | proofs |
| `MC*.tla`, `*.cfg` | small instances for TLC | runs |

The modules stand on each other by what each shows of the one below.
`BookingRepository` implements `BookingLedger`, so `BookingDialog` may take the
transaction of `on_confirm` as one step; that it still keeps to the ledger is
checked and proved again (`BookingDialog!LedgerSpec`).  `AvailableSlots`
offers exactly the starts that satisfy `SlotRules!IsBookable`, so
`BookingDialog` shows a list of slots as that set.  `Reminders` implements
`ReminderPromise`.  `AdminInput` takes the meaning of a text from `ParseInput`, as
the handlers do; that a weekday has one row, which `SlotRules` assumes, is in its
type (`week` is a function of master and weekday, kept so by the guards of
`InsertRow` and `FlushRefused`).

### BookingRepository: the booking store

One process per update in flight (`Sessions`), each with the `AsyncSession`
that `DbSessionMiddleware` opens for it; `Writers` are transactions that
insert rows without the repository, the case for which the comment at
`app/db/repository.py:199` keeps the constraint.

| variable | in the code |
|---|---|
| `bookings` | the committed table: what other transactions read |
| `nextId` | `bookings_id_seq`; a refused INSERT burns its id |
| `advisoryLock` | `pg_advisory_xact_lock(master_id)` |
| `pc`, `row` | the statement a transaction is at, and the row it inserts or cancels, uncommitted |
| `userRow` | the row of `users` the transaction has to write, or has written (`HoldsUser`) |
| `reply` | what the client was told |

| action | code |
|---|---|
| `Confirm`, `AcquireLock`, `CheckFree`, `CheckTaken`, `LockUser`, `InsertBooking`, `InsertRefused` | `repository.py:149-202` |
| `CommitBooking`, `DbError`, `CommitAckLost` | `booking.py:215-239` |
| `CancelSelect`, `CancelNothing`, `LockBooking`, `CancelTooLate`, `UpdateStatus`, `CommitCancel` | `repository.py:204-239`, `my_bookings.py:61-88` |
| `EditUser`, `LockUser`, `CommitEdit` | the other writers of a row of `users`: `set_role` (`users.py:61-68`) and the middleware (`users.py:31-32`, `middlewares/user.py:36-37`) |
| `BotRestart` | the connections of a dead process close, PostgreSQL rolls back; one step |
| `OutsideInsert`, `OutsideCommit`, `OutsideRollback` | rows written by hand or by another program |

Choices worth knowing.  The constraint is modelled as PostgreSQL applies it:
an INSERT that meets a committed conflict is refused, one that meets an
uncommitted conflict waits (`Admitted` and `Refused` are both false).  A
deadlock of two waiting INSERTs, which PostgreSQL breaks by an error, is a
`DbError`.

There are three locks, and a place to wait for each.  The flush of
`create_booking` writes the client's row of `users` before the booking when
the username, name or phone differ (`repository.py:182-197`), under the
advisory lock; the row stays locked until the commit, and may be held by a
confirmation of the same client with another master, by `set_role` or by the
middleware.  `LockUser` is the grant of that lock; of the contact data the
model keeps only whether there is something to write.  `SELECT ... FOR UPDATE`
finds the active row (`CancelSelect`) and waits for it; when it is granted,
PostgreSQL judges the version committed by then (`LockBooking`,
`CancelTooLate`).  The row locks are not variables of their own: they belong to
the transactions that stand after the grant.  The foreign keys of an INSERT
lock rows of `users` and `masters` in share, which no UPDATE of other columns
waits for.  After its row of `users`, `set_role` may wait for a row of
`masters`; that wait is in `StaffRoles` (`NoCircularWait`), and here the editor
goes on.  The INSERT of an unknown client (`repository.py:140-143`) is left out,
since the middleware has committed the row, and so is the `ValueError` for an
unknown service, which ends the update before the lock.

### SlotRules and AvailableSlots: the slot search

Time is counted in units from midnight of day 0, in the timezone of the salon;
day `d` is the units from `d * DayLength`.  `OnTimeOff`, `NotOnTimeOff`,
`DayOff` and `WorkingDay` are the two queries of `get_working_hours`; `ReadBusy`
is the query for the busy intervals, `TryNext` one turn of the loop, `Return`
its end.  The properties compare the result with `IsBookable`, which is written
with quantifiers over the tables and knows neither the window of busy intervals
nor the loop.  The tables do not change during a call.  A change of the clock
in the salon's zone is not modelled (`Europe/Moscow` has none).

### BookingDialog

| variable | in the code |
|---|---|
| `bookings`, `nextId` | as above, with the transaction in one step |
| `active`, `time_off`, `now` | `masters.is_active`, `master_time_off`, `datetime.now(tz)` |
| `window` | the state of the dialog on the stack of the client (`BookingSG`), or `none` |
| `dialog_data` | `manager.dialog_data`, in Redis; a key not there is `Unset` |
| `screen` | the items on the last message, which stay as they were sent |
| `pc` | where `on_confirm` stands: it awaits after the commit, and while answering a refusal |
| `made`, `troubled` | history: bookings of this pass through the dialog; whether the client was told of an error or got no answer |

Each choice is one action that stores a key and shows the next window with a
fresh result of its getter (`Save`, `Show`, `Items`): aiogram-dialog handles
the updates of one chat one at a time, so nothing of the same client comes
between.  A message keeps its buttons, so `SelectMaster` and `SelectSlot` accept
what was offered and is perhaps no longer true.  A past date, a name or phone
that is refused, and a button of a dialog that is gone (`on_stale_dialog`)
change nothing and are no steps.  `on_confirm` is `Confirm`, then one of
`Booked`, `Occupied`, `NotSaved`, `CommitAckLost`, then `Notify` and `Done` or
`ChooseAgain`; `UnhandledError` may end it anywhere, before the commit or after,
and leaves the dialog as it is stored.  A restart leaves Redis as it is and loses the
update.  A crash between sending a window and storing its context is not
modelled.  `Others` are clients whose dialogs are not followed: `OthersBook`
and `CancelBooking` are what is seen of them.  Schedules are constant here.

### StaffRoles

One process per update (or run of `scripts/grant_admin.py`).  A user who is
`absent` has no row in `users`.  `FirstUpdate` is the SELECT of
`CurrentUserMiddleware` that finds no row, `InsertUser` the INSERT, which waits for
another of the same `telegram_id`, and `InsertRefused` the IntegrityError after which
the update is handled without a user.  An update of a user who is registered loads
him and writes no role; that it may write his new user name is left out.
`RoleFilter` is the conjunct `role[by] = "admin"` of `PressRole` and `PressToggle`.
`role` and `profile` (none, active, blocked) are the committed rows; `target`,
`new_role`, `old_role` and `found` what the session was asked and has loaded,
`userWrite` and `masterWrite` its uncommitted versions, which hold the row locks.
The order of statements is that of the code with autoflush: the UPDATE of the
role goes out before the SELECT of the profile.  An administrator who targets
himself finds the object the middleware loaded, without a query.  Masters that
are linked to no user are left out: no role concerns them.

`outrun` is history: the sessions during which another one committed a change.
`LastAdminKept` and `DemotionBlocksAlone` say that the guard of the last
administrator and the deactivation work for every session that is not outrun,
whatever the others hold uncommitted.

### Reminders

| variable | in the code |
|---|---|
| `status`, `bot` | `bookings.status` and where `on_confirm` stands after its commit |
| `schedule`, `sending` | the `ListRedisScheduleSource`; what the scheduler has sent and not deleted yet |
| `queue` | messages of the `ListQueueBroker`: the booking, the sending it stems from, the label `_retries` |
| `wpc`, `task` | the task each worker runs |
| `sent` | the messages that made Telegram deliver something |
| `lost`, `troubled`, `kicks`, `restarts` | history: where a failure took a reminder away, or may have doubled it; how often the scheduler sent and died |

| action | code |
|---|---|
| `Commit`, `ScheduleReminder`, `TooSoon`, `NotScheduled` | `booking.py:215-246`, `notifications.py:63-72` |
| `CancelBooking` | `repository.py:204-239`; it leaves the schedule alone |
| `Kick`, `DeleteSchedule`, `SchedulerRestart` | the scheduler of `broker.py:33-35`: send, then `post_send` |
| `Pop` | BRPOP of `broker.py:25-30` |
| `ReadActive`, `Skip` | `notifications.py:38-49`, a transaction of its own that ends before the message is sent |
| `Send`, `SendUnheard`, `TaskFails` | `notifications.py:51-60`; an error of the network after Telegram delivered the message is `SendUnheard` |
| `Retry`, `GiveUp` | `SimpleRetryMiddleware` with `max_retries=5`, which counts attempts |
| `WorkerRestart` | all tasks of the process end; Redis keeps nothing of them |

Taskiq and Redis are modelled from how `app/tasks/` uses them.  Redis is taken to
keep what it holds.  The queue is a set, because no two messages in it are alike
(`OneTaskPerKick`); that it is a list matters for fairness only.
`NotScheduled` stands both for a Redis that is away and for a bot that dies: either
way `on_confirm` goes no further with the reminder.  A schedule that was
stored although its call failed is not modelled apart: it is a
`ScheduleReminder`.  The pause between two attempts (`delay=30`) is left out, as
is what the message says.

`ReminderPromise` knows bookings, who has found one active (`in_hand`), what was sent,
and the bookings of which a second reminder is excused.  `Reminders` implements it
with `in_hand <- InHand`, the bookings of the workers between `ReadActive` and the
end of the attempt, and `excused <- troubled`.  A cancellation that comes between
the two is within the promise, as it is in the code.

### ParseInput and AdminInput

A text is what the regular expressions find in it: a word for a day off, one or two
pairs of numbers with dots or colons and perhaps a year, or nothing.
`Means` is the reference definition: the day and month typed, in the year
typed, or on their first occurrence from today on.

| variable | in the code |
|---|---|
| `week`, `time_off` | the committed rows of `master_schedules` and `master_time_off` |
| `state`, `data` | what Redis holds of each administrator's chat (FSMContext) |
| `pc`, `by`, `update` | where the handler of an update stands, whose it is, the button or text |
| `raw_state` | the FSM state aiogram read when the update arrived, by which `StateFilter` decides |
| `place`, `loaded`, `write` | master and weekday read from the data, the row `set_day` loaded, the columns written and not committed |
| `gone` | sessions whose loaded row has been deleted: their UPDATE names its id, and finds nothing even where a new row has the same key |
| `asked`, `meant` | history: the question on the screen of each chat, while Redis holds the same; that question when the text of a session was sent, while no other update of the chat is in flight |
| `outdated`, `stale` | history: sessions that wrote to a row changed since they loaded it; days whose row was last written so |

| action | code |
|---|---|
| `Arrive`, `Turn` | the update's task starts and reads the state; the lock that aiogram-dialog takes for the chat |
| `SetState`, `UpdateData`, `Prompt` | `admin.py:283-294` and `333-343`: two writes to Redis and a message |
| `ReadHours`, `KeyMissing`, `NotUnderstood` | `admin.py:297-313` |
| `ClearDay`, `SelectRow`, `InsertRow`, `UpdateRow`, `NothingToFlush`, `FlushRefused`, `Commit` | `schedule.py:34-59`, `admin.py:316-321` |
| `ReadTimeOff`, `ParseFails`, `AddTimeOff`, `DeleteTimeOff` | `admin.py:346-389`, `schedule.py:80-107` |
| `Clear` | `state.clear()` at the end of both handlers and of `/admin`, the menu and the list of masters |
| `Fail`, `BotRestart` | an error at any await, answered or not; Redis and PostgreSQL keep what they hold |

An UPDATE of SQLAlchemy names only the columns whose value differs from what was
loaded (`Changed`), and names none when nothing differs (`NothingToFlush`).  Under
READ COMMITTED it is applied to the row as it is when the lock is had (`Written`).
`Clear` removes the state and the data in one step, although aiogram makes two
writes: without a state no handler reads the data, and a button writes both.  The
SELECT that finds a row and the UPDATE or INSERT after it are two steps, since
another update may come between; `add_time_off` has nothing to race with
and is committed where it is inserted.  The buttons carry their master and weekday,
and old ones may be pressed at any time, so that `Updates` may hold any of them.
`notify`, lists and cards show and change nothing.  A master is not deleted anywhere
in the code, so that no foreign key is ever violated.

## 3. What the runs check

Every property of a passing run is also run against a mutant, a small change of a
definition that a bug in the code could be; the mutants stand beside the
definitions they change.

| run | instance | properties |
|---|---|---|
| `store_safety` | two sessions, one outside writer, one master, two services, two starts, two ids | `TypeOK`, `NoOverlap`, `LockExactlyHeld`, `ReplyIsTrue`, `NoDoubleCancel`, `InFlight`, `LedgerSpec` |
| `store_live` | three sessions, no outside writer, one client, one master, one start, one id drawn before the last request | `CheckStaysTrue`, `WaitEnds`, `EveryUpdateAnswered` |
| `store_ack` | as `store_safety`, no writer | `NotSavedIsTrue` is violated |
| `slots` | a day of eight units with bookings around and across its hours, grid of two, services of one to three units | `TypeOK`, `OfferedExactly`, `OfferedPassesCheck`, `Returns` |
| `dialog` | one followed client, one other, one master, two services, two days of three units, two readings of the clock, two bookings | `TypeOK`, `KeysPresent`, `SlotFitsSelections`, `NoSecondBooking`, `RefusedSlotIsGone`, `LedgerSpec` |
| `dialog_past` | the same | `NoPastDate` is violated |
| `reminders` | one booking, two workers, three attempts, three readings of the clock with the reminder due at the second, one death of the scheduler | `TypeOK`, `OneTaskPerKick`, `NoSecondReminder`, `NeverForgotten`, `CancelledStaysQuiet`, `PromiseSpec`, `ReminderComes` |
| `staff_safety` | three people, one of them registered, two sessions | `TypeOK`, `MasterHasProfile`, `NoSecondProfile`, `RegisteredOnce`, `NoCircularWait`, `LastAdminKept`, `DemotionBlocksAlone`, `CommitAsIfAlone` |
| `staff_last_admin`, `staff_demotion` | two people, two sessions | `AdminRemains`, `DemotionBlocks` are violated |
| `admin_input` | two administrators, two masters, one weekday, two sessions, five texts for one and two for the other, one time off, today 1 March of a leap year | `TypeOK`, `HoursInOrder`, `AppliedAsAsked`, `FreshHoursApply`, `RangeIsMeant` |
| `schedule_set_day` | the same | `SetDayIsTrue` is violated |

**Why the bounds are enough to be interesting.**  In the store, two sessions and a
writer give every pair of conflicting transactions; services of one and two
units at two adjacent starts give intervals that overlap, touch and contain each
other; two ids let one booking be cancelled and its slot booked again.
`store_live` has three sessions because the longest chain of waits has three
members: one waits for the advisory lock, its holder for the client's row, and
the third has written that row; three may also press one cancel button.  With one master
the third is an editor of the row, not a confirmation with another master, which
holds the row at the same places; a second master takes the liveness check out of
reach, and `WaitingIsBounded` is for any number of both.  The
search sees bookings that start before the opening, end after the closing,
touch the slots and lie between them, and hours that are no whole number of
steps.  In the dialog the long service fits one start and the short one two, so
that a change of the service after the choice of a slot would show; the other
client can take one of the slots; the clock passes from the first day to the
second.  Two dialogs at once meet only in the tables, which the other client
changes as a second dialog would; the theorems are for any number.  A reminder has a moment
before it is due, that moment and one past it, so that the scheduler may come late and
a booking too soon; three attempts are a first, a middle and a last one;
two workers can run two sendings of one booking at once, or a retry beside another
sending; reminders of two bookings meet nowhere but in the queue, which hands out its
messages in any order.  In
`staff_*`, every race needs two sessions and the two people they concern; the
third can become an administrator who does not take part in it.  In `admin_input` the
first administrator presses every button and the second edits the hours of the same
day, so that two updates of one chat and of two chats meet.  The hours they type share
one end each with those in the table, which is when an UPDATE names one column
only; a day off lets the row disappear between the SELECT and the flush.  The
dates are a period over the turn of the year, one that has passed this year, and
a 29.02 that has.  The masters of the two prompts differ, so that data of an
earlier prompt would show.

`MaxBookings` bounds the ids drawn (it guards the start of a request, never its
continuation).  `Moments`, `Days` and `TimeOffDays` bound the clock and the
calendar, `MaxRestarts` the deaths of the scheduler, `MaxTimeOff` the rows of
`master_time_off` (it guards the arrival of a text with dates).  Every other constant is a size of the instance.

**Fairness.**  `store_live` assumes weak fairness of the statements of each
session (asyncio resumes a handler, PostgreSQL answers) and strong fairness of
the grant of the lock it asks for (`Granted`: the advisory lock, a row of `users`, a
booking), because PostgreSQL queues the waiters of a lock and passes none
over for ever.  Nothing is assumed of clients, errors, restarts or outside
writers: the run has no writer, since a transaction left open by hand may make an
INSERT wait for ever.  `slots` assumes that a running function goes on, and disables
the check for deadlock because a call ends.  `reminders` assumes that the clock goes
on, that the scheduler, which looks every minute, sends and deletes what is due,
that a message in the list is taken some day (BRPOP serves the oldest) and that an
attempt ends, well or not.  It assumes of no failure that it stays away: an attempt
may fail, a worker may die, each time; those that cost the client a reminder are
in `lost`, which `ReminderComes` names as the exception.  Its check for deadlock is
off because everything is over some day.  Nowhere else is fairness assumed.

### What the runs found

Five statements of the repository are not true of the code.

* **`store_ack`.**  `DB_ERROR_TEXT` tells that the booking was not saved.  When the
  connection breaks between PostgreSQL's commit and its acknowledgement,
  `session.commit()` raises and the text is sent, but the booking exists,
  without a reminder or a notice to the staff.
* **`staff_last_admin`.**  The guard of `cb_set_role` counts administrators without
  a lock.  Two demotions that both count two leave none.
* **`staff_demotion`.**  `set_role` decides by the role it loaded.  When another
  transaction has made the user a master since, the demotion leaves his
  profile active and bookable.
* **`dialog_past`.**  Past dates are refused when the date is chosen only.  The dialog
  waits in Redis, and the confirmation a day later is accepted.
* **`schedule_set_day`.**  `set_day` says it sets the hours of the weekday, and the
  handler answers with the hours typed.  Two administrators at once, one
  typing 10:00-15:00 and the other 16:00-19:00 over 10:00-19:00, leave
  16:00-15:00: each UPDATE names the one column that differs.  When one
  types the hours already there, nothing is written at all, and the other's stay.

No run refutes the README where it says that reminders outlive restarts
(`README.md:141-142`), read as what it is about, the schedule in Redis: `ReminderComes`
holds although the scheduler may die after it sent the task, and the bot once it has scheduled it.  It has its limit in a
worker that dies with a task in hand: the list queue has no acknowledgement,
and that reminder does not come (`WorkerRestart`, recorded in `lost`).  Likewise a
reminder may come late, after the visit has begun, when the scheduler
was down; the task does not look at the clock.

`staff_safety` shows what remains of the two statements about roles: a session that no
other one outran keeps them (`LastAdminKept`, `DemotionBlocksAlone`), and commits, as
one step on the tables of that moment, what it would have done alone
(`CommitAsIfAlone`).  Only sessions whose rows another one committed in between can
lose a change: a role set to the value that was loaded, or one of two presses
of the block button.  `admin_input` does
the same for the hours: a row that was fresh at the UPDATE gets what was typed
(`FreshHoursApply`), because from there on it is locked.  It also has the
behaviours in which an administrator gets no answer: a key missing from the data after a
failure between the two writes (`KeyMissing`), and 29.02 once it has passed in a leap
year, for which `_parse_date` raises outside its `try` (`ParseFails`).  Nothing
is stored in either.

## 4. What is proved

TLAPS checks the theorems for every value of the constants, under the named
assumptions of the modules: services take a positive time, start times are
natural numbers, sessions and writers are disjoint and the marker of a free lock
is neither a session nor a user, the grid step and the length
of a day are positive, a master has one row per weekday, people are finitely many,
the marker values of `AdminInput` are no data.
`slot_step_minutes` is taken from the environment unchecked; `SlotStepAssumption`
is what `get_available_slots` needs of it to end.

**Ledger** (`BookingLedgerProofs`).  The abstract specification is not taken on trust
either: `LedgerConsistent` shows that a ledger to which only admitted rows are added
has no overlap and no id twice, and `LedgerKeepsHistory` that each booking goes on in
one row, unaltered but for one cancellation.  Every module that implements
the ledger inherits both; `NoDoubleBooking` and `DialogsNeverDoubleBook` are obtained
so, by an instance of this module.

**Store** (`BookingRepositoryProofs`).  `NoOverlap` is not inductive: a committed
table without overlaps says nothing of the rows in flight.  `InFlight`
adds that a row inserted and not committed conflicts with no committed row and no other
row in flight, that ids are new, and that a row being cancelled is in the table,
active, and has one canceller.  With it follow that the store
implements the ledger (`LedgerImplemented`: a commit is a `Book` or a `Cancel`,
all else stutters), from that `NoDoubleBooking`, and `CancelledOnce` and
`RepliesAreTrue`.  `LockIsEnough` needs
the lock besides: only its holder is between check and commit, so without
outside writers the constraint never decides.  The constraint
is therefore what `NoDoubleBooking` rests on, and the lock what makes it silent.
`WaitingIsBounded` puts the same facts to another use.  A session that cannot go on is
at one of the three locks, and another, open transaction holds it (`SomebodyHolds`):
for the advisory lock this is `LockExactlyHeld`.  No INSERT waits, since what was
checked stays true even while the flush waits for the client's row.  Whoever holds a
row lock, of either kind, goes on (`RowHolderGoesOn`); only the holder of an advisory
lock may wait in its turn, and only for a row of `users` (`ChainIsShort`).  So
there is no circle, and with the fairness of the statements this
is why every update is answered.

**Slot search** (`AvailableSlotsProofs`).  The invariant says that the cursor is on
the grid, that `busy` holds exactly the active intervals that meet the hours, and
that `slots` is what is bookable below the cursor.  At `Return` nothing is left
above it (`OffersAreExact`); that a bookable start passes the overlap test is
`OffersAreFree`.  `TurnsAreBounded` gives the measure that makes the call end:
the queries still to come, then the time between the cursor and the closing hour.

**Dialog** (`BookingDialogProofs`).  `Selected` says which selections each window
presupposes and that from the name on the slot fits them; `ListsFit` that the
times on the screen fit the selections they were made for.  A step that shows a
window must only say what is selected in it (`ShowStep`).  `NoKeyError` and
`SlotMatchesSelections` follow.  `OneBookingPerPass` adds that an undisturbed
pass that has booked is still in `on_confirm` or over (`OnePass`).
`RefusedSlotNotListed` compares the two tests of a slot; `DialogsKeepLedger`
is the refinement, with the free interval of `create_booking` as the reason why
the constraint admits the row (`FreeIsAdmitted`), and `DialogsNeverDoubleBook` what
follows of it for the table.

**Roles** (`StaffRolesProofs`).  `ProfileCreatedOnce` holds because of a row lock
that no statement asks for: the UPDATE of the role precedes the SELECT of
the profile.  `Written`, `RowLocks` and `Loaded` say who holds that lock, that it
excludes, and what a session may conclude from what it loaded.  `UsersInsertedOnce` is
the unique index of `telegram_id` (`Registered`, `RowLocks`).  `GuardKeepsAdmin` and
`DemotionTakesEffect` need `Current`: what a session that nobody outran has loaded
and counted is still what the tables hold, up to its commit.  `CommitsAreAtomic` goes
further: `Settled` says of such a session, at every statement, what role and profile
its uncommitted rows come to, in terms of the committed ones; other sessions keep
their hands off because of the row locks, and a session that inserts a user has no
profile to fear for (`Roleless`).  `SessionsNeverDeadlock` is an argument by
stages: whoever waits for a row of `users` has written nothing yet, and whoever has
written a row of `masters` has only to commit, so that in any set of sessions one
waits for none of the others (`SomeoneGoesOn`).

**Reminders** (`RemindersProofs`).  `OneTaskPerKick` needs to know of a failed attempt,
which is pending no more and will be again when it is retried, that it is the last
one of its task (`Tried`), and that no message bears the number of a sending
still to come (`Kicked`).  `RemindedOnce` adds that the scheduler sends once what
the bot schedules once, as long as no failure troubled it (`Scheduled`), and that a
task which has delivered is not alive any more (`Delivered`).  For
`NoReminderOnceCancelled` no invariant is needed but the type.  `PromiseKept` maps every
step to one of `ReminderPromise`, with the same invariants: `Send` is `Remind`,
and what is excused afterwards covers what was sent twice.  What the promise comes to
is proved of it alone (`PromiseConsistent`, `PromiseQuiet`), and carried back by
`RemindersAreAccountedFor`.  `NothingForgotten` is the other half, that reminders do
come: `Stored` keeps what the bot stored in the schedule until its time,
`DueWhenSent` says that nothing is sent before, and `TasksKept` follows each
sending through queue, worker, retries and delivery; a task leaves this chain
only into `lost` or by the cancellation of the booking (`LostStep`, `KeptStep`).

**Admin input** (`AdminInputProofs`).  Of the parsers: hours are in order
(`HoursAreHours`), and a date that is returned without raising is the one that is meant
(`ParseDateMeans`, `PeriodMeans`).  The converse holds as well: `ParseDateExact` and
`ParseDateRangeExact` say that nothing that is meant is missed, except a day that the
year taken first does not have.  `Locked` says that a row somebody has
written is as it was when it was locked, and that nobody else writes there; from it
`CommittedRow` computes what a commit leaves, and `FreshHoursStored` and
`HoursStayInOrder` follow.  `Agreed` says that the question on the screen, as long as
`asked` has it, is what Redis holds, and of a handler between its two writes how
much it has written; `OneAtATime` keeps another handler of the chat away; `Meant` that
a text which travels alone still finds its question.  `AdminsNeverDeadlock` combines
`OneAtATime` and `Locked`: an update waits for at most one other, and that one for at
most one commit, so that the queue of a chat and the row locks cannot close a circle.  `AnswersWhatWasAsked` is a
consequence of `Meant`, `DatesAreMeant` of `Stage` and the parsers.

Only model-checked: `EveryUpdateAnswered`, `Returns` and `ReminderComes` (liveness is out of
this prover's reach).  The safety that each of them rests on is proved
(`WaitingIsBounded`, `TurnsAreBounded`, `NothingForgotten`): what is left to the runs is
that fairness carries it through.

## 5. Not modelled

* **Notices to the staff** (`app/services/notify.py`), **`/my`, `/schedule` and the lists of
  the menu**: they read the database and send text, and swallow what fails.  What
  happens when a notice raises in `on_confirm` is in `BookingDialog`.
* **`ContactSchema`**: its name and phone are data no handler decides on.  That the
  length of the name is checked before the blanks are stripped, so that a name
  of blanks is stored empty, is listed as a hazard without a property.
* **Migrations and seed** run once before the bot starts; their constraints are
  modelled where they act.
* **`main.py`, configuration, logging**: wiring of libraries.  What it fixes (one
  session per update, READ COMMITTED, autoflush, the state read before the
  middlewares) is stated in the modules that rely on it.
* **The clock of the wall changing** (`repository.py:122`): the default zone has no
  such change.
* **Liveness of the admin input**: every handler is a straight line of awaits, and
  the only waits are for the handler of the same chat and for a row another session
  holds until its commit; `AdminsNeverDeadlock` shows that they form no circle.

`PROJECT.json` lists each part, and each hazard that no property covers with the
reason.

## 6. Order of the work

Store and ledger, roles, slot search, dialog, reminders; then registration, the
promise of the reminders, parsing and the admin input, each with its theorems.
What a later change of the code would call for:

1. If a lock or a version column is added to `set_day` or `cb_set_role`: `stale` and
   `outrun` become empty, and `SetDayIsTrue`, `AdminRemains` and `DemotionBlocks` move
   from the runs that expect a violation to passing ones.
2. If masters can be deleted: foreign keys, and the cascades of
   `app/db/models.py`.
3. If another zone is configured: a calendar with changes of the clock in
   `SlotRules`.
