# A formal model of Cafe Booking

Cafe Booking (`src/README.md`) is an asynchronous FastAPI service over PostgreSQL, with
a Redis cache and Celery workers behind RabbitMQ.  This directory holds TLA+ models of
its parts, the TLC configurations that check them on small instances, and proofs of the
main theorems that TLAPS checks for every value of the constants.  Source paths below are
relative to `src/src/`.

## The system

| component | state it keeps | operations | talks to |
|---|---|---|---|
| booking requests (`api/services/booking.py`, `api/validators/booking.py`, `crud/booking.py`, `models/booking.py`) | tables `bookings` and `booking_table_slots` | `create_booking`, `update_booking`, two reads | database, mail queue, cache cleaner |
| status notifications and mail tasks (`api/services/notifications.py`, `celery_core/tasks`, `celery_core/services`) | the Celery queue | `notify_booking_status` publishes, `send_notification` mails | broker, database, SMTP |
| reminders (`celery_core/services/booking_service.py`) | none; run by Celery Beat | `send_upcoming_bookings` | database, mail queue |
| SWR cache (`cache/swr_cache.py`, `cache/decorator.py`) | Redis keys: value, `created_at`, lock, tag sets | `get_or_update`, synchronous and background refresh | Redis, the read handlers |
| cache cleaner and keys (`cache/cleaner_cache.py`, `cache/cache_key.py`, `core/cache_conf.py`) | none | delete by key, by tag, by pattern, all as background tasks | Redis |
| Redis client (`cache/redis_client.py`) | pool, health flag, "reconnecting" flag | `connect`, `is_available`, the commands, `_reconnect_loop` | Redis |
| users and authentication (`api/services/user.py`, `middleware/auth`) | table `users`, cached users | register, update oneself, update by an administrator, authenticate | database, SWR cache |
| cafes, tables, slots (`api/services/{cafe,table,slot}.py`) | tables `cafes`, `tables`, `slots` | create, update, read | database, cache cleaner |
| periodic task API (`celery_core/beat`) | Celery Beat's tables of tasks and schedules | create, update, enable, disable, remove | database, Celery Beat |
| media, tokens, logging, schemas, migrations, fixtures, deployment | files and settings | | |

Requests are coroutines of one event loop (several worker processes in production): other
requests run at every `await`.  The database runs at PostgreSQL's default READ COMMITTED
level, no query takes a lock, and the only constraints are keys, the CHECK on
`booking_date`, the CHECK on a slot's times and the UNIQUE columns of `users`.  Cache
invalidation and background refreshes are tasks of their own (`asyncio.create_task`), mail
is sent by other processes from a queue with late acknowledgement.

What is hard here is therefore: check-then-write sequences without a lock; rows loaded
before and used after an `await`; invalidations that race with refreshes; locks with an
expiry; a queue that delivers at least once to a task that swallows its errors; clocks at
midnight.  `PROJECT.json` lists each place as a hazard with its line.

Properties that make each component correct, whether or not they are checked here:

- booking requests: no double booking, no user at two places at once, an active or past
  booking is not touched, the pair rows are those of the last update, the mail tells what
  was committed;
- SWR cache and its cleaner: invalidated data do not come back, one refresher at a time,
  every reader is answered, a dead refresher's lock comes free, staleness is bounded;
- Redis client: after an outage it becomes available again, and never two loops reconnect;
- notifications: a mail that was published is sent at least once, and about this event;
- reminders: every booking is reminded once;
- users: a user's own update changes nothing but the fields in it; logins stay unique;
- cafes, tables and slots: names and slots stay unique, a slot that is booked does not
  come to overlap another booking of its user;
- periodic task API: a task always has its schedule, a schedule is stored once, and
  updates of one task do not undo each other.

## Modules

| module | models | kind |
|---|---|---|
| `Booking` | `create_booking`, `update_booking` and the database under them | state machine |
| `Reservations` | what the booking service promises: a ledger | abstract specification |
| `MCBooking` | small instances of `Booking` | model checking |
| `BookingProofs` | theorems about `Booking` | proofs |
| `BookingServiceProofs` | theorems about its commits, and the refinement of `Reservations` | proofs |
| `SwrCache` | one key of the cache with its lock, its tag and its invalidation | state machine |
| `MCSwrCache` | small instances of `SwrCache` | model checking |
| `SwrCacheProofs` | theorems about `SwrCache` | proofs |
| `UserAccounts` | the table `users`, its three writers and the cached current user | state machine |
| `MCUserAccounts` | small instances of `UserAccounts` | model checking |
| `UserAccountsProofs` | theorems about `UserAccounts` | proofs |
| `RedisClient` | the client's pool, health flag, commands and reconnect loop | state machine |
| `RedisClientProofs` | theorems about `RedisClient` | proofs |
| `ReminderWindow` | which slots a run of the reminder task finds | arithmetic |
| `Notifications` | the mail queue, its workers, Celery Beat; runs `ReminderWindow` | state machine |
| `MCNotifications` | a small instance of `Notifications` | model checking |
| `NotificationsProofs` | theorems about `ReminderWindow` and `Notifications` | proofs |
| `CacheKeys` | the cached GETs: their keys, their tags, their queries | functions |
| `CafeObjects` | cafes, slots and tables, and a cached answer of `CacheKeys` | state machine |
| `MCCafeObjects` | a small instance of `CafeObjects` | model checking |
| `CafeObjectsProofs` | theorems about `CacheKeys` and `CafeObjects` | proofs |
| `BeatSchedules` | the API of the periodic tasks and their schedules | state machine |
| `MCBeatSchedules` | a small instance of `BeatSchedules` | model checking |
| `BeatSchedulesProofs` | theorems about `BeatSchedules` | proofs |

### Booking

`bookings` and `rows` are the committed tables `bookings` and `booking_table_slots`; a row
carries only the columns the checks read (user, date, status).  Everything else is a
handler's local state: `pc` (the await it has reached), `op` (its request body), `snap`
(the booking and the pair rows as it loaded them), `todo` (pairs whose conflict query is
still to run), `txDay` (`CURRENT_DATE` of its transaction).  Each `SELECT` and each commit
is one action, because other requests run between them:

| action | code |
|---|---|
| `BeginCreate`, `CheckObjects` | date check before any SQL, then `_check_objects_exist` |
| `BeginUpdate`, `LoadRows` | `get_booking_by_id`: the row, then its `tables_slots` (selectin), then `check_can_modify` on what was loaded |
| `CheckPair` | one query of the loop in `check_no_conflicts` |
| `CheckOverlap` | `check_no_user_overlap` |
| `CommitCreate`, `CommitUpdate` | `crud.create`, `crud.update`: flush and commit, with the CHECK on `booking_date` |
| `Respond` | refresh, `notify_booking_status`, `clean_cache` |
| `Abort` | any exception, or the death of the worker |
| `Tick` | midnight |

`CommitUpdate` writes as the ORM does: only the columns that differ from what was loaded,
over whatever is committed by then, and it deletes exactly the pair rows it had loaded.
`raced` is a history variable: the bookings other requests have written since this
request's first read.  No action reads it; the properties use it to tell what the code
guarantees from what a race can break.

### SwrCache

One cache key and the tag that names it.  `value`, `stamp` (`created_at`), `lock` and
`tag` are the four Redis keys, each with the ticks it has left (`ex`).  `version` is what
the database holds.  A process is a reader (a request inside `get_or_update`) or a
background task; both may run a refresh, and the actions are shared:

| action | code |
|---|---|
| `Start`, `Get`, `GetAge` | `get_or_update` up to its decision: fresh, stale, old, absent |
| `Lock`, `Fetch`, `Store`, `Stamp`, `Release` | `_sync_update` and `_background_update`, command by command |
| `Tag` | `set_tags`: inside the background task, or as a task of its own for a request |
| `Poll`, `Reget`, `Call` | the request that did not get the lock, and the call without a cache |
| `Commit`, `Clean` | the service's write and its `clean_cache`, in the order `CleanFirst` gives |
| `Members`, `Unlink` | the two round trips of `delete_keys_by_tag` |
| `Tick`, `Crash`, `WriterDies` | expiry, cancellation or death of a task |

A command that fails (`Command(FALSE)`) has no effect and returns what the client returns
after it has caught the error.  A command that took effect although its answer was lost
is covered by `Crash` after it.  `cleaned`, `floor`, `loose` and `disturbed` are history:
which write has been invalidated, what a request may expect, whether a datum has raced
with an invalidation or lost its tag, whether a lock went while somebody refreshed
under it.

### UserAccounts

`row` is the table `users`, with the columns a request can write.  `cache` holds the copy
of each user the authentication works with (one entry, since `SwrCache` models the keys
behind it), `refresh` and `cleaning` the background tasks on it.  A request carries its
body, the `copy` of the current user, the target's row `loaded` in its session and the
unique fields still `todo`:

| action | code |
|---|---|
| `Start`, `Hit`, `AuthLoad`, `AuthStore` | `AuthMiddleware.dispatch` with a cached user, or with `get_user` and the caching of its result |
| `RefreshLoad`, `RefreshStore`, `Expire` | the background refresh of a stale copy, and its end of life |
| `Check` | rights, `get_user_or_404`, `check_permission_for_update_user`, `check_login_*` |
| `CheckUnique` | one query of the loop in `check_unique_fields` |
| `Proceed` | the SELECT of `session.merge` for `/me`, the start of the invalidation for `/{id}` |
| `Write`, `WriteFails` | flush and commit, or the constraint that refuses it (a 500); for `/me`, the start of the invalidation after it |
| `Clean` | `delete_key_swr` in its background task |

`Written` does what the ORM does: `session.merge` copies every attribute of the current
user over the loaded row (from the cache: all but the password), the body's fields are set
over those, and the UPDATE sets the columns that differ from the loaded row.  A row stays in
the session as it was first read; a row nobody refers to may be collected and read anew.
`at` and `since` (when a copy, or the oldest of what a request works with, was read),
`commits` and `had` (every role and status a user has had) are history.

### RedisClient

`pool`, `is_healthy` and `is_reconnect` are the client's attributes; `loop` says where each
reconnect loop is (several identities, so that a second loop could be seen), `command`
what each coroutine that uses the client is doing.

| action | code |
|---|---|
| `Notice`, `Grant` | `is_available`: starts a loop, or lets a command through `get_client` |
| `Take`, `Exhausted` | redis-py's `get_connection`, which raises when the pool is empty |
| `Answer`, `Fail`, `OwnError` | the end of a command; what it raises makes the client unhealthy in `get_client` |
| `Round`, `Closed` | a round of `_reconnect_loop` up to and after the await of `disconnect` |
| `Connecting`, `Connected`, `Surprise` | `connect` up to its ping, its answer, an exception it does not expect |
| `Outage`, `Return` | Redis |

`is_available` has no await between its test and `create_task`, so `Notice` is one step.
The pool is redis-py's and modelled from how the code uses it: closing it breaks the
connections in use, and a command on an old pool goes on with that.  `trouble` is history.

### Notifications, ReminderWindow

`bookings` is the table, of which a row has what the mails and the reminders read.  `queue`
is the bag of messages that wait, `worker` what each process does with its unacknowledged
message, `unsent` the requests between their commit and `notify_booking_status`.  `today`,
`minute` and `beatIn` are the clock and Celery Beat's countdown to the next run.

| action | code |
|---|---|
| `Commit` | the commit of a booking request (here one step: how it comes about is `Booking`'s) |
| `NotifyBookingStatus`, `NotifyFails` | `notify_booking_status`: the mail the present status selects; a dead request or a broker that refuses |
| `Tick`, `Beat` | a minute; the schedule's message |
| `FindUpcoming`, `PublishReminder`, `FinishUpcoming` | `send_upcoming_bookings`: the query of `get_upcoming_bookings`, one message for each of its rows |
| `ReadBooking`, `SendMail`, `NothingToMail`, `FinishMail` | `send_notification`: the booking in a new session, the SMTP dialogue, the swallowed `IndexError` or refusal, the acknowledgement |
| `TaskFails`, `WorkerLost` | an exception (acknowledged all the same); a killed worker, whose message is delivered again |

`InWindow` is the condition of the query: two times of day and `BETWEEN`, with the cut of
`.time()` at midnight.  `reminders`, `told`, `early`, `version` and `smooth` are history:
how often a slot of the booking as it now is was reminded, which commit was mailed last,
which windows were still to open at the last commit, whether the runs kept their times.

### CafeObjects, CacheKeys

`CacheKeys` has one record for every cached GET; `KeyOf`, `TagOf` and `Query` are its key,
the tag it is stored under, and all its handler makes of the request.  A key is the record
of the fields its endpoint names.  `CafeObjects` keeps the three tables in `rows` and one
cached answer, any of them, in `entry`, with the writes it has missed.

| action | code |
|---|---|
| `Begin` | the validators and the loads of a POST or PATCH, up to `get_object_by_role_or_404` |
| `Check` | `check_unique_slot`, `check_unique_constraint` |
| `Clean` | `clean_cache`: before the write for cafes and slots, after it for tables |
| `Commit`, `Refused` | flush and commit, or the constraint that refuses it |
| `Fill`, `FillOther`, `Expire` | a GET that leaves its answer; the end of its life |
| `Invalidate` | the background task of `delete_key_by_tag_background` |

A read and a deletion by tag are one step each here; the commands behind them are
`SwrCache`'s.  `overtaken`, `unsure`, `missed` and `during` are history.

### BeatSchedules

`schedules` are the three tables of `sqlalchemy_celery_beat` together, `tasks` the table of
periodic tasks, which names its schedule by two columns, table and id, without a foreign
key.  The endpoints are plain functions in threads, so every query and every commit is a step.

| action | code |
|---|---|
| `Begin` | the schemas: which bodies get through |
| `Find`, `Insert`, `RefreshSchedule` | `create_clocked_schedule` and its like: `get_by_attributes`, then the commit of `create` and its refresh |
| `Look`, `Remove` | `remove_schedule` |
| `CheckName`, `Load`, `Link` | `check_task_exists_by_name`, `get_task_by_id`, `get_schedule` |
| `Commit`, `CommitFails` | `create_task_with_schedule`, `CRUDTask.update`; a row that has gone, a name that is taken |
| `RefreshTask`, `Respond` | the refresh after the commit, and `build_task_schedule_response`, which looks up the schedule the refreshed task points to |
| `GetTask`, `Delete` | `remove_task` |

`Updated` writes column by column, as the ORM does: the UPDATE sets those in which the body
differs from the task as the request loaded it, `discriminator` and `schedule_id` each by
itself.  What the library does with the tasks of a schedule that is deleted is not in this
repository: `Removals` lets them stay, go with it, or make the database refuse; nor is what
it reads along with a task: each lookup of the code is a query here.  `overtaken`,
`relinked`, `loose`, `astray` and `deleted` are history: which requests lost what they had
found, which have a task that another linked anew, what overtaken requests added, which
tasks lost their schedule or were linked by two requests at a time, which were deleted.

## Runs

`CHECK_DEADLOCK` is on everywhere but in `beat_schedules`, whose tables give a bounded number
of ids and whose requests are counted: there the system may stop.

| run | instance | what it shows |
|---|---|---|
| `booking_races` | two handlers, two users, two bookings, one table and slot, two days | types; a double booking needs an overtaken request or an unchecked update; a locked booking is changed only by an overtaken request; the mail tells the request's own commit unless it was overtaken |
| `booking_overlap` | two handlers, two users, two overlapping slots | the same for one user's overlapping bookings; an update leaves exactly the pairs it names unless overtaken |
| `booking_serial` | one handler, two tables, two slots, two users, one midnight, every combination of PATCH fields, no unchecked updates | no double booking, and the committed tables implement `Reservations`, which also rules out two overlapping bookings of one user |
| `booking_reactivated` | one handler | `NoDoubleBooking` fails without any concurrency |
| `swr_races` | a reader, two tasks, one write, one failing command, times to live of one tick | a stale value or answer goes back to a fill that raced with the invalidation or to lost tagging; a second refresher needs a lock that expired or was invalidated |
| `swr_live` | a reader, a task, a write after which there is nothing to cache, one failing command | every request ends, the lock comes free, the cache ends up current |
| `user_races` | an administrator, a user and a free id; three requests of seven kinds | an update by id loses nothing, a user's own loses only what its copy is too old to know; the constraints refuse nobody who was alone; no copy gives a role that was not given |
| `user_own_role` | the same | `OwnRoleStays` fails |
| `redis_reconnect` | three commands, two connections, two identities for loops, three faults | one loop; no command on a pool that is being replaced; health is lost only to a fault since the last connect or to a command from before it; the client comes back |
| `notifications` | one worker, one booking written twice, two tables, two slots, a day of seven minutes, one fault or lost worker at any point | a mail contradicts its booking only if the booking was written in between; a mail is repeated only after a loss, once for each; only a fault keeps back the news of a commit; which reminders come in time, twice, or after the slot began |
| `cafe_objects` | two POSTs or PATCHes over two cafes, slots and tables; three roles; any GET cached | equal slots of one cafe come only from overtaken requests; every untrue cached answer has one of the causes the property names; a key stands for one query, but for the managers' lists of bookings |
| `beat_schedules` | two handlers, four requests, two tasks, three tables of schedules, with some rows at the start | a schedule is stored twice only by a race or a time zone; an error leaves a change behind only if another request deleted the task, removed the schedule or linked the task as well; updates never undo each other; the two columns of a schedule come from two requests only when they overlap |

Bounds.  Two handlers are enough for every hazard listed for bookings: each is a pair of
requests, one between the other's read and its commit; a handler serves again after it
ends, so sequences of requests are not bounded.  Two bookings are the fewest that can
clash, two days the fewest to move between, two slots that overlap without being equal the
fewest to tell a one-sided comparison from the right one.  `Batches` bounds the identities
of pair rows: one more than can be held at a time.  In the cache, two tasks let an
invalidation run beside a background refresh or beside a request's tagging task; `TTL` and
`Stale` of one tick each give a fresh, a stale and an expired phase, `Delay` of one lets a
value outlive its phase, and one failing command at every possible place covers each error
path.  For the Redis client, three commands on two connections are the fewest that race
for the last one; three faults let an outage, an error and a surprise follow each other.
For users, three requests are the fewest with which one fills the cache,
one writes the row and one works with the old copy; the seven bodies are chosen to meet:
the same address taken by a registration and dropped by its owner, both contacts of one
user removed by two requests, a role given while its user updates himself, a null where
the column allows none.  For the mails, `Day` is an abstract day in which the windows of an
odd interval lie at both ends and in the middle, so that the borders, a gap and both
midnights occur within one; `NotificationsProofs` has the same for every day and interval.  A second write is the fewest that lets a mail be overtaken, and one fault meets
every place a task can fail in.  For cafes, two requests are the fewest that race for a slot
or fall into the gap around an invalidation; the bodies have a renamed and a closed cafe, a
slot of which one edge is moved, a hidden slot and a hidden table.  For the periodic tasks, the tables begin with two
intervals, a moment and a task at the first interval (`Given`), so that the four requests can
link the task to the other table and to the other interval at a time, which mixes the two
columns, and then use what came of it, or make a schedule and remove it again; two at a time
race at each query.  The cfgs of the larger runs use symmetry under permutations of
handlers, users, bookings, tasks or requests, which no definition tells apart;
the runs with liveness properties use none.

Fairness.  `SwrCache!FairSpec` assumes that time passes and that a running task goes on
(weak fairness of each process): the event loop runs every ready task, and each Redis
command returns or times out.  Nothing is assumed of readers, writers, crashes or
failures.  `RedisClient!FairSpec` assumes that the loop and the commands go on, that Redis
comes back from each of its outages, and that requests or health checks keep calling
`is_available`, which alone starts the loop.  The other runs check safety only and assume no fairness.

## Findings

1. A PATCH that only sets `status` or `booking_date` is not checked (`booking_reactivated`):
   a canceled booking can be revived over another customer's.
2. A user's own PATCH writes back the role and the status of the copy it works with, and
   so undoes what an administrator has set since (`user_own_role`).  Other columns are
   lost in the same way, and a copy with an address that has since gone to another makes
   every own PATCH end in a 500 for as long as the copy lives.

What the properties of the passing runs name as the only way to a bad state is reached:

- Two concurrent POSTs book one table twice (`DoubleBookingNeedsRace`), or give one user
  two overlapping bookings (`OverlapNeedsRace`): the checks are SELECTs without a lock, and
  no constraint backs them up.
- An active booking can be changed by a PATCH that was already under way (`LockedNeedsRace`).
- Two equal slots of a cafe arise in the same way (`DuplicatesNeedRaces`).
- Cafes, slots and users are invalidated before they are written: a read in between caches
  the old row for its whole life (`late` in `StaleHasCause`, and `CleanFirst` in `SwrCache`).
- An update never invalidates the lists its object is in, a new table invalidates nothing,
  and a cafe's change does not reach the answers about its slots and tables, which show its
  name (`Unreached` in `StaleHasCause`).
- A manager's `show_active=False` has the key of `True`, and the key of a manager's list
  does not name the manager (`OfManager` in `ServedOwnQuery`).
- A booking is reminded once for each of its pairs, because the query of the reminders has
  a join and no DISTINCT, and twice on the border of two windows of an even interval
  (`RepeatedRemindersExplained`).  A window that passes midnight finds nothing, one that
  reaches back to its own run reminds of what has begun (`RemindedInTime`,
  `LateRemindersNeedMidnight`).
- A booking that a PATCH left without pairs gets no mail: the `IndexError` is swallowed
  (the exception in `NothingForgotten`).  The same `except` makes `autoretry_for` dead code.
- A crontab schedule without a time zone is looked up with the schema's default and stored
  with the table's: it is stored again with each request, in another zone than the schema
  promises (the exception in `SchedulesOnce`).
- A schedule or a change of a periodic task that was committed may be answered with a 500:
  `create` and `update` read their row again, the response looks up the schedule of the task
  again, and another request may have removed either, before or in between
  (`ErrorsChangeNothing`).
- Two updates that link a periodic task to different schedules at a time, one to another
  table, one to another id, leave it with the table of one and the id of the other: a
  schedule nobody asked for, or none, or a clocked one for a task that is not `one_off`
  (`relinked` in `PointersAsked`).

Seen while modelling, without a property of its own: a null `username`, `role` or
`is_active` in a PATCH passes the validators and ends in a NOT NULL violation (a 500); one
time of a slot moved past the other ends in a CHECK violation after the cache was cleaned;
two PATCHes can give a periodic task both `args` and `kwargs`, which one request may not,
and `one_off = False` on a clocked task passes; every error of the task API is a 500,
because `get_beat_session` catches its own `HTTPException`s.

## What is proved

`BookingProofs`, for any number of handlers, users, tables, slots, bookings and any day
bounds, from `ConstantsAssumption` (slots have a start before their end, POSTs name at
least one pair) and `NoneAssumption` (`None` is no value):

- `TypeCorrect`, `ConflictCheckSound`, `OverlapCheckSound`: whatever stands in the way of a
  checked request was written during its check.  The inductive invariant is `IInv`: besides the types it needs `Control` (what a
  handler holds at each `pc`), `OwnRows` (an update has loaded only rows of its own
  booking) and `SnapshotFresh` (a booking that nobody else wrote is still as it was
  loaded).  Without `SnapshotFresh` the date a PATCH is checked on could be anything;
  without `OwnRows` an update could delete another booking's rows.
- `DoubleBookingsExplained`, `OverlapsExplained`: the action properties, from `IInv` by
  one case per action; only the two commits can create a clash.
- `SerialSafe`: with one handler and no unchecked update, there is never a double booking
  nor an overlap.

`BookingServiceProofs` goes on from there:

- `LockedStays`, from `Modifiable`: the booking a request has loaded, for which
  `check_can_modify` has let it pass, is not active, and its date is not before the day the
  transaction began; with `SnapshotFresh`, neither is the booking it overwrites, unless
  another request wrote it.
- `MailsTellOwnCommits`, from `OwnCommit`: until another request writes the booking, a request
  that has committed finds it with the status it gave it.  For a PATCH that repeats the
  status it loaded, and so writes none, this rests on `SnapshotFresh`.
- `PairsAreReplaced`, from `OwnRows` and `SnapshotFresh`.
- `ImplementsLedger`: with one handler and no unchecked update, `Booking` implements
  `Reservations`.  `Standing` says the live bookings are compatible reservations, which is
  what `SerialSafe` amounts to; hence the commit that leaves a booking live reserves it,
  one that does not releases it, and every other step leaves the ledger alone.  With more
  handlers `booking_races` shows the clashes that the ledger rules out.

`SwrCacheProofs`, for any numbers of readers, tasks, writes and failures and any times to
live, from `SwrAssumption`:

- `TypeCorrect`, `OneRefresher`.  Types alone are not inductive: a stamp's age grows with
  every tick, and only its sum with the time it has left (`AgeBound`) bounds it.
  `LockHeld` says that as long as no lock went under a refresh, whoever refreshes is alone
  and the lock is there.
- `InvalidationWorks`, `AnswersCurrent`, assuming the service cleans after its write
  (`~CleanFirst`; for the others, `CafeObjects` shows what can be left behind).  The key fact is
  `TagCovers`: a value that raced with nothing is named by a tag that lives at least as
  long, or is about to be tagged.  Hence an invalidation that finds no members leaves
  nothing behind (`NothingMissed`), and what is stored while it runs is marked.

`UserAccountsProofs`, for any users, columns' values, requests and bodies, from
`UserAssumption` (what the schemas let through, and a table that satisfies its own
constraints at the start):

- `TypeCorrect`, `NothingLost`, `ChecksSuffice`, `RolesGiven`: the invariant and the three
  action properties of `user_races`.  The inductive invariant has three parts.  `RowsOK`:
  the committed rows are unique, and `had` knows their roles.  `CopiesOK`: a copy is of an
  earlier row, and of the present one if nothing was written since; without it a cached
  copy could hold anything, a role never given among it.  `RequestOK`: what a request has
  checked still holds if nothing was written since (`Validated`), and what its session
  holds is a row of its target (`Session`).

`RedisClientProofs`, for any number of commands, connections and faults, from
`ClientAssumption`: `TypeCorrect`, `SingleLoop`, `HealthyUsable` and `LossHasCause`.
`OneLoop` and `HealthyIsUsable` are inductive only together: that the loop finds the client
unhealthy keeps commands off its pool, and that there is one loop keeps the client
unhealthy until it has connected.  `Causes` adds what `LostToFaults` needs: nobody holds
the pool that is being pinged, and a broken connection of the present pool has a cause.

`NotificationsProofs`, for a day of any length, any interval and lead time, any workers,
bookings, slots, commits and failures, from `DayAssumption` and `NotificationsAssumption`
(a slot's start is a time of day, the tables are finitely many, the rows requests write and
the plans have their types):

- By arithmetic alone: `WindowIsDistance` (away from midnight the two cut times of day are
  the distance the code means), `NothingAcrossMidnight` (a window that passes midnight is
  empty), `FoundOnce` and `FoundAtMost`: runs that leave no gap of an interval find every
  slot in the middle of the day, and runs an interval apart find it at most
  `Times(interval)` times.  `Inland` is that middle: beside the windows that find the slot,
  no run of the same day that could find it may lie before midnight, which asks for
  `2 * Delta` on the left as well.
- `NotificationsTypeCorrect`, `ContradictionsExplained`, `RepeatsExplained`,
  `NothingIsForgotten` from `MailInv`.  Its parts say what a message in the queue, and the
  message and the row in a worker's hands, may be (`QueueSound`, `WorkersSound`): no event is
  later than the booking's version, the row a worker has read is the one of the version it
  has `seen`, and a message is mailed at most once for each time it was lost.  `Counters`
  bounds what is counted: a booking's version by the commits so far, faults and lost
  workers together by their maximum.
- `RemindersInTime`, `RepeatedRemindersBounded`, `LateRemindersExplained` join the two, and ask
  what the arithmetic takes for granted: that the runs really come an interval apart and see
  the table as it is.  While no run was late (`smooth`), there is one run at a time and it
  was published in this very minute (`OneRun`), so what it has found is what it would find
  now (`RunFresh`).  `RunReminds` says that once a run has come since the window opened, the
  booking was reminded or is about to be; `RunsCounted` that in the first k intervals of a
  window at most k runs have come (`Within`), each of which reminds once for each table,
  those it has still to publish included.  Neither property is inductive without counting
  runs by the time since the window opened: the reminders alone do not tell how many more
  runs can follow.

`CafeObjectsProofs`, for any users, roles, cafes, slots, tables, bodies and numbers of
requests, from `KeysAssumption` and `CafeAssumption`:

- `KeysFaithful`, by cases on the endpoints: requests with one key make one query, but for
  the managers' lists; `AnswersInterchangeable` is that of every cached entry.
- `TypeCorrect`, and `SlotsUnique` from `RaceInv`: a request nobody has overtaken works with
  the row as it is (`Current`) and has seen all slots there are (`Checked`).
- `StaleExplained` from `StaleInv`: what a handler has to clean is what it writes
  (`WriteInv`), a handler that has cleaned and not written is in `during` of an entry
  filled since (`Cleaned`), a write an entry has missed with its own tag is
  one that its handler still has to clean, or whose deletion is pending, or that was late
  (`MissedTag`, `AllCaused`).

`BeatSchedulesProofs`, for any schedules, tasks, bodies, numbers of requests and any of the
library's ways to treat the tasks of a removed schedule, from `BeatAssumption` and
`GivenAssumption` (the tables at the start are such as one request after the other leaves):

- `TypeCorrect`: the inductive invariant adds `Ready`, what a request holds at each place.
- `StoredOnce` from `NothingFound`: a request about to insert, not overtaken since its
  lookup, has looked for what is still not there.
- `UpdatesKeepOthers`, from the types by cases on the step.
- `PointersFromRelinking` from `Copies`: until another request links its task anew, an update
  that is under way holds both columns of the schedule as they are in the table.  Without it
  a column that the UPDATE leaves alone could hold anything by then.
- `ErrorsExplained` from `LinkInv` and `Copies`.  `TasksLinked`: a task has its schedule, or is
  astray.  `UsedLinked`: the schedule a request goes on with, because it has found it for a
  task, stored it, or read it in the refreshed task, is there, or the request was overtaken.
  `Written`: the task a request has committed is there, or was deleted.  `Copies` is what
  carries `UsedLinked` over a commit to `TasksLinked`: what was looked up is what is stored.

So every invariant and every action property the passing runs check is a theorem, and the
refinement of `Reservations` too.  Only model-checked: the liveness properties
`EveryReadEnds`, `LockComesFree`, `EventuallyCurrent` and `ComesBack`, since neither fairness
nor ENABLED is within the prover's reach.

## What is not modelled, and why

Left for an extension of these modules:

- Slots whose times are edited while bookings hold them: `CafeObjects` edits the times,
  `Booking` takes them as constants.  After such an edit a user's bookings can overlap; the
  repository does not say what should become of them.
- The relationships of a user (`bookings`, `managed_cafes`), to which `session.merge`
  cascades, and the pools of database connections of the requests and the workers.
- The shutdown of the Redis client, and `_invalidate` of the SWR cache, which nothing calls.

Not modelled: authentication tokens and password hashing (stateless, in libraries), the
plain cache decorator (no endpoint uses it), media (one file write and one INSERT), logging,
configuration, request schemas beyond what the modelled requests need, migrations, fixtures
and deployment: no state of the service that a model could say more about than the code
does.  In what is modelled, the cafe and the columns no check reads are left out of
`Booking`; a 403, a 404 or a validation error ends a booking request through `Abort`.
Requests on users end where the code ends them; their columns `created_at` and `updated_at`,
which a merge also writes back, are left out.  An explicit null in a PATCH is modelled for
users only.
