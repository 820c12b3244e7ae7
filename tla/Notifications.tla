--------------------------- MODULE Notifications ---------------------------
(***************************************************************************)
(* Mails about bookings: notify_booking_status publishes a task after a    *)
(* commit, Celery Beat publishes the reminder task, and the workers of     *)
(* celery_core run both.  A message is acknowledged after its task has     *)
(* ended and goes back to the queue when its worker is lost.               *)
(*                                                                         *)
(* The booking requests themselves are the module Booking's; here a commit *)
(* is one step that may write any of `Rows`.                               *)
(***************************************************************************)
EXTENDS ReminderWindow, FiniteSets, Bags

CONSTANTS
    Workers,        \* worker processes
    Bookings,       \* bound: ids of bookings
    Slots, Tables,  \* time slots and tables
    SlotTime,       \* start_time of each slot, in minutes
    ActiveSlots,    \* slots with is_active
    Rows,           \* what requests write into a booking
    Plans,          \* the arguments with which the reminder task is scheduled
    Reachable,      \* who has an e-mail address: of "client", "manager"
    MaxToday,       \* bound: the last day
    MaxWrites,      \* bound: commits of booking requests
    MaxFaults,      \* bound: errors of the broker, the database, SMTP; dead requests; lost workers
    None

Statuses == {"BOOKING", "ACTIVE", "CANCELED", "COMPLETED"}
Targets  == {"client", "manager", "both"}
Row  == [date : 0..(MaxToday + 1), pairs : SUBSET (Tables \X Slots), status : Statuses, active : BOOLEAN]
Plan == [before : Nat, interval : Nat \ {0}, target : Targets]

ASSUME NotificationsAssumption ==
    /\ SlotTime \in [Slots -> Minutes] /\ ActiveSlots \subseteq Slots
    /\ Rows \subseteq Row /\ Plans \subseteq Plan
    /\ IsFiniteSet(Tables) /\ Reachable \subseteq {"client", "manager"}
    /\ MaxToday \in Nat /\ MaxWrites \in Nat /\ MaxFaults \in Nat
    /\ None \notin Rows

VARIABLES
    today, minute,  \* the clock
    plan,           \* the schedule of the reminder task
    beatIn,         \* minutes until Celery Beat publishes the next run
    bookings,       \* table bookings: id -> row, None before it is created
    unsent,         \* commits whose request has not published its task yet
    queue,          \* RabbitMQ: the bag of messages that wait for a worker
    worker,         \* what each worker process is doing, with its unacknowledged message
    writes,
    faults, losses, \* of the application or the services it uses; of workers
    version,        \* history: commits to each booking so far
    early,          \* history: slots whose windows were still to open at the last commit
    reminders,      \* history: reminders published for a slot of a booking as it now is
    told,           \* history: the last commit whose data were mailed as a status
    smooth,         \* history: every run so far was done, once, in the minute it was due
    out             \* history: what the last step mailed or published

clock   == <<today, minute, beatIn>>
counts  == <<writes, losses, faults>>
history == <<version, early, reminders, told>>
vars == <<today, minute, plan, beatIn, bookings, unsent, queue, worker, writes, losses,
          faults, version, early, reminders, told, smooth, out>>

-----------------------------------------------------------------------------
(* Messages and workers.                                                   *)

Kinds == {"booking", "modified", "canceled", "reminder"}
Mails == [kind : Kinds, booking : Bookings, target : Targets, event : 0..MaxWrites,
          sent : 0..(MaxFaults + 1), lost : 0..MaxFaults]
Runs  == [kind : {"upcoming"}, lost : 0..MaxFaults]

Upcoming == [kind |-> "upcoming", lost |-> 0]
Notice(b, kind, target, event) ==
    [kind |-> kind, booking |-> b, target |-> target, event |-> event, sent |-> 0, lost |-> 0]

Idle == [at |-> "idle"]
Jobs == {Idle}
        \cup [at : {"send"}, msg : Mails, row : Rows, seen : 0..MaxWrites]
        \cup [at : {"done"}, msg : Mails]
        \cup [at : {"publish"}, msg : Runs, todo : SUBSET (Bookings \X Tables \X Slots),
              known : [Bookings -> 0..MaxWrites]]

At(w, place) == worker[w].at = place
Waiting == BagToSet(queue)

\* A run is under way.
Running == \/ \E m \in Waiting : m.kind = "upcoming"
           \/ \E w \in Workers : ~At(w, "idle") /\ worker[w].msg.kind = "upcoming"

NoOut == [mail |-> None, reminded |-> None]

Publish(m) == queue' = queue (+) SetToBag({m})

\* Mutant of Acknowledge: the message is returned, as a task that is retried is.
AcknowledgeRetry(w) ==
    /\ worker' = [worker EXCEPT ![w] = Idle]
    /\ Publish(worker[w].msg)

\* The message is acknowledged and the worker takes another.
Acknowledge(w) ==
    /\ worker' = [worker EXCEPT ![w] = Idle]
    /\ UNCHANGED queue

Init ==
    /\ today = 0 /\ minute = 0
    /\ plan \in Plans
    /\ beatIn \in 0..(plan.interval - 1)
    /\ bookings = [b \in Bookings |-> None]
    /\ unsent = {}
    /\ queue = EmptyBag
    /\ worker = [w \in Workers |-> Idle]
    /\ writes = 0 /\ losses = 0 /\ faults = 0
    /\ version = [b \in Bookings |-> 0]
    /\ early = [b \in Bookings |-> {}]
    /\ reminders = [b \in Bookings |-> [s \in Slots |-> 0]]
    /\ told = [b \in Bookings |-> 0]
    /\ smooth = TRUE
    /\ out = NoOut

-----------------------------------------------------------------------------
(* A booking request: create or update, then notify_booking_status.        *)

\* The window of no run has reached the slot today.
Ahead(s) == minute < SlotTime[s] - plan.before - Delta(plan.interval)

\* The commit.  check_can_modify leaves active bookings alone; BookingCreate asks
\* for at least one pair, BookingUpdate does not.
Commit(b) ==
    /\ writes < MaxWrites
    /\ bookings[b] # None => bookings[b].status # "ACTIVE"
    /\ \E row \in Rows :
          /\ row.date >= today
          /\ bookings[b] = None => row.status = "BOOKING" /\ row.pairs # {}
          /\ bookings' = [bookings EXCEPT ![b] = row]
    /\ unsent' = unsent \cup {[booking |-> b, new |-> bookings[b] = None, event |-> version[b] + 1]}
    /\ writes' = writes + 1
    /\ version' = [version EXCEPT ![b] = @ + 1]
    /\ early' = [early EXCEPT ![b] = {s \in Slots : bookings'[b].date > today \/ Ahead(s)}]
    /\ reminders' = [reminders EXCEPT ![b] = [s \in Slots |-> 0]]
    /\ out' = NoOut
    /\ UNCHANGED <<clock, plan, queue, worker, losses, faults, told, smooth>>

Silent == {"ACTIVE", "COMPLETED"}

NoticeKind(new, status) ==
    CASE status = "CANCELED" -> "canceled"
      [] status = "BOOKING" /\ new -> "booking"
      [] OTHER -> "modified"

\* The refresh reads the row as it is now, and its status selects the mail.
NotifyBookingStatus(u) ==
    LET row == bookings[u.booking]
    IN  /\ IF row.status \in Silent
           THEN UNCHANGED queue
           ELSE Publish(Notice(u.booking, NoticeKind(u.new, row.status), "both",
                               version[u.booking]))
        /\ unsent' = unsent \ {u}
        /\ out' = NoOut
        /\ UNCHANGED <<clock, plan, bookings, worker, counts, history, smooth>>

\* The request dies after its commit, or the broker refuses the task: the
\* exception is logged and nothing comes of it.
NotifyFails(u) ==
    /\ faults + losses < MaxFaults
    /\ faults' = faults + 1
    /\ unsent' = unsent \ {u}
    /\ out' = NoOut
    /\ UNCHANGED <<clock, plan, bookings, queue, worker, writes, losses, history, smooth>>

-----------------------------------------------------------------------------
(* The clock and Celery Beat.                                              *)

Due == beatIn = 0

\* Mutant of Tick: the clock of a day that does not end.
TickOn ==
    /\ minute' = minute + 1
    /\ beatIn' = IF Due THEN 0 ELSE beatIn - 1
    /\ smooth' = (smooth /\ ~Due /\ ~Running)
    /\ out' = NoOut
    /\ UNCHANGED <<today, plan, bookings, unsent, queue, worker, counts, history>>

\* A minute passes.  A run that is still under way, or has not even been
\* published, is late from now on.
Tick ==
    /\ \/ minute < Day - 1 /\ minute' = minute + 1 /\ UNCHANGED today
       \/ minute = Day - 1 /\ today < MaxToday /\ minute' = 0 /\ today' = today + 1
    /\ beatIn' = IF Due THEN 0 ELSE beatIn - 1
    /\ smooth' = (smooth /\ ~Due /\ ~Running)
    /\ out' = NoOut
    /\ UNCHANGED <<plan, bookings, unsent, queue, worker, counts, history>>

\* The next run is due an interval after this one was published.
Beat ==
    /\ Due
    /\ Publish(Upcoming)
    /\ beatIn' = plan.interval
    /\ out' = NoOut
    /\ UNCHANGED <<today, minute, plan, bookings, unsent, worker, counts, history, smooth>>

-----------------------------------------------------------------------------
(* Workers.                                                                *)

\* A worker takes a message of one of the kinds.  Nobody can tell what the task
\* reads first from when it was taken, so that query belongs to the same step.
Take(w, kinds, Job(_)) ==
    /\ At(w, "idle")
    /\ \E m \in Waiting :
          /\ m.kind \in kinds
          /\ queue' = queue (-) SetToBag({m})
          /\ worker' = [worker EXCEPT ![w] = Job(m)]
    /\ out' = NoOut
    /\ UNCHANGED <<clock, plan, bookings, unsent, counts, history, smooth>>

\* Mutant of Upcomings: canceled bookings are reminded too.
UpcomingsAny ==
    {r \in Bookings \X Tables \X ActiveSlots :
        LET row == bookings[r[1]]
        IN  /\ row # None /\ <<r[2], r[3]>> \in row.pairs
            /\ row.date = today /\ row.active
            /\ InWindow(SlotTime[r[3]], minute, plan.before, plan.interval)}

\* get_upcoming_bookings: the rows of the join, so one for each pair of a booking.
Upcomings ==
    {r \in Bookings \X Tables \X ActiveSlots :
        LET row == bookings[r[1]]
        IN  /\ row # None /\ <<r[2], r[3]>> \in row.pairs
            /\ row.date = today /\ row.status = "BOOKING" /\ row.active
            /\ InWindow(SlotTime[r[3]], minute, plan.before, plan.interval)}

\* send_upcoming_bookings up to the answer of its query; if that is empty, the
\* task returns.
FindUpcoming(w) ==
    Take(w, {"upcoming"}, LAMBDA m :
        IF Upcomings = {} THEN Idle
        ELSE [at |-> "publish", msg |-> m, todo |-> Upcomings, known |-> version])

\* send_notification.delay(booking_id, 'reminder', notify_target)
PublishReminder(w) ==
    /\ At(w, "publish")
    /\ \E r \in worker[w].todo :
          /\ Publish(Notice(r[1], "reminder", plan.target, worker[w].known[r[1]]))
          /\ worker' = [worker EXCEPT ![w].todo = @ \ {r}]
          /\ reminders' = IF worker[w].known[r[1]] = version[r[1]]
                          THEN [reminders EXCEPT ![r[1]][r[3]] = @ + 1] ELSE reminders
          /\ out' = [NoOut EXCEPT !.reminded = r[3]]
    /\ UNCHANGED <<clock, plan, bookings, unsent, counts, version, early, told, smooth>>

FinishUpcoming(w) ==
    /\ At(w, "publish") /\ worker[w].todo = {}
    /\ Acknowledge(w)
    /\ out' = NoOut
    /\ UNCHANGED <<clock, plan, bookings, unsent, counts, history, smooth>>

\* get_booking_with_relations, in a new session; a booking is never deleted.
ReadBooking(w) ==
    Take(w, Kinds, LAMBDA m :
        [at |-> "send", msg |-> m, row |-> bookings[m.booking], seen |-> version[m.booking]])

\* get_emails_recipients, over those who have an address.
Recipients(target) == (IF target = "both" THEN {"client", "manager"} ELSE {target}) \cap Reachable

\* The template shows the start of tables_slots[0], so there has to be a pair;
\* sendmail refuses an empty list of addresses.
Mailable(m, row) == row.pairs # {} /\ Recipients(m.target) # {}

\* The SMTP dialogue.
SendMail(w) ==
    LET m == worker[w].msg
    IN  /\ At(w, "send")
        /\ Mailable(m, worker[w].row)
        /\ worker' = [worker EXCEPT ![w] = [at |-> "done", msg |-> [m EXCEPT !.sent = @ + 1]]]
        /\ told' = IF m.kind # "reminder" /\ worker[w].seen > told[m.booking]
                   THEN [told EXCEPT ![m.booking] = worker[w].seen] ELSE told
        /\ out' = [NoOut EXCEPT !.mail = [kind |-> m.kind, event |-> m.event,
                       seen |-> worker[w].seen, status |-> worker[w].row.status]]
        /\ UNCHANGED <<clock, plan, bookings, unsent, queue, counts, version, early,
                       reminders, smooth>>

FinishMail(w) ==
    /\ At(w, "done")
    /\ Acknowledge(w)
    /\ out' = NoOut
    /\ UNCHANGED <<clock, plan, bookings, unsent, counts, history, smooth>>

\* The IndexError or the refusal is swallowed, and the task ends.
NothingToMail(w) ==
    /\ At(w, "send")
    /\ ~Mailable(worker[w].msg, worker[w].row)
    /\ Acknowledge(w)
    /\ out' = NoOut
    /\ UNCHANGED <<clock, plan, bookings, unsent, counts, history, smooth>>

\* The database, the broker or SMTP fails.  The task swallows the exception, or
\* ends with it while it publishes reminders; either way it is acknowledged.
TaskFails(w) ==
    /\ faults + losses < MaxFaults
    /\ worker[w].at \in {"send", "publish"}
    /\ faults' = faults + 1
    /\ Acknowledge(w)
    /\ smooth' = (smooth /\ worker[w].msg.kind # "upcoming")
    /\ out' = NoOut
    /\ UNCHANGED <<clock, plan, bookings, unsent, writes, losses, history>>

\* Mutant of WorkerLost: without task_reject_on_worker_lost the message goes.
WorkerLostAcked(w) ==
    /\ faults + losses < MaxFaults
    /\ ~At(w, "idle")
    /\ losses' = losses + 1
    /\ Acknowledge(w)
    /\ smooth' = (smooth /\ worker[w].msg.kind # "upcoming")
    /\ out' = NoOut
    /\ UNCHANGED <<clock, plan, bookings, unsent, writes, faults, history>>

\* The worker process is killed and its message goes back to the queue.
WorkerLost(w) ==
    /\ faults + losses < MaxFaults
    /\ ~At(w, "idle")
    /\ losses' = losses + 1
    /\ Publish([worker[w].msg EXCEPT !.lost = @ + 1])
    /\ worker' = [worker EXCEPT ![w] = Idle]
    /\ smooth' = (smooth /\ worker[w].msg.kind # "upcoming")
    /\ out' = NoOut
    /\ UNCHANGED <<clock, plan, bookings, unsent, writes, faults, history>>

-----------------------------------------------------------------------------

Work(w) ==
    \/ PublishReminder(w) \/ FinishUpcoming(w)
    \/ SendMail(w) \/ FinishMail(w) \/ NothingToMail(w)

Notify == \E u \in unsent : NotifyBookingStatus(u)

\* The bound on the clock is reached and all that was published is done.
Stop ==
    /\ today = MaxToday /\ minute = Day - 1
    /\ unsent = {} /\ queue = EmptyBag /\ ~Due /\ \A w \in Workers : At(w, "idle")
    /\ UNCHANGED vars

Next ==
    \/ \E b \in Bookings : Commit(b)
    \/ Notify
    \/ \E u \in unsent : NotifyFails(u)
    \/ Tick \/ Beat
    \/ \E w \in Workers : FindUpcoming(w)
    \/ \E w \in Workers : ReadBooking(w)
    \/ \E w \in Workers : Work(w)
    \/ \E w \in Workers : TaskFails(w)
    \/ \E w \in Workers : WorkerLost(w)
    \/ Stop

Spec == Init /\ [][Next]_vars

-----------------------------------------------------------------------------
(* Properties.                                                             *)

\* Types and bounds of every variable.
TypeOK ==
    /\ today \in 0..MaxToday /\ minute \in Minutes
    /\ plan \in Plans /\ beatIn \in 0..plan.interval
    /\ bookings \in [Bookings -> Rows \cup {None}]
    /\ unsent \subseteq [booking : Bookings, new : BOOLEAN, event : 1..MaxWrites]
    /\ IsABag(queue) /\ Waiting \subseteq Mails \cup Runs
    /\ worker \in [Workers -> Jobs]
    /\ writes \in 0..MaxWrites /\ losses \in 0..MaxFaults /\ faults \in 0..MaxFaults
    /\ version \in [Bookings -> 0..MaxWrites]
    /\ early \in [Bookings -> SUBSET Slots]
    /\ reminders \in [Bookings -> [Slots -> Nat]]
    /\ told \in [Bookings -> 0..MaxWrites] /\ smooth \in BOOLEAN

Contradicts(kind, status) == (kind = "canceled") # (status = "CANCELED") \/ status \in Silent

\* The task reads the booking when it runs, not when it was published: a mail
\* may show data that contradict what it announces (a reminder of a canceled
\* booking), but only if the booking was written again in between.
ContradictionsNeedWrites ==
    out.mail # None /\ Contradicts(out.mail.kind, out.mail.status)
        => out.mail.seen > out.mail.event

\* Late acknowledgement: the same task mails again only after a worker was lost
\* with it in hand, once for each loss.
RepeatsNeedLosses ==
    /\ \A m \in Waiting : m.kind \in Kinds => m.sent <= m.lost
    /\ \A w \in Workers : ~At(w, "idle") /\ worker[w].msg.kind \in Kinds
          => worker[w].msg.sent <= worker[w].msg.lost + IF At(w, "done") THEN 1 ELSE 0

Status(m, b) == m.kind \in Kinds \ {"reminder"} /\ m.booking = b /\ m.event >= version[b]

\* If nothing failed, the last commit of a booking has been told with its data,
\* or the mail about it is still under way: lost workers, and requests that
\* overtake one another, keep no mail back.  (Nothing can be told of a booking
\* that was left without tables.)
NothingForgotten ==
    \A b \in Bookings :
        /\ bookings[b] # None /\ bookings[b].status \notin Silent /\ bookings[b].pairs # {}
        /\ faults = 0 /\ Recipients("both") # {}
        => \/ told[b] = version[b]
           \/ \E u \in unsent : u.booking = b /\ u.event = version[b]
           \/ \E m \in Waiting : Status(m, b)
           \/ \E w \in Workers : At(w, "send") /\ Status(worker[w].msg, b)

HasSlot(b, s) == \E t \in Tables : <<t, s>> \in bookings[b].pairs
Remindable(b) == bookings[b] # None /\ bookings[b].status = "BOOKING" /\ bookings[b].active

\* If no run was late, lost or repeated, a booking that was written before its
\* window opened has been reminded by the time the window is over -- for slots
\* whose windows do not pass midnight.
RemindedInTime ==
    \A b \in Bookings, s \in Slots :
        /\ smooth /\ faults = 0 /\ Remindable(b) /\ HasSlot(b, s)
        /\ bookings[b].date = today /\ s \in ActiveSlots
        /\ Inland(SlotTime[s], plan.before, plan.interval)
        /\ minute > SlotTime[s] - plan.before + Delta(plan.interval)
        /\ s \in early[b]
        => reminders[b][s] > 0

\* If no run was late, lost or repeated, more than one reminder of a slot comes
\* only from several tables, from a minute on the border of two windows, or from
\* a window that passes midnight.
RepeatedRemindersExplained ==
    \A b \in Bookings, s \in Slots :
        smooth /\ Remindable(b) /\ Inland(SlotTime[s], plan.before, plan.interval)
        => reminders[b][s] <= Times(plan.interval)
                              * Cardinality({t \in Tables : <<t, s>> \in bookings[b].pairs})

\* A reminder is published after its slot began only by a run whose window
\* passed midnight, or reached back to the run itself, or by a run that was late.
LateRemindersNeedMidnight ==
    out.reminded # None /\ SlotTime[out.reminded] <= minute
        => \/ PassesMidnight(minute, plan.before, plan.interval)
           \/ plan.before <= Delta(plan.interval)
           \/ ~smooth
=============================================================================
