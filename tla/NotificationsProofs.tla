---------------------------- MODULE NotificationsProofs ----------------------------
(***************************************************************************)
(* Theorems about the reminders' arithmetic and about the mails: which     *)
(* runs of send_upcoming_bookings find a slot, for every schedule of the   *)
(* task, and what the workers tell the customers, for any number of        *)
(* workers, bookings and faults.                                           *)
(***************************************************************************)
EXTENDS Notifications, FiniteSetTheorems, TLAPS

LEMMA DeltaBounds ==
    ASSUME NEW interval \in Nat \ {0}
    PROVE  /\ Delta(interval) \in Nat /\ Delta(interval) >= 1
           /\ 2 * Delta(interval) <= interval + 1
           /\ interval <= 2 * Delta(interval) + 1
  BY DEF Delta

LEMMA TimesBounds ==
    ASSUME NEW interval \in Nat \ {0}
    PROVE  \/ Times(interval) = 1 /\ 2 * Delta(interval) < interval
           \/ Times(interval) = 2 /\ 2 * Delta(interval) = interval
           \/ Times(interval) = 3 /\ interval = 1 /\ Delta(interval) = 1
  <1>1. CASE interval = 1
    BY <1>1 DEF Times, Delta
  <1>2. CASE interval # 1 /\ interval % 2 = 0
    BY <1>2 DEF Times, Delta
  <1>3. CASE interval # 1 /\ interval % 2 # 0
    BY <1>3 DEF Times, Delta
  <1> QED BY <1>1, <1>2, <1>3

\* TimeOfDay around the day of the run.
LEMMA TimeOfDayIs ==
    ASSUME NEW x \in Int
    PROVE  /\ TimeOfDay(x) \in Minutes
           /\ x \in Minutes => TimeOfDay(x) = x
           /\ Day <= x /\ x < 2 * Day => TimeOfDay(x) = x - Day
           /\ 2 * Day <= x /\ x < 3 * Day => TimeOfDay(x) = x - 2 * Day
           /\ -Day <= x /\ x < 0 => TimeOfDay(x) = x + Day
  <1>1. TimeOfDay(x) \in Minutes
    BY DayAssumption DEF TimeOfDay, Minutes
  <1>2. x \in Minutes => TimeOfDay(x) = x
    BY DayAssumption DEF TimeOfDay, Minutes
  <1>3. Day <= x /\ x < 2 * Day => TimeOfDay(x) = x - Day
    BY DayAssumption DEF TimeOfDay
  <1>4. -Day <= x /\ x < 0 => TimeOfDay(x) = x + Day
    BY DayAssumption DEF TimeOfDay
  <1>5. 2 * Day <= x /\ x < 3 * Day => TimeOfDay(x) = x - 2 * Day
    BY DayAssumption DEF TimeOfDay
  <1> QED BY <1>1, <1>2, <1>3, <1>4, <1>5

\* get_upcoming_bookings: away from midnight, a run finds the slots that begin
\* `before` minutes later, give or take delta_size.
THEOREM WindowIsDistance ==
    ASSUME NEW time \in Minutes, NEW now \in Minutes, NEW before \in Nat, NEW interval \in Nat \ {0},
           now + before - Delta(interval) >= 0, ~PassesMidnight(now, before, interval)
    PROVE  InWindow(time, now, before, interval) <=>
               /\ now + before - Delta(interval) <= time
               /\ time <= now + before + Delta(interval)
  <1> DEFINE d == Delta(interval)
  <1>1. d \in Nat
    BY DeltaBounds
  <1>2. now + before - d \in Minutes /\ now + before + d \in Minutes
    BY <1>1, DayAssumption DEF Minutes, PassesMidnight
  <1>3. /\ WindowStart(now, before, interval) = now + before - d
        /\ WindowEnd(now, before, interval) = now + before + d
    BY <1>1, <1>2, TimeOfDayIs DEF WindowStart, WindowEnd, Minutes
  <1> QED BY <1>3 DEF InWindow

\* ... and a run whose window reaches over midnight finds nothing at all, since
\* BETWEEN has its ends in the wrong order.
THEOREM NothingAcrossMidnight ==
    ASSUME NEW time \in Minutes, NEW now \in Minutes, NEW before \in Nat, NEW interval \in Nat \ {0},
           2 * Delta(interval) < Day,
           \/ now + before - Delta(interval) \in Minutes /\ PassesMidnight(now, before, interval)
           \/ now + before - Delta(interval) < 0
    PROVE  ~InWindow(time, now, before, interval)
  <1> DEFINE d == Delta(interval)  start == now + before - d  end == now + before + d
  <1>1. d \in Nat /\ start \in Int /\ end \in Int /\ end = start + 2 * d /\ d >= 1
    BY DeltaBounds DEF Minutes
  <1>2. TimeOfDay(end) < TimeOfDay(start)
    <2>1. CASE start \in Minutes /\ end >= Day
      BY <1>1, <2>1, TimeOfDayIs, DayAssumption DEF Minutes
    <2>2. CASE start < 0
      <3>1. end \in Minutes /\ -Day <= start
        BY <1>1, <2>2, DayAssumption DEF Minutes
      <3> QED BY <1>1, <2>2, <3>1, TimeOfDayIs, DayAssumption DEF Minutes
    <2> QED BY <2>1, <2>2 DEF PassesMidnight
  <1> QED BY <1>1, <1>2, TimeOfDayIs DEF InWindow, WindowStart, WindowEnd, Minutes

\* Only runs at the right distance find a time in the middle of the day.
LEMMA FoundNearby ==
    ASSUME NEW time \in Minutes, NEW now \in Minutes, NEW before \in Nat, NEW interval \in Nat \ {0},
           Inland(time, before, interval), InWindow(time, now, before, interval)
    PROVE  /\ time - before - Delta(interval) <= now
           /\ now <= time - before + Delta(interval)
  <1> DEFINE d == Delta(interval)  start == now + before - d  end == now + before + d
  <1>1. d \in Nat /\ d >= 1 /\ start \in Int /\ end \in Int /\ end = start + 2 * d
    BY DeltaBounds DEF Minutes
  <1>2. time - before - d >= 0 /\ time - 2 * d >= 0 /\ time + 2 * d < Day
    BY DEF Inland
  <1>3. /\ 2 * d < Day /\ now < Day /\ now >= 0 /\ time >= 0 /\ Day \in Nat
        /\ now \in Int /\ time \in Int
    BY <1>1, <1>2, DayAssumption DEF Minutes
  <1>4. TimeOfDay(start) <= time /\ time <= TimeOfDay(end)
    BY DEF InWindow, WindowStart, WindowEnd
  <1>5. CASE start < 0
    BY <1>1, <1>3, <1>5, NothingAcrossMidnight
  <1>6. CASE 0 <= start /\ end < Day
    <2>1. ~PassesMidnight(now, before, interval)
      BY <1>1, <1>3, <1>6 DEF PassesMidnight
    <2> QED BY <1>1, <1>3, <1>6, <2>1, WindowIsDistance
  <1>7. CASE 0 <= start /\ start < Day /\ end >= Day
    <2>1. start \in Minutes /\ PassesMidnight(now, before, interval)
      BY <1>1, <1>3, <1>7 DEF PassesMidnight, Minutes
    <2> QED BY <1>3, <2>1, NothingAcrossMidnight
  <1>8. CASE start >= Day
    <2>1. start < 2 * Day
      BY <1>1, <1>2, <1>3
    <2>2. TimeOfDay(start) = start - Day
      BY <1>1, <1>8, <2>1, TimeOfDayIs
    <2>3. CASE end < 2 * Day
      <3>1. TimeOfDay(end) = end - Day
        BY <1>1, <1>3, <1>8, <2>3, TimeOfDayIs
      <3> QED BY <1>1, <1>2, <1>3, <1>4, <3>1
    <2>4. CASE end >= 2 * Day
      <3>1. TimeOfDay(end) = end - 2 * Day
        BY <1>1, <1>2, <1>3, <2>1, <2>4, TimeOfDayIs
      <3> QED BY <1>1, <1>2, <1>3, <1>4, <2>1, <2>2, <3>1
    <2> QED BY <1>1, <1>3, <2>3, <2>4
  <1> QED BY <1>1, <1>3, <1>5, <1>6, <1>7, <1>8

\* The intervals leave no gap: if the task runs at least once in any `interval`
\* minutes, some run finds a time in the middle of the day.
THEOREM FoundOnce ==
    ASSUME NEW time \in Minutes, NEW before \in Nat, NEW interval \in Nat \ {0},
           Inland(time, before, interval), NEW runs \in SUBSET Int, Gapless(runs, interval)
    PROVE  \E n \in runs : n \in Minutes /\ InWindow(time, n, before, interval)
  <1> DEFINE d == Delta(interval)  x == time - before - d
  <1>1. d \in Nat /\ d >= 1 /\ interval <= 2 * d + 1 /\ x \in Int
    BY DeltaBounds DEF Minutes
  <1>2. x >= 0 /\ time - 2 * d >= 0 /\ time + 2 * d < Day
    BY DEF Inland
  <1>3. PICK n \in runs : x <= n /\ n < x + interval
    BY <1>1 DEF Gapless
  <1>4. n \in Int /\ n <= x + 2 * d
    BY <1>1, <1>3
  <1>5. n \in Minutes
    BY <1>1, <1>2, <1>3, <1>4, DayAssumption DEF Minutes
  <1>6. n + before - d >= 0 /\ ~PassesMidnight(n, before, interval)
    BY <1>1, <1>2, <1>3, <1>4, DayAssumption DEF PassesMidnight, Minutes
  <1>7. n + before - d <= time /\ time <= n + before + d
    BY <1>1, <1>3, <1>4 DEF Minutes
  <1>8. InWindow(time, n, before, interval)
    BY <1>5, <1>6, <1>7, WindowIsDistance
  <1> QED BY <1>5, <1>8

\* How often a time is found: of one run more than Times says, an interval apart
\* or more, one does not find it.  An odd interval over one minute reminds once.
THEOREM FoundAtMost ==
    ASSUME NEW time \in Minutes, NEW before \in Nat, NEW interval \in Nat \ {0},
           Inland(time, before, interval), NEW runs \in SUBSET Minutes, Spaced(runs, interval),
           NEW f \in [0..Times(interval) -> runs],
           \A i \in 1..Times(interval) : f[i - 1] < f[i]
    PROVE  \E i \in 0..Times(interval) : ~InWindow(time, f[i], before, interval)
  <1> SUFFICES ASSUME \A i \in 0..Times(interval) : InWindow(time, f[i], before, interval)
               PROVE  FALSE
    OBVIOUS
  <1> DEFINE d == Delta(interval)  x == time - before - d
  <1>1. d \in Nat /\ d >= 1 /\ x \in Int
    BY DeltaBounds DEF Minutes
  <1>2. Times(interval) \in {1, 2, 3}
    BY TimesBounds
  <1>3. \A i \in 0..Times(interval) : f[i] \in Int /\ x <= f[i] /\ f[i] <= x + 2 * d
    <2> SUFFICES ASSUME NEW i \in 0..Times(interval)
                 PROVE  f[i] \in Int /\ x <= f[i] /\ f[i] <= x + 2 * d
      OBVIOUS
    <2>1. f[i] \in Minutes /\ InWindow(time, f[i], before, interval)
      OBVIOUS
    <2>2. time - before - d <= f[i] /\ f[i] <= time - before + d
      BY <2>1, FoundNearby
    <2> QED BY <1>1, <2>1, <2>2, DayAssumption DEF Minutes
  <1>4. \A i \in 1..Times(interval) : f[i - 1] + interval <= f[i]
    <2> SUFFICES ASSUME NEW i \in 1..Times(interval) PROVE f[i - 1] + interval <= f[i]
      OBVIOUS
    <2>1. i \in 0..Times(interval) /\ i - 1 \in 0..Times(interval)
      BY <1>2
    <2> QED BY <2>1 DEF Spaced
  <1>5. CASE Times(interval) = 1 /\ 2 * d < interval
    <2>1. f[0] + interval <= f[1] /\ x <= f[0] /\ f[1] <= x + 2 * d /\ f[0] \in Int /\ f[1] \in Int
      BY <1>3, <1>4, <1>5
    <2> QED BY <1>1, <1>5, <2>1
  <1>6. CASE Times(interval) = 2 /\ 2 * d = interval
    <2>1. f[0] + interval <= f[1] /\ f[1] + interval <= f[2]
      BY <1>4, <1>6
    <2>2. x <= f[0] /\ f[2] <= x + 2 * d /\ f[0] \in Int /\ f[1] \in Int /\ f[2] \in Int
      BY <1>3, <1>6
    <2> QED BY <1>1, <1>6, <2>1, <2>2
  <1>7. CASE Times(interval) = 3 /\ interval = 1 /\ d = 1
    <2>1. f[0] + interval <= f[1] /\ f[1] + interval <= f[2] /\ f[2] + interval <= f[3]
      BY <1>4, <1>7
    <2>2. x <= f[0] /\ f[3] <= x + 2 * d /\ f[0] \in Int /\ f[1] \in Int /\ f[2] \in Int /\ f[3] \in Int
      BY <1>3, <1>7
    <2> QED BY <1>1, <1>7, <2>1, <2>2
  <1> QED BY <1>5, <1>6, <1>7, TimesBounds
-----------------------------------------------------------------------------
(* The queue.                                                              *)

LEMMA QueueAfterPublish ==
    ASSUME IsABag(queue), NEW m, Publish(m)
    PROVE  /\ IsABag(queue') /\ Waiting' = Waiting \cup {m}
           /\ \A x \in Waiting \ {m} : queue'[x] = queue[x]
           /\ m \notin Waiting => queue'[m] = 1
  BY DEF Publish, IsABag, Waiting, BagToSet, SetToBag, (+)

LEMMA QueueAfterTake ==
    ASSUME IsABag(queue), NEW m \in Waiting, queue' = queue (-) SetToBag({m})
    PROVE  /\ IsABag(queue') /\ Waiting' \subseteq Waiting /\ Waiting \subseteq Waiting' \cup {m}
           /\ \A x \in Waiting \ {m} : queue'[x] = queue[x]
           /\ queue[m] = 1 => m \notin Waiting'
  BY DEF IsABag, Waiting, BagToSet, SetToBag, (-)

LEMMA EmptyQueue == IsABag(EmptyBag) /\ BagToSet(EmptyBag) = {}
  BY DEF IsABag, BagToSet, SetToBag, EmptyBag

-----------------------------------------------------------------------------
(* Messages, and what the workers hold.                                    *)

Messages == Mails \cup Runs

LEMMA KindTells ==
    ASSUME NEW m \in Messages
    PROVE  /\ m.kind \in Kinds <=> m \in Mails
           /\ m.kind = "upcoming" <=> m \in Runs
  BY DEF Messages, Mails, Runs, Kinds

LEMMA JobTypes ==
    ASSUME NEW j \in Jobs
    PROVE  /\ j.at \in {"idle", "send", "done", "publish"}
           /\ j.at = "idle" <=> j = Idle
           /\ j.at = "send" => j.msg \in Mails /\ j.row \in Rows /\ j.seen \in 0..MaxWrites
           /\ j.at = "done" => j.msg \in Mails
           /\ j.at = "publish" => /\ j.msg \in Runs /\ j.todo \in SUBSET (Bookings \X Tables \X Slots)
                                  /\ j.known \in [Bookings -> 0..MaxWrites]
           /\ j # Idle => j.msg \in Messages
  BY DEF Jobs, Idle, Messages

\* What is announced has been written, and was no contradiction of the booking as it
\* then was; a status goes to both.
Sound(m) ==
    /\ m.lost <= losses
    /\ m.kind \in Kinds =>
          /\ bookings[m.booking] # None
          /\ m.event <= version[m.booking]
          /\ m.event = version[m.booking] => ~Contradicts(m.kind, bookings[m.booking].status)
          /\ m.kind # "reminder" => m.target = "both"

\* A waiting mail was sent at most once for each worker lost with it.
Queueable(m) == Sound(m) /\ (m.kind \in Kinds => m.sent <= m.lost)

\* What a worker has read is a state of the booking since the announcement.
JobSound(j) ==
    /\ j.at # "idle" => Sound(j.msg)
    /\ j.at = "send" =>
          /\ j.msg.sent <= j.msg.lost
          /\ j.msg.event <= j.seen /\ j.seen <= version[j.msg.booking]
          /\ j.seen = version[j.msg.booking] => j.row = bookings[j.msg.booking]
          /\ j.seen = j.msg.event => ~Contradicts(j.msg.kind, j.row.status)
    /\ j.at = "done" => j.msg.sent <= j.msg.lost + 1
    /\ j.at = "publish" => \A r \in j.todo :
          /\ bookings[r[1]] # None /\ j.known[r[1]] <= version[r[1]]
          /\ j.known[r[1]] = version[r[1]] => bookings[r[1]].status = "BOOKING"

Counters ==
    /\ losses + faults <= MaxFaults
    /\ \A b \in Bookings : version[b] <= writes /\ told[b] <= version[b]
    /\ \A u \in unsent : bookings[u.booking] # None

QueueSound == \A m \in Waiting : Queueable(m)
WorkersSound == \A w \in Workers : JobSound(worker[w])

MailInv == TypeOK /\ Counters /\ QueueSound /\ WorkersSound

LEMMA InitMail == Init => MailInv
<1> SUFFICES ASSUME Init PROVE MailInv
    OBVIOUS
<1>1. Waiting = {}
    BY EmptyQueue DEF Init, Waiting
<1>2. plan \in Plan /\ beatIn \in 0..plan.interval
    BY NotificationsAssumption DEF Init, Plan
<1>3. \A w \in Workers : worker[w] = Idle
    BY DEF Init
<1>4. TypeOK
    BY <1>1, <1>2, EmptyQueue, NotificationsAssumption, DayAssumption DEF Init, TypeOK, Minutes, Jobs
<1>5. Counters
    BY NotificationsAssumption DEF Init, Counters
<1> QED
    BY <1>1, <1>3, <1>4, <1>5 DEF MailInv, QueueSound, WorkersSound, JobSound, Idle

\* A commit is the next version of a booking, and only a commit changes it.
LEMMA WritesMoveOn ==
    ASSUME MailInv, Next
    PROVE  /\ losses \in Nat /\ losses' \in Nat /\ losses <= losses'
           /\ \A b \in Bookings :
                 /\ bookings[b] # None => bookings'[b] # None
                 /\ version[b] \in Nat /\ version'[b] \in Nat /\ version[b] <= version'[b]
                 /\ version'[b] = version[b] => bookings'[b] = bookings[b]
<1>1. TypeOK /\ losses \in Nat /\ \A b \in Bookings : version[b] \in Nat
    BY NotificationsAssumption DEF MailInv, TypeOK
<1>2. CASE \E b \in Bookings : Commit(b)
    BY <1>1, <1>2, NotificationsAssumption DEF Commit, TypeOK
<1>3. CASE UNCHANGED <<bookings, version>> /\ losses' \in {losses, losses + 1}
    BY <1>1, <1>3
<1>4. ASSUME ~(\E b \in Bookings : Commit(b)) PROVE UNCHANGED <<bookings, version>> /\ losses' \in {losses, losses + 1}
    BY <1>4 DEF Next, Notify, NotifyBookingStatus, NotifyFails, Tick, Beat, FindUpcoming, ReadBooking, Take,
       Work, PublishReminder, FinishUpcoming, SendMail, FinishMail, NothingToMail, TaskFails, WorkerLost, Stop,
       counts, history, vars
<1> QED
    BY <1>2, <1>3, <1>4

LEMMA SoundStays ==
    ASSUME MailInv, Next
    PROVE  /\ \A m \in Messages : Sound(m) => Sound(m)'
           /\ \A m \in Messages : Queueable(m) => Queueable(m)'
           /\ \A j \in Jobs : JobSound(j) => JobSound(j)'
<1>1. ASSUME NEW m \in Messages, Sound(m) PROVE Sound(m)'
  <2>1. m.lost \in Nat /\ m.lost <= losses'
    BY <1>1, WritesMoveOn DEF Sound, Messages, Mails, Runs
  <2>2. CASE m.kind \in Kinds
    <3>1. m.booking \in Bookings /\ m.event \in Nat
      BY <2>2, KindTells DEF Mails
    <3> QED
      BY <1>1, <2>1, <2>2, <3>1, WritesMoveOn DEF Sound
  <2> QED
    BY <2>1, <2>2 DEF Sound
<1>2. ASSUME NEW j \in Jobs, JobSound(j) PROVE JobSound(j)'
  <2>1. j.at # "idle" => Sound(j.msg)'
    BY <1>1, <1>2, JobTypes DEF JobSound
  <2>2. CASE j.at = "send"
    <3>1. j.msg.booking \in Bookings /\ j.msg.event \in Nat /\ j.seen \in Nat
      BY <2>2, JobTypes DEF Mails
    <3> QED
      BY <1>2, <2>1, <2>2, <3>1, WritesMoveOn DEF JobSound
  <2>3. CASE j.at = "publish"
    <3>1. \A r \in j.todo : r[1] \in Bookings /\ j.known[r[1]] \in Nat
      BY <2>3, JobTypes
    <3> QED
      BY <1>2, <2>1, <2>3, <3>1, WritesMoveOn DEF JobSound
  <2> QED
    BY <1>2, <2>1, <2>2, <2>3 DEF JobSound
<1> QED
    BY <1>1, <1>2 DEF Queueable

QueueOK   == IsABag(queue) /\ Waiting \subseteq Messages /\ QueueSound
WorkersOK == worker \in [Workers -> Jobs] /\ WorkersSound

LEMMA Publishing ==
    ASSUME MailInv, Next, NEW m \in Messages, Queueable(m)', Publish(m)
    PROVE  QueueOK'
<1>1. IsABag(queue') /\ Waiting' = Waiting \cup {m}
    BY QueueAfterPublish DEF MailInv, TypeOK
<1> QED
    BY <1>1, SoundStays DEF MailInv, TypeOK, QueueOK, QueueSound, Messages

LEMMA Keeping ==
    ASSUME MailInv, Next, UNCHANGED queue
    PROVE  QueueOK'
<1>1. Waiting' = Waiting
    BY DEF Waiting
<1> QED
    BY <1>1, SoundStays DEF MailInv, TypeOK, QueueOK, QueueSound, Messages

LEMMA Turning ==
    ASSUME MailInv, Next, NEW w \in Workers, NEW j \in Jobs, JobSound(j)', worker' = [worker EXCEPT ![w] = j]
    PROVE  WorkersOK'
  BY SoundStays DEF MailInv, TypeOK, WorkersOK, WorkersSound

LEMMA Idling ==
    ASSUME MailInv, Next
    PROVE  /\ UNCHANGED worker => WorkersOK'
           /\ \A w \in Workers : worker' = [worker EXCEPT ![w] = Idle] => WorkersOK'
<1>1. Idle \in Jobs /\ JobSound(Idle)'
    BY DEF Jobs, Idle, JobSound
<1>2. UNCHANGED worker => WorkersOK'
    BY SoundStays DEF MailInv, TypeOK, WorkersOK, WorkersSound
<1> QED
    BY <1>1, <1>2, Turning

\* A worker that takes a message holds one of the kinds it asked for, as it waited.
LEMMA Taking ==
    ASSUME MailInv, Next, NEW w \in Workers, NEW m \in Waiting, NEW j \in Jobs, JobSound(j)',
           queue' = queue (-) SetToBag({m}), worker' = [worker EXCEPT ![w] = j]
    PROVE  QueueOK' /\ WorkersOK'
<1>1. IsABag(queue') /\ Waiting' \subseteq Waiting
    BY QueueAfterTake DEF MailInv, TypeOK
<1>2. QueueOK'
    BY <1>1, SoundStays DEF MailInv, TypeOK, QueueOK, QueueSound, Messages
<1> QED
    BY <1>2, Turning

LEMMA WaitingSound ==
    ASSUME MailInv, Next, NEW m \in Waiting
    PROVE  m \in Messages /\ Queueable(m) /\ Queueable(m)'
  BY SoundStays DEF MailInv, TypeOK, QueueSound, Messages

LEMMA HeldSound ==
    ASSUME MailInv, Next, NEW w \in Workers, NEW j, j = worker[w]
    PROVE  j \in Jobs /\ JobSound(j) /\ JobSound(j)'
<1>1. j \in Jobs /\ JobSound(j)
    BY DEF MailInv, TypeOK, WorkersSound
<1> QED
    BY <1>1, SoundStays

\* Every step leaves the queue and the workers sound.
LEMMA DeliveryStep == ASSUME MailInv, Next PROVE QueueOK' /\ WorkersOK'
<1>1. CASE UNCHANGED <<queue, worker>>
    BY <1>1, Keeping, Idling
<1>2. ASSUME NEW u \in unsent, NotifyBookingStatus(u) PROVE QueueOK' /\ WorkersOK'
  <2>1. UNCHANGED worker /\ WorkersOK'
    BY <1>2, Idling DEF NotifyBookingStatus
  <2>2. CASE UNCHANGED queue
    BY <2>1, <2>2, Keeping
  <2>3. CASE ~UNCHANGED queue
    <3>1. PICK b, m : /\ b = u.booking
                      /\ m = Notice(b, NoticeKind(u.new, bookings[b].status), "both", version[b])
      OBVIOUS
    <3>2. /\ b \in Bookings /\ bookings[b] # None /\ bookings[b].status \notin Silent
          /\ bookings[b] \in Row /\ version[b] \in 0..MaxWrites
      BY <1>2, <2>3, <3>1, NotificationsAssumption DEF NotifyBookingStatus, MailInv, TypeOK, Counters
    <3>3. bookings[b].status \in {"BOOKING", "CANCELED"}
      BY <3>2 DEF Row, Statuses, Silent
    <3>4. NoticeKind(u.new, bookings[b].status) \in {"booking", "modified", "canceled"}
          /\ ~Contradicts(NoticeKind(u.new, bookings[b].status), bookings[b].status)
      BY <3>2, <3>3 DEF NoticeKind, Contradicts
    <3>5. m \in Mails /\ m.lost = 0 /\ m.sent = 0
      BY <3>1, <3>2, <3>4, NotificationsAssumption DEF Notice, Mails, Kinds, Targets
    <3>6. losses' \in Nat /\ bookings' = bookings /\ version' = version
      BY <1>2, WritesMoveOn DEF NotifyBookingStatus, history
    <3>7. Queueable(m)'
      BY <3>1, <3>2, <3>4, <3>5, <3>6 DEF Queueable, Sound, Notice
    <3>8. Publish(m)
      BY <1>2, <2>3, <3>1 DEF NotifyBookingStatus
    <3> QED
      BY <2>1, <3>5, <3>7, <3>8, Publishing DEF Messages
  <2> QED
    BY <2>2, <2>3
<1>3. CASE Beat
  <2>1. PICK m : m = Upcoming
    OBVIOUS
  <2>2. m \in Messages /\ m.lost = 0 /\ m.kind \notin Kinds
    BY <2>1, NotificationsAssumption DEF Upcoming, Messages, Runs, Kinds
  <2>3. Queueable(m)'
    BY <2>2, WritesMoveOn DEF Queueable, Sound
  <2> QED
    BY <1>3, <2>1, <2>2, <2>3, Publishing, Idling DEF Beat
<1>4. ASSUME NEW w \in Workers, FindUpcoming(w) PROVE QueueOK' /\ WorkersOK'
  <2>1. PICK m, T, V, j :
          /\ m \in Waiting /\ T = Upcomings /\ V = version
          /\ j = IF T = {} THEN Idle ELSE [at |-> "publish", msg |-> m, todo |-> T, known |-> V]
          /\ m.kind = "upcoming"
          /\ queue' = queue (-) SetToBag({m}) /\ worker' = [worker EXCEPT ![w] = j]
    BY <1>4 DEF FindUpcoming, Take
  <2>2. m \in Runs /\ Sound(m)'
    BY <2>1, WaitingSound, KindTells DEF Queueable
  <2>3. T \subseteq Bookings \X Tables \X Slots /\ V \in [Bookings -> 0..MaxWrites]
    BY <2>1, NotificationsAssumption DEF Upcomings, MailInv, TypeOK
  <2>4. j \in Jobs
    BY <2>1, <2>2, <2>3 DEF Jobs
  <2>5. bookings' = bookings /\ version' = version
    BY <1>4 DEF FindUpcoming, Take, history
  <2>6. ASSUME NEW r \in T
        PROVE  /\ bookings[r[1]] # None /\ V[r[1]] = version[r[1]] /\ version[r[1]] \in Nat
               /\ bookings[r[1]].status = "BOOKING"
    BY <2>1, <2>3, WritesMoveOn DEF Upcomings
  <2>7. JobSound(j)'
    BY <2>1, <2>2, <2>5, <2>6 DEF JobSound, Idle
  <2> QED
    BY <2>1, <2>4, <2>7, Taking
<1>5. ASSUME NEW w \in Workers, ReadBooking(w) PROVE QueueOK' /\ WorkersOK'
  <2>1. PICK m, j :
          /\ m \in Waiting
          /\ j = [at |-> "send", msg |-> m, row |-> bookings[m.booking], seen |-> version[m.booking]]
          /\ m.kind \in Kinds
          /\ queue' = queue (-) SetToBag({m}) /\ worker' = [worker EXCEPT ![w] = j]
    BY <1>5 DEF ReadBooking, Take
  <2>2. m \in Mails /\ Queueable(m) /\ Queueable(m)'
    BY <2>1, WaitingSound, KindTells
  <2>3. /\ m.booking \in Bookings /\ m.event \in Nat /\ bookings[m.booking] \in Rows
        /\ version[m.booking] \in 0..MaxWrites
    BY <2>1, <2>2, NotificationsAssumption DEF Queueable, Sound, Mails, MailInv, TypeOK
  <2>4. j \in Jobs
    BY <2>1, <2>2, <2>3 DEF Jobs
  <2>5. bookings' = bookings /\ version' = version
    BY <1>5 DEF ReadBooking, Take, history
  <2>6. JobSound(j)'
    BY <2>1, <2>2, <2>3, <2>5 DEF JobSound, Queueable, Sound
  <2> QED
    BY <2>1, <2>4, <2>6, Taking
<1>6. ASSUME NEW w \in Workers, PublishReminder(w) PROVE QueueOK' /\ WorkersOK'
  <2>1. PICK j : j = worker[w]
    OBVIOUS
  <2>2. PICK r, m, i :
          /\ r \in j.todo
          /\ m = Notice(r[1], "reminder", plan.target, j.known[r[1]])
          /\ i = [j EXCEPT !.todo = @ \ {r}]
          /\ Publish(m) /\ worker' = [worker EXCEPT ![w] = i]
    BY <1>6, <2>1 DEF PublishReminder, MailInv, TypeOK
  <2>3. j \in Jobs /\ JobSound(j) /\ JobSound(j)' /\ j.at = "publish"
    BY <1>6, <2>1, HeldSound DEF PublishReminder, At
  <2>4. r[1] \in Bookings /\ j.known[r[1]] \in 0..MaxWrites
    BY <2>2, <2>3, JobTypes
  <2>5. plan \in Plan
    BY NotificationsAssumption DEF MailInv, TypeOK
  <2>6. m \in Mails /\ m.lost = 0 /\ m.sent = 0
    BY <2>2, <2>4, <2>5, NotificationsAssumption DEF Notice, Mails, Kinds, Plan
  <2>7. Queueable(m)'
    BY <2>2, <2>3, <2>4, <2>6, WritesMoveOn DEF Queueable, Sound, JobSound, Notice, Contradicts, Silent
  <2>8. i \in Jobs /\ JobSound(i)'
    <3>1. j \in [at : {"publish"}, msg : Runs, todo : SUBSET (Bookings \X Tables \X Slots),
                 known : [Bookings -> 0..MaxWrites]]
      BY <2>3 DEF Jobs, Idle
    <3>2. /\ i.at = "publish" /\ i.msg = j.msg /\ i.todo = j.todo \ {r} /\ i.known = j.known
          /\ i \in Jobs
      BY <2>2, <3>1 DEF Jobs
    <3> QED
      BY <2>3, <3>2 DEF JobSound
  <2> QED
    BY <2>2, <2>6, <2>7, <2>8, Publishing, Turning DEF Messages
<1>7. ASSUME NEW w \in Workers, FinishUpcoming(w) \/ FinishMail(w) \/ NothingToMail(w) \/ TaskFails(w)
      PROVE  QueueOK' /\ WorkersOK'
    BY <1>7, Keeping, Idling DEF FinishUpcoming, FinishMail, NothingToMail, TaskFails, Acknowledge
<1>8. ASSUME NEW w \in Workers, SendMail(w) PROVE QueueOK' /\ WorkersOK'
  <2>1. PICK j, m, i :
          /\ j = worker[w] /\ m = [j.msg EXCEPT !.sent = @ + 1] /\ i = [at |-> "done", msg |-> m]
          /\ worker' = [worker EXCEPT ![w] = i]
    BY <1>8 DEF SendMail
  <2>2. j \in Jobs /\ JobSound(j) /\ JobSound(j)' /\ j.at = "send"
    BY <1>8, <2>1, HeldSound DEF SendMail, At
  <2>3. j.msg \in Mails /\ j.msg.sent <= j.msg.lost /\ j.msg.lost <= MaxFaults /\ Sound(j.msg)'
    BY <2>2, JobTypes DEF JobSound, Mails
  <2>4. m \in Mails /\ i \in Jobs
    BY <2>1, <2>3, NotificationsAssumption DEF Mails, Jobs
  <2>5. Sound(m)' /\ m.sent <= m.lost + 1
    BY <2>1, <2>3, <2>4 DEF Sound, Mails
  <2>6. JobSound(i)'
    BY <2>1, <2>5 DEF JobSound
  <2> QED
    BY <1>8, <2>1, <2>4, <2>6, Keeping, Turning DEF SendMail
<1>9. ASSUME NEW w \in Workers, WorkerLost(w) PROVE QueueOK' /\ WorkersOK'
  <2>1. PICK j, m :
          /\ j = worker[w] /\ m = [j.msg EXCEPT !.lost = @ + 1]
          /\ Publish(m) /\ worker' = [worker EXCEPT ![w] = Idle]
    BY <1>9 DEF WorkerLost
  <2>2. j \in Jobs /\ JobSound(j) /\ JobSound(j)' /\ j.at # "idle" /\ j.msg \in Messages
    BY <1>9, <2>1, HeldSound, JobTypes DEF WorkerLost, At
  <2>3. Sound(j.msg) /\ Sound(j.msg)'
    BY <2>2 DEF JobSound
  <2>4. j.msg.lost \in Nat /\ losses' = losses + 1 /\ losses + 1 <= MaxFaults /\ losses \in Nat
    BY <1>9, <2>2, NotificationsAssumption DEF WorkerLost, Messages, Mails, Runs, MailInv, TypeOK
  <2>5. m \in Messages /\ m.kind = j.msg.kind /\ m.lost = j.msg.lost + 1 /\ m.lost <= losses'
    BY <2>1, <2>2, <2>3, <2>4, NotificationsAssumption DEF Messages, Mails, Runs, Sound
  <2>6. CASE m.kind \in Kinds
    <3>1. j.msg \in Mails /\ j.at \in {"send", "done"}
      BY <2>2, <2>5, <2>6, KindTells, JobTypes DEF Kinds, Runs
    <3>2. m.booking = j.msg.booking /\ m.event = j.msg.event /\ m.target = j.msg.target /\ m.sent = j.msg.sent
      BY <2>1, <3>1 DEF Mails
    <3>3. j.msg.sent <= j.msg.lost + 1
      BY <2>2, <3>1 DEF JobSound, Mails
    <3>4. Queueable(m)'
      BY <2>3, <2>5, <2>6, <3>2, <3>3 DEF Queueable, Sound
    <3> QED
      BY <2>1, <2>5, <3>4, Publishing, Idling
  <2>7. CASE m.kind \notin Kinds
    BY <2>1, <2>5, <2>7, Publishing, Idling DEF Queueable, Sound
  <2> QED
    BY <2>6, <2>7
<1>10. ASSUME NEW u \in unsent, NotifyFails(u) PROVE UNCHANGED <<queue, worker>>
    BY <1>10 DEF NotifyFails
<1>11. ASSUME NEW b \in Bookings, Commit(b) PROVE UNCHANGED <<queue, worker>>
    BY <1>11 DEF Commit
<1>12. ASSUME Tick \/ Stop PROVE UNCHANGED <<queue, worker>>
    BY <1>12 DEF Tick, Stop, vars
<1> QED
    BY <1>1, <1>2, <1>3, <1>4, <1>5, <1>6, <1>7, <1>8, <1>9, <1>10, <1>11, <1>12 DEF Next, Notify, Work

-----------------------------------------------------------------------------
(* Types, and what may be mailed.                                          *)

\* The variables beside the queue and the workers.
TablesOK ==
    /\ today \in 0..MaxToday /\ minute \in Minutes
    /\ plan \in Plans /\ beatIn \in 0..plan.interval
    /\ bookings \in [Bookings -> Rows \cup {None}]
    /\ unsent \subseteq [booking : Bookings, new : BOOLEAN, event : 1..MaxWrites]
    /\ writes \in 0..MaxWrites /\ losses \in 0..MaxFaults /\ faults \in 0..MaxFaults
    /\ version \in [Bookings -> 0..MaxWrites]
    /\ early \in [Bookings -> SUBSET Slots]
    /\ reminders \in [Bookings -> [Slots -> Nat]]
    /\ told \in [Bookings -> 0..MaxWrites] /\ smooth \in BOOLEAN

LEMMA TablesStep == ASSUME MailInv, Next PROVE TablesOK' /\ Counters'
<1> USE NotificationsAssumption DEF MailInv
<1>0. /\ TablesOK /\ Counters /\ plan \in Plan
      /\ losses \in Nat /\ faults \in Nat /\ writes \in Nat
    BY DEF TypeOK, TablesOK
<1>1. ASSUME NEW b \in Bookings, Commit(b) PROVE TablesOK' /\ Counters'
  <2>1. /\ writes' = writes + 1 /\ writes' \in 0..MaxWrites /\ version[b] <= writes
        /\ version' = [version EXCEPT ![b] = @ + 1] /\ version[b] + 1 \in 1..MaxWrites
    BY <1>0, <1>1 DEF Commit, TablesOK, Counters
  <2>2. PICK row \in Rows : bookings' = [bookings EXCEPT ![b] = row]
    BY <1>1 DEF Commit
  <2>3. unsent' = unsent \cup {[booking |-> b, new |-> bookings[b] = None, event |-> version[b] + 1]}
    BY <1>1 DEF Commit
  <2>4. /\ early' \in [Bookings -> SUBSET Slots]
        /\ reminders' \in [Bookings -> [Slots -> Nat]]
    BY <1>0, <1>1 DEF Commit, TablesOK
  <2>5. TablesOK'
    <3>1. UNCHANGED <<today, minute, beatIn, plan, losses, faults, told, smooth>>
      BY <1>1 DEF Commit, clock
    <3>2. bookings' \in [Bookings -> Rows \cup {None}]
      BY <1>0, <2>2 DEF TablesOK
    <3>3. unsent' \subseteq [booking : Bookings, new : BOOLEAN, event : 1..MaxWrites]
      <4>1. PICK e \in 1..MaxWrites : e = version[b] + 1
        BY <2>1
      <4>2. (bookings[b] = None) \in BOOLEAN
        OBVIOUS
      <4>3. [booking |-> b, new |-> bookings[b] = None, event |-> e]
              \in [booking : Bookings, new : BOOLEAN, event : 1..MaxWrites]
        BY <4>2, Zenon
      <4> QED
        BY <1>0, <2>3, <4>1, <4>3 DEF TablesOK
    <3>4. version' \in [Bookings -> 0..MaxWrites]
      BY <1>0, <2>1 DEF TablesOK
    <3> QED
      BY <1>0, <2>1, <2>4, <3>1, <3>2, <3>3, <3>4 DEF TablesOK
  <2>6. Counters'
    <3>1. \A c \in Bookings : version'[c] <= writes' /\ told'[c] <= version'[c]
      BY <1>0, <1>1, <2>1 DEF Commit, TablesOK, Counters
    <3>2. \A u \in unsent' : bookings'[u.booking] # None
      BY <1>0, <1>1, <2>2, <2>3 DEF TablesOK, Counters
    <3> QED
      BY <1>0, <1>1, <3>1, <3>2 DEF Commit, Counters
  <2> QED
    BY <2>5, <2>6
<1>2. ASSUME NEW u \in unsent, NotifyBookingStatus(u) \/ NotifyFails(u) PROVE TablesOK' /\ Counters'
    BY <1>0, <1>2 DEF NotifyBookingStatus, NotifyFails, clock, counts, history, TablesOK, Counters
<1>3. CASE Tick
  <2>1. minute' \in Minutes /\ today' \in 0..MaxToday /\ beatIn' \in 0..plan.interval
    BY <1>0, <1>3, DayAssumption DEF Tick, TablesOK, Minutes, Due, Plan
  <2>2. smooth' \in BOOLEAN
    BY <1>3 DEF Tick
  <2> QED
    BY <1>0, <1>3, <2>1, <2>2 DEF Tick, counts, history, TablesOK, Counters
<1>4. CASE Beat
    BY <1>0, <1>4 DEF Beat, counts, history, TablesOK, Counters, Plan
<1>5. ASSUME NEW w \in Workers, FindUpcoming(w) \/ ReadBooking(w) PROVE TablesOK' /\ Counters'
  <2>1. UNCHANGED <<clock, plan, bookings, unsent, counts, history, smooth>>
    BY <1>5 DEF FindUpcoming, ReadBooking, Take
  <2> QED
    BY <1>0, <2>1 DEF clock, counts, history, TablesOK, Counters
<1>6. ASSUME NEW w \in Workers, PublishReminder(w) PROVE TablesOK' /\ Counters'
  <2>1. reminders' \in [Bookings -> [Slots -> Nat]]
    <3>1. PICK r \in worker[w].todo : reminders' \in {reminders, [reminders EXCEPT ![r[1]][r[3]] = @ + 1]}
      BY <1>6 DEF PublishReminder
    <3>2. worker[w] \in Jobs /\ worker[w].at = "publish"
      BY <1>6 DEF PublishReminder, At, TypeOK
    <3>3. PICK b \in Bookings, s \in Slots : b = r[1] /\ s = r[3]
      BY <3>2, JobTypes
    <3>4. reminders' \in {reminders, [reminders EXCEPT ![b][s] = @ + 1]}
      BY <3>1, <3>3
    <3>5. reminders \in [Bookings -> [Slots -> Nat]]
      BY <1>0 DEF TablesOK
    <3> QED
      BY <3>4, <3>5
  <2> QED
    BY <1>0, <1>6, <2>1 DEF PublishReminder, clock, counts, TablesOK, Counters
<1>7. ASSUME NEW w \in Workers, FinishUpcoming(w) \/ FinishMail(w) \/ NothingToMail(w)
      PROVE  TablesOK' /\ Counters'
    BY <1>0, <1>7 DEF FinishUpcoming, FinishMail, NothingToMail, clock, counts, history, TablesOK, Counters
<1>8. ASSUME NEW w \in Workers, SendMail(w) PROVE TablesOK' /\ Counters'
  <2>1. PICK j : j = worker[w]
    OBVIOUS
  <2>2. j \in Jobs /\ JobSound(j) /\ j.at = "send"
    BY <1>8, <2>1, HeldSound DEF SendMail, At
  <2>3. j.msg.booking \in Bookings /\ j.seen \in 0..MaxWrites /\ j.seen <= version[j.msg.booking]
    BY <2>2, JobTypes DEF JobSound, Mails
  <2>4. told' \in {told, [told EXCEPT ![j.msg.booking] = j.seen]}
    BY <1>8, <2>1 DEF SendMail
  <2>5. told' \in [Bookings -> 0..MaxWrites] /\ \A b \in Bookings : told'[b] <= version[b]
    BY <1>0, <2>3, <2>4 DEF TablesOK, Counters
  <2> QED
    BY <1>0, <1>8, <2>5 DEF SendMail, clock, counts, TablesOK, Counters
<1>9. ASSUME NEW w \in Workers, TaskFails(w) \/ WorkerLost(w) PROVE TablesOK' /\ Counters'
  <2>1. smooth' \in BOOLEAN
    BY <1>9 DEF TaskFails, WorkerLost
  <2> QED
    BY <1>0, <1>9, <2>1 DEF TaskFails, WorkerLost, clock, history, TablesOK, Counters
<1>10. CASE Stop
    BY <1>0, <1>10 DEF Stop, vars, TablesOK, Counters
<1> QED
    BY <1>1, <1>2, <1>3, <1>4, <1>5, <1>6, <1>7, <1>8, <1>9, <1>10 DEF Next, Notify, Work

LEMMA MailNext == MailInv /\ [Next]_vars => MailInv'
<1>1. ASSUME MailInv, Next PROVE MailInv'
    BY <1>1, TablesStep, DeliveryStep DEF TablesOK, QueueOK, WorkersOK, MailInv, TypeOK, Messages
<1>2. ASSUME MailInv, UNCHANGED vars PROVE MailInv'
    BY <1>2 DEF vars, MailInv, TypeOK, Counters, QueueSound, WorkersSound, Queueable, Sound, JobSound, Waiting
<1> QED
    BY <1>1, <1>2

LEMMA MailInvariance == Spec => []MailInv
  BY InitMail, MailNext, PTL DEF Spec

\* Types and bounds of the queue, the workers and the tables.
THEOREM NotificationsTypeCorrect == Spec => []TypeOK
  BY MailInvariance, PTL DEF MailInv

LEMMA OutTells ==
    ASSUME Next
    PROVE  \/ out' = NoOut \/ out' = out
           \/ \E w \in Workers : SendMail(w)
           \/ \E w \in Workers : PublishReminder(w)
  BY DEF Next, Commit, Notify, NotifyBookingStatus, NotifyFails, Tick, Beat, FindUpcoming, ReadBooking,
     Take, Work, FinishUpcoming, FinishMail, NothingToMail, TaskFails, WorkerLost, Stop, vars

\* send_notification, as late as it runs, contradicts its announcement only if the
\* booking was written again.
THEOREM ContradictionsExplained == Spec => []ContradictionsNeedWrites
<1>1. Init => ContradictionsNeedWrites
    BY DEF Init, NoOut, ContradictionsNeedWrites
<1>2. ASSUME MailInv, ContradictionsNeedWrites, [Next]_vars PROVE ContradictionsNeedWrites'
  <2>1. CASE out' = out \/ out'.mail = None
    BY <1>2, <2>1 DEF ContradictionsNeedWrites
  <2>2. ASSUME NEW w \in Workers, SendMail(w) PROVE ContradictionsNeedWrites'
    <3>1. PICK j : j = worker[w]
      OBVIOUS
    <3>2. j \in Jobs /\ JobSound(j) /\ j.at = "send"
      BY <1>2, <2>2, <3>1 DEF SendMail, At, MailInv, TypeOK, WorkersSound
    <3>3. j.msg.event \in Nat /\ j.seen \in Nat
      BY <3>2, JobTypes DEF Mails
    <3>4. out'.mail = [kind |-> j.msg.kind, event |-> j.msg.event, seen |-> j.seen, status |-> j.row.status]
      BY <2>2, <3>1 DEF SendMail, NoOut
    <3>5. PICK k, e, s, v : out'.mail = [kind |-> k, event |-> e, seen |-> s, status |-> v]
                            /\ k = j.msg.kind /\ e = j.msg.event /\ s = j.seen /\ v = j.row.status
      BY <3>4
    <3>6. e <= s /\ (s = e => ~Contradicts(k, v)) /\ e \in Nat /\ s \in Nat
      BY <3>2, <3>3, <3>5 DEF JobSound
    <3>7. Contradicts(k, v) => s > e
      BY <3>6
    <3> QED
      BY <3>5, <3>7 DEF ContradictionsNeedWrites
  <2>3. ASSUME Next, \A w \in Workers : ~SendMail(w) PROVE out' = out \/ out'.mail = None
    <3>1. ASSUME NEW w \in Workers, PublishReminder(w) PROVE out'.mail = None
      BY <3>1 DEF PublishReminder, NoOut
    <3> QED
      BY <2>3, <3>1, OutTells DEF NoOut
  <2> QED
    BY <1>2, <2>1, <2>2, <2>3 DEF vars
<1> QED
    BY <1>1, <1>2, MailInvariance, PTL DEF Spec

\* Late acknowledgement repeats a mail once for each worker that was lost with it.
THEOREM RepeatsExplained == Spec => []RepeatsNeedLosses
<1>1. MailInv => RepeatsNeedLosses
  <2> SUFFICES ASSUME MailInv PROVE RepeatsNeedLosses
    OBVIOUS
  <2>1. \A m \in Waiting : m.kind \in Kinds => m.sent <= m.lost
    BY DEF MailInv, QueueSound, Queueable
  <2>2. ASSUME NEW w \in Workers, ~At(w, "idle"), worker[w].msg.kind \in Kinds
        PROVE  worker[w].msg.sent <= worker[w].msg.lost + IF At(w, "done") THEN 1 ELSE 0
    <3>1. PICK j : j = worker[w]
      OBVIOUS
    <3>2. j \in Jobs /\ JobSound(j) /\ j.at # "idle"
      BY <2>2, <3>1 DEF At, MailInv, TypeOK, WorkersSound
    <3>3. j.msg \in Mails /\ j.at \in {"send", "done"}
      BY <2>2, <3>1, <3>2, JobTypes, KindTells DEF Messages, Kinds
    <3>4. j.msg.sent <= j.msg.lost + IF j.at = "done" THEN 1 ELSE 0
      BY <3>2, <3>3 DEF JobSound, Mails
    <3> QED
      BY <3>1, <3>4 DEF At
  <2> QED
    BY <2>1, <2>2 DEF RepeatsNeedLosses
<1> QED
    BY <1>1, MailInvariance, PTL

\* The last commit of a booking can still be told, or has been.
Told(b) ==
    \/ told[b] = version[b]
    \/ \E u \in unsent : u.booking = b /\ u.event = version[b]
    \/ \E m \in Waiting : Status(m, b)
    \/ \E w \in Workers : At(w, "send") /\ Status(worker[w].msg, b)

Tellable(b) ==
    /\ bookings[b] # None /\ bookings[b].status \notin Silent /\ bookings[b].pairs # {}
    /\ faults = 0 /\ Recipients("both") # {}

\* A worker with a mail about a booking, whatever step it takes.
LEMMA ToldByWorker ==
    ASSUME MailInv, MailInv', Next, NEW b \in Bookings, Tellable(b), Tellable(b)',
           bookings'[b] = bookings[b], version'[b] = version[b],
           NEW w \in Workers, At(w, "send"), Status(worker[w].msg, b)
    PROVE  Told(b)'
<1>1. PICK j : j = worker[w]
    OBVIOUS
<1>2. j \in Jobs /\ JobSound(j) /\ j.at = "send" /\ j.msg.booking = b /\ j.msg.kind \in Kinds \ {"reminder"}
      /\ j.msg.event >= version[b]
    BY <1>1 DEF At, Status, MailInv, TypeOK, WorkersSound
<1>3. j.msg \in Mails /\ j.msg.event \in Nat /\ j.seen \in Nat /\ version[b] \in Nat /\ told[b] \in Nat
    BY <1>2, JobTypes DEF Mails, MailInv, TypeOK
<1>4. j.seen = version[b] /\ j.row = bookings[b] /\ j.msg.target = "both" /\ told[b] <= version[b]
    BY <1>2, <1>3 DEF JobSound, Sound, MailInv, Counters
<1>5. Mailable(j.msg, j.row)
    BY <1>4 DEF Mailable, Tellable
<1>6. CASE worker'[w] = worker[w]
    BY <1>6 DEF Told, At, Status
<1>7. CASE SendMail(w)
  <2>1. told' = IF j.seen > told[b] THEN [told EXCEPT ![b] = j.seen] ELSE told
    BY <1>1, <1>2, <1>7 DEF SendMail
  <2>2. told' = [told EXCEPT ![b] = j.seen] => told'[b] = j.seen
    BY DEF MailInv, TypeOK
  <2>3. told'[b] = version[b]
    BY <1>3, <1>4, <2>1, <2>2
  <2> QED
    BY <2>3 DEF Told
<1>8. CASE WorkerLost(w)
  <2>1. PICK m : m = [j.msg EXCEPT !.lost = @ + 1] /\ Publish(m)
    BY <1>1, <1>8 DEF WorkerLost
  <2>2. m \in Waiting'
    BY <2>1, QueueAfterPublish DEF MailInv, TypeOK
  <2>3. Status(m, b)
    BY <1>2, <1>3, <2>1 DEF Status, Mails
  <2> QED
    BY <2>2, <2>3 DEF Told, Status
<1>9. ~TaskFails(w) /\ ~NothingToMail(w)
  <2>1. ~NothingToMail(w)
    BY <1>1, <1>5 DEF NothingToMail
  <2>2. faults = 0 /\ faults' = 0
    BY DEF Tellable
  <2> QED
    BY <2>1, <2>2 DEF TaskFails
<1>10. ASSUME ~SendMail(w), ~WorkerLost(w) PROVE worker'[w] = worker[w]
  <2>1. CASE UNCHANGED worker
    BY <2>1
  <2>2. ASSUME NEW v \in Workers, v # w, NEW i, worker' = [worker EXCEPT ![v] = i] PROVE worker'[w] = worker[w]
    BY <2>2 DEF MailInv, TypeOK
  <2>3. ASSUME NEW v \in Workers, FindUpcoming(v) \/ ReadBooking(v) \/ Work(v) \/ TaskFails(v) \/ WorkerLost(v)
        PROVE  \E i : worker' = [worker EXCEPT ![v] = i]
    <3>1. CASE FindUpcoming(v) \/ ReadBooking(v)
      BY <3>1 DEF FindUpcoming, ReadBooking, Take
    <3>2. CASE PublishReminder(v)
      BY <3>2 DEF PublishReminder
    <3>3. CASE (Work(v) /\ ~PublishReminder(v)) \/ TaskFails(v) \/ WorkerLost(v)
      BY <3>3 DEF Work, FinishUpcoming, SendMail, FinishMail, NothingToMail, TaskFails, WorkerLost, Acknowledge
    <3> QED
      BY <2>3, <3>1, <3>2, <3>3
  <2>4. ~FindUpcoming(w) /\ ~ReadBooking(w) /\ ~Work(w) /\ ~TaskFails(w)
    BY <1>9, <1>10 DEF FindUpcoming, ReadBooking, Take, Work, PublishReminder, FinishUpcoming, FinishMail, At
  <2>5. ASSUME \A v \in Workers : ~FindUpcoming(v) /\ ~ReadBooking(v) /\ ~Work(v) /\ ~TaskFails(v) /\ ~WorkerLost(v)
        PROVE  UNCHANGED worker
    BY <2>5 DEF Next, Commit, Notify, NotifyBookingStatus, NotifyFails, Tick, Beat, Stop, vars
  <2> QED
    BY <1>10, <2>1, <2>2, <2>3, <2>4, <2>5
<1> QED
    BY <1>6, <1>7, <1>8, <1>10

\* A mail that waits, until a worker reads its booking.
LEMMA ToldByQueue ==
    ASSUME MailInv, MailInv', Next, NEW b \in Bookings, version'[b] = version[b], NEW m \in Waiting, Status(m, b)
    PROVE  Told(b)'
<1>1. CASE m \in Waiting'
    BY <1>1 DEF Told, Status
<1>2. CASE m \notin Waiting'
  <2>1. PICK w \in Workers : FindUpcoming(w) \/ ReadBooking(w)
    <3>1. CASE UNCHANGED queue
      BY <1>2, <3>1 DEF Waiting
    <3>2. ASSUME NEW x, Publish(x) PROVE m \in Waiting'
      BY <3>2, QueueAfterPublish DEF MailInv, TypeOK
    <3>3. ASSUME \A w \in Workers : ~FindUpcoming(w) /\ ~ReadBooking(w)
          PROVE  UNCHANGED queue \/ \E x : Publish(x)
      BY <3>3 DEF Next, Commit, Notify, NotifyBookingStatus, NotifyFails, Tick, Beat, Work, PublishReminder,
         FinishUpcoming, SendMail, FinishMail, NothingToMail, TaskFails, WorkerLost, Acknowledge, Stop, vars
    <3> QED
      BY <1>2, <3>1, <3>2, <3>3
  <2>2. PICK x \in Waiting :
          /\ queue' = queue (-) SetToBag({x})
          /\ \/ x.kind = "upcoming"
             \/ \E row, seen : worker' = [worker EXCEPT ![w] =
                    [at |-> "send", msg |-> x, row |-> row, seen |-> seen]]
    BY <2>1 DEF FindUpcoming, ReadBooking, Take
  <2>3. x = m
    BY <1>2, <2>2, QueueAfterTake DEF MailInv, TypeOK
  <2>4. m.kind # "upcoming"
    BY DEF Status, Kinds
  <2>5. worker'[w].at = "send" /\ worker'[w].msg = m
    BY <2>2, <2>3, <2>4 DEF MailInv, TypeOK
  <2> QED
    BY <2>5 DEF Told, At, Status
<1> QED
    BY <1>1, <1>2

LEMMA ToldGrows ==
    ASSUME MailInv, Next, NEW b \in Bookings
    PROVE  told[b] \in Nat /\ told'[b] \in Nat /\ told'[b] >= told[b]
<1>1. told \in [Bookings -> 0..MaxWrites]
    BY DEF MailInv, TypeOK
<1>2. ASSUME NEW w \in Workers, SendMail(w) PROVE told'[b] \in Nat /\ told'[b] >= told[b]
  <2>1. PICK c, s : c = worker[w].msg.booking /\ s = worker[w].seen
    OBVIOUS
  <2>2. s \in Nat
    <3>1. worker[w] \in Jobs /\ worker[w].at = "send"
      BY <1>2 DEF SendMail, At, MailInv, TypeOK
    <3> QED
      BY <2>1, <3>1, JobTypes
  <2>3. told' = told \/ (told' = [told EXCEPT ![c] = s] /\ s > told[c])
    BY <1>2, <2>1 DEF SendMail
  <2> QED
    BY <1>1, <2>2, <2>3
<1>3. ASSUME \A w \in Workers : ~SendMail(w) PROVE UNCHANGED told
    BY <1>3 DEF Next, Commit, Notify, NotifyBookingStatus, NotifyFails, Tick, Beat, FindUpcoming, ReadBooking,
       Take, Work, PublishReminder, FinishUpcoming, FinishMail, NothingToMail, TaskFails, WorkerLost, Stop,
       history, vars
<1> QED
    BY <1>1, <1>2, <1>3

LEMMA ToldStep ==
    ASSUME MailInv, MailInv', Next, NEW b \in Bookings, Tellable(b) => Told(b), Tellable(b)'
    PROVE  Told(b)'
<1>1. CASE Commit(b)
  <2>1. PICK u : u = [booking |-> b, new |-> bookings[b] = None, event |-> version[b] + 1]
    OBVIOUS
  <2>2. u \in unsent' /\ u.booking = b /\ u.event = version'[b]
    BY <1>1, <2>1 DEF Commit, MailInv, TypeOK
  <2> QED
    BY <2>2 DEF Told
<1>2. CASE ~Commit(b)
  <2>1. bookings'[b] = bookings[b] /\ version'[b] = version[b] /\ (faults' = 0 => faults = 0)
    <3>1. ASSUME NEW c \in Bookings, Commit(c) PROVE bookings'[b] = bookings[b] /\ version'[b] = version[b] /\ faults' = faults
      <4>1. c # b
        BY <1>2, <3>1
      <4> QED
        BY <3>1, <4>1 DEF Commit, MailInv, TypeOK
    <3>2. ASSUME \A c \in Bookings : ~Commit(c) PROVE UNCHANGED <<bookings, version>> /\ faults' \in {faults, faults + 1}
      BY <3>2 DEF Next, Notify, NotifyBookingStatus, NotifyFails, Tick, Beat, FindUpcoming, ReadBooking, Take,
         Work, PublishReminder, FinishUpcoming, SendMail, FinishMail, NothingToMail, TaskFails, WorkerLost, Stop,
         counts, history, vars
    <3>3. faults \in Nat
      BY DEF MailInv, TypeOK
    <3> QED
      BY <3>1, <3>2, <3>3
  <2>2. Tellable(b) /\ Told(b)
    BY <2>1 DEF Tellable
  <2>3. CASE told[b] = version[b]
    <3>1. told'[b] <= version'[b] /\ version[b] \in Nat
      BY DEF MailInv, TypeOK, Counters
    <3> QED
      BY <2>1, <2>3, <3>1, ToldGrows DEF Told
  <2>4. ASSUME NEW u \in unsent, u.booking = b, u.event = version[b] PROVE Told(b)'
    <3>1. CASE u \in unsent'
      BY <2>1, <2>4, <3>1 DEF Told
    <3>2. CASE u \notin unsent'
      <4>1. NotifyBookingStatus(u)
        <5>1. ~NotifyFails(u)
          BY <2>2 DEF NotifyFails, Tellable, MailInv, TypeOK
        <5>2. ASSUME NEW v \in unsent, v # u, NotifyBookingStatus(v) \/ NotifyFails(v) PROVE FALSE
          BY <3>2, <5>2 DEF NotifyBookingStatus, NotifyFails
        <5>3. ASSUME \A v \in unsent : ~NotifyBookingStatus(v) /\ ~NotifyFails(v) PROVE unsent \subseteq unsent'
          BY <5>3 DEF Next, Commit, Notify, Tick, Beat, FindUpcoming, ReadBooking, Take, Work, PublishReminder,
             FinishUpcoming, SendMail, FinishMail, NothingToMail, TaskFails, WorkerLost, Stop, vars
        <5> QED
          BY <3>2, <5>1, <5>2, <5>3
      <4>2. PICK m : m = Notice(b, NoticeKind(u.new, bookings[b].status), "both", version[b])
        OBVIOUS
      <4>3. Publish(m)
        BY <2>2, <2>4, <4>1, <4>2 DEF NotifyBookingStatus, Tellable
      <4>4. m \in Waiting'
        BY <4>3, QueueAfterPublish DEF MailInv, TypeOK
      <4>5. m.booking = b /\ m.event = version[b] /\ m.kind \in Kinds \ {"reminder"} /\ version[b] \in Nat
        BY <4>2 DEF Notice, NoticeKind, Kinds, MailInv, TypeOK
      <4> QED
        BY <2>1, <4>4, <4>5 DEF Told, Status
    <3> QED
      BY <3>1, <3>2
  <2>5. ASSUME NEW m \in Waiting, Status(m, b) PROVE Told(b)'
    BY <2>1, <2>5, ToldByQueue
  <2>6. ASSUME NEW w \in Workers, At(w, "send"), Status(worker[w].msg, b) PROVE Told(b)'
    BY <2>1, <2>2, <2>6, ToldByWorker
  <2> QED
    BY <2>2, <2>3, <2>4, <2>5, <2>6 DEF Told
<1> QED
    BY <1>1, <1>2

\* As long as nothing fails, the last commit of a booking is told, or a task that will tell
\* it is on its way: neither lost workers nor overtaking requests keep it back.
THEOREM NothingIsForgotten == Spec => []NothingForgotten
<1>1. NothingForgotten <=> \A b \in Bookings : Tellable(b) => Told(b)
    BY DEF NothingForgotten, Tellable, Told
<1>2. Init => NothingForgotten
    BY DEF Init, NothingForgotten
<1>3. ASSUME MailInv, MailInv', NothingForgotten, Next PROVE NothingForgotten'
    BY <1>3, ToldStep DEF NothingForgotten, Tellable, Told
<1>4. ASSUME NothingForgotten, UNCHANGED vars PROVE NothingForgotten'
    BY <1>4 DEF vars, NothingForgotten, Waiting, Status, At
<1> QED
    BY <1>2, <1>3, <1>4, MailInvariance, PTL DEF Spec

-----------------------------------------------------------------------------
(* The runs of the reminder task.                                          *)

\* The first and the last minute at which a run finds the slot.
First(s) == SlotTime[s] - plan.before - Delta(plan.interval)
Last(s)  == SlotTime[s] - plan.before + Delta(plan.interval)
MidDay(s) == Inland(SlotTime[s], plan.before, plan.interval)

\* The minute of the last run; below zero if there was none today.
LastRun == minute - plan.interval + beatIn

Asked == \E m \in Waiting : m.kind = "upcoming"

\* While no run has been late, there is one run at a time, and it was published in
\* this very minute.
OneRun == smooth =>
    /\ Running => beatIn = plan.interval
    /\ \A m, n \in Waiting : m.kind = "upcoming" /\ n.kind = "upcoming" => m = n /\ queue[m] = 1
    /\ \A v, w \in Workers : At(v, "publish") => ~Asked /\ (At(w, "publish") => v = w)

\* So what it found is what it would find now.
RunFresh == smooth => \A w \in Workers : At(w, "publish") => \A r \in worker[w].todo :
    /\ InWindow(SlotTime[r[3]], minute, plan.before, plan.interval)
    /\ worker[w].known[r[1]] = version[r[1]] =>
          <<r[2], r[3]>> \in bookings[r[1]].pairs /\ bookings[r[1]].date = today

\* The tables for which a worker has still to remind of the slot.
Left(w, b, s) == {t \in Tables : <<b, t, s>> \in worker[w].todo}
Knows(w, b) == At(w, "publish") /\ worker[w].known[b] = version[b]

\* A run is under way that will remind of the slot.
Reminding(b, s) == Asked \/ \E w \in Workers : Knows(w, b) /\ Left(w, b, s) # {}

\* Written in time: what RemindedInTime asks for, but for the time.
Expected(b, s) ==
    /\ Remindable(b) /\ HasSlot(b, s) /\ bookings[b].date = today
    /\ s \in ActiveSlots /\ MidDay(s) /\ s \in early[b]

\* Once a run has come since the window opened, it has reminded or is about to.
RunReminds == \A b \in Bookings, s \in Slots :
    smooth /\ faults = 0 /\ Expected(b, s) /\ LastRun >= First(s) =>
        \/ reminders[b][s] > 0
        \/ minute <= Last(s) /\ beatIn = plan.interval /\ Reminding(b, s)

Seats(b, s) == Cardinality({t \in Tables : <<t, s>> \in bookings[b].pairs})

\* In the first k intervals of a window there are at most k runs, and in all of it at
\* most Times of them; each reminds of n tables.
Within(x, n, gap, interval) ==
    /\ x <= Times(interval) * n
    /\ \A k \in 0..3 : gap < k * interval => x <= k * n

\* From the first minute of the window to the last run.
Gap(s) == LastRun - First(s)

RunsCounted == \A b \in Bookings, s \in Slots : smooth /\ Remindable(b) /\ MidDay(s) =>
    /\ reminders[b][s] <= Times(plan.interval) * Seats(b, s)
    /\ bookings[b].date > today => reminders[b][s] = 0
    /\ bookings[b].date = today =>
          /\ Within(reminders[b][s], Seats(b, s), Gap(s), plan.interval)
          /\ Asked /\ First(s) <= minute /\ minute <= Last(s)
                => Within(reminders[b][s] + Seats(b, s), Seats(b, s), Gap(s), plan.interval)
          /\ \A w \in Workers : Knows(w, b)
                => Within(reminders[b][s] + Cardinality(Left(w, b, s)), Seats(b, s), Gap(s), plan.interval)

RunInv == OneRun /\ RunFresh /\ RunReminds /\ RunsCounted

LEMMA PublishJobs ==
    ASSUME NEW j \in Jobs
    PROVE  j.at = "publish" <=> j.at # "idle" /\ j.msg.kind = "upcoming"
<1>1. j.at = "publish" => j.msg.kind = "upcoming"
    BY JobTypes DEF Runs
<1>2. j.at \in {"send", "done"} => j.msg.kind # "upcoming"
    BY JobTypes DEF Mails, Kinds
<1> QED
    BY <1>1, <1>2, JobTypes

LEMMA PublishesUpcoming ==
    ASSUME TypeOK, NEW w \in Workers
    PROVE  /\ At(w, "publish") <=> ~At(w, "idle") /\ worker[w].msg.kind = "upcoming"
           /\ At(w, "publish") => Running
  BY PublishJobs DEF At, Running, TypeOK

\* In this state and in the next.
LEMMA RunningIs ==
    /\ TypeOK => (Running <=> Asked \/ \E w \in Workers : At(w, "publish"))
    /\ TypeOK' => (Running' <=> Asked' \/ \E w \in Workers : At(w, "publish")')
  BY PublishJobs DEF Running, Asked, At, TypeOK

\* The runs that wait are the same as before.
AskedKept == \A m \in Waiting \cup Waiting' : m.kind = "upcoming" =>
    m \in Waiting /\ m \in Waiting' /\ queue'[m] = queue[m]

LEMMA AskedKeptBy ==
    ASSUME MailInv
    PROVE  /\ UNCHANGED queue => AskedKept
           /\ \A m : m.kind \in Kinds /\ Publish(m) => AskedKept
           /\ \A m \in Waiting : m.kind \in Kinds /\ queue' = queue (-) SetToBag({m}) => AskedKept
<1>1. IsABag(queue)
    BY DEF MailInv, TypeOK
<1>2. UNCHANGED queue => AskedKept
    BY DEF AskedKept, Waiting
<1>3. ASSUME NEW m, m.kind \in Kinds, Publish(m) PROVE AskedKept
  <2>1. m.kind # "upcoming"
    BY <1>3 DEF Kinds
  <2> QED
    BY <1>1, <1>3, <2>1, QueueAfterPublish DEF AskedKept
<1>4. ASSUME NEW m \in Waiting, m.kind \in Kinds, queue' = queue (-) SetToBag({m}) PROVE AskedKept
  <2>1. m.kind # "upcoming"
    BY <1>4 DEF Kinds
  <2> QED
    BY <1>1, <1>4, <2>1, QueueAfterTake DEF AskedKept
<1> QED
    BY <1>2, <1>3, <1>4

\* A step beside the runs.
Aside ==
    /\ smooth /\ UNCHANGED <<today, minute, beatIn, plan, bookings, version, early, reminders>>
    /\ faults' = 0 => faults = 0
    /\ AskedKept
    /\ \A w \in Workers : At(w, "publish")' => worker'[w] = worker[w]
    /\ \A w \in Workers : At(w, "publish") => At(w, "publish")' \/ worker[w].todo = {}

OfRuns ==
    \/ Tick \/ Beat
    \/ \E w \in Workers : FindUpcoming(w) \/ PublishReminder(w)
    \/ \E b \in Bookings : Commit(b)

LEMMA AsideStep == ASSUME MailInv, MailInv', Next, ~OfRuns, smooth' PROVE Aside
<1> DEFINE Kept == /\ \A w \in Workers : At(w, "publish")' => worker'[w] = worker[w]
                   /\ \A w \in Workers : At(w, "publish") => At(w, "publish")' \/ worker[w].todo = {}
<1>1. faults \in Nat /\ worker \in [Workers -> Jobs]
    BY DEF MailInv, TypeOK
<1>2. UNCHANGED worker => Kept
    BY DEF At
<1>3. ASSUME NEW w \in Workers, NEW j, worker' = [worker EXCEPT ![w] = j], j.at # "publish",
             At(w, "publish") => worker[w].todo = {}
      PROVE  Kept
    BY <1>1, <1>3 DEF At
<1>4. Idle.at # "publish"
    BY DEF Idle
<1>5. ASSUME NEW u \in unsent, NotifyBookingStatus(u) \/ NotifyFails(u) PROVE Aside
  <2>1. AskedKept
    <3>1. NoticeKind(u.new, bookings[u.booking].status) \in Kinds
      BY DEF NoticeKind, Kinds
    <3>2. UNCHANGED queue \/ \E m : m.kind \in Kinds /\ Publish(m)
      BY <1>5, <3>1 DEF NotifyBookingStatus, NotifyFails, Notice
    <3> QED
      BY <3>2, AskedKeptBy
  <2>2. Kept
    BY <1>2, <1>5 DEF NotifyBookingStatus, NotifyFails
  <2>3. faults' = 0 => faults = 0
    <3>1. NotifyBookingStatus(u) => faults' = faults
      BY DEF NotifyBookingStatus, counts
    <3>2. NotifyFails(u) => faults' = faults + 1
      BY DEF NotifyFails
    <3> QED
      BY <1>1, <1>5, <3>1, <3>2
  <2>4. smooth /\ UNCHANGED <<clock, plan, bookings, history>>
    BY <1>5 DEF NotifyBookingStatus, NotifyFails
  <2> QED
    BY <2>1, <2>2, <2>3, <2>4 DEF Aside, clock, history
<1>6. ASSUME NEW w \in Workers, ReadBooking(w) PROVE Aside
  <2>1. PICK m \in Waiting : /\ m.kind \in Kinds /\ queue' = queue (-) SetToBag({m})
                             /\ \E row, seen : worker' = [worker EXCEPT ![w] =
                                    [at |-> "send", msg |-> m, row |-> row, seen |-> seen]]
                             /\ At(w, "idle")
    BY <1>6 DEF ReadBooking, Take
  <2>2. AskedKept
    BY <2>1, AskedKeptBy
  <2>3. Kept
    BY <2>1, <1>3 DEF At
  <2>4. UNCHANGED <<clock, plan, bookings, unsent, counts, history, smooth>>
    BY <1>6 DEF ReadBooking, Take
  <2> QED
    BY <2>2, <2>3, <2>4 DEF Aside, clock, counts, history
<1>7. ASSUME NEW w \in Workers, FinishUpcoming(w) PROVE Aside
  <2>1. Kept
    BY <1>3, <1>4, <1>7 DEF FinishUpcoming, Acknowledge
  <2> QED
    BY <1>7, <2>1, AskedKeptBy DEF FinishUpcoming, Acknowledge, Aside, clock, counts, history
<1>8. ASSUME NEW w \in Workers, FinishMail(w) \/ NothingToMail(w) PROVE Aside
  <2>1. Kept
    BY <1>3, <1>4, <1>8 DEF FinishMail, NothingToMail, Acknowledge, At
  <2> QED
    BY <1>8, <2>1, AskedKeptBy DEF FinishMail, NothingToMail, Acknowledge, Aside, clock, counts, history
<1>9. ASSUME NEW w \in Workers, SendMail(w) PROVE Aside
  <2>1. At(w, "send") /\ \E m : worker' = [worker EXCEPT ![w] = [at |-> "done", msg |-> m]]
    BY <1>9 DEF SendMail
  <2>2. Kept
    BY <2>1, <1>3 DEF At
  <2> QED
    BY <1>9, <2>2, AskedKeptBy DEF SendMail, Aside, clock, counts
<1>10. ASSUME NEW w \in Workers, TaskFails(w) PROVE Aside
  <2>1. ~At(w, "publish")
    BY <1>10, PublishesUpcoming DEF TaskFails, MailInv
  <2>2. Kept
    BY <1>3, <1>4, <1>10, <2>1 DEF TaskFails, Acknowledge
  <2>3. faults' = 0 => faults = 0
    BY <1>1, <1>10 DEF TaskFails
  <2>4. smooth /\ UNCHANGED <<clock, plan, bookings, history, queue>>
    BY <1>10 DEF TaskFails, Acknowledge
  <2> QED
    BY <2>2, <2>3, <2>4, AskedKeptBy DEF Aside, clock, history
<1>11. ASSUME NEW w \in Workers, WorkerLost(w) PROVE Aside
  <2>1. PICK j, m : j = worker[w] /\ m = [j.msg EXCEPT !.lost = @ + 1] /\ Publish(m)
    BY <1>11 DEF WorkerLost
  <2>2. j \in Jobs /\ j.at # "idle" /\ j.msg.kind # "upcoming"
    BY <1>1, <1>11, <2>1 DEF WorkerLost, At
  <2>3. m.kind \in Kinds
    BY <2>1, <2>2, JobTypes DEF Messages, Mails, Runs
  <2>4. ~At(w, "publish")
    BY <1>11, PublishesUpcoming DEF WorkerLost, MailInv
  <2>5. Kept
    BY <1>3, <1>4, <1>11, <2>4 DEF WorkerLost
  <2> QED
    BY <1>11, <2>1, <2>3, <2>5, AskedKeptBy DEF WorkerLost, Aside, clock, history
<1>12. CASE Stop
    BY <1>2, <1>12, AskedKeptBy DEF Stop, vars, Aside
<1> QED
    BY <1>5, <1>6, <1>7, <1>8, <1>9, <1>10, <1>11, <1>12 DEF Next, Notify, Work, OfRuns

LEMMA SmoothBefore == ASSUME MailInv, MailInv', Next, smooth' PROVE smooth
<1>1. ASSUME NEW w \in Workers, FindUpcoming(w) \/ PublishReminder(w) PROVE smooth
    BY <1>1 DEF FindUpcoming, Take, PublishReminder
<1>2. ASSUME NEW b \in Bookings, Commit(b) PROVE smooth
    BY <1>2 DEF Commit
<1> QED
    BY <1>1, <1>2, AsideStep DEF OfRuns, Aside, Tick, Beat

LEMMA InitRuns == Init => RunInv
<1> SUFFICES ASSUME Init PROVE RunInv
    OBVIOUS
<1>1. Waiting = {} /\ \A w \in Workers : worker[w] = Idle
    BY EmptyQueue DEF Init, Waiting
<1>2. \A w \in Workers : At(w, "idle") /\ ~At(w, "publish")
    BY <1>1 DEF At, Idle
<1>3. \A b \in Bookings : ~Remindable(b)
    BY DEF Init, Remindable
<1> QED
    BY <1>1, <1>2, <1>3 DEF RunInv, OneRun, RunFresh, RunReminds, RunsCounted, Running, Expected

LEMMA PlanTypes ==
    ASSUME MailInv
    PROVE  /\ plan.before \in Nat /\ plan.interval \in Nat \ {0} /\ beatIn \in 0..plan.interval
           /\ minute \in Minutes /\ minute \in Int /\ Day \in Nat
           /\ \A s \in Slots : SlotTime[s] \in Minutes /\ SlotTime[s] \in Int
           /\ Delta(plan.interval) \in Nat
           /\ \A s \in Slots : First(s) \in Int /\ Last(s) \in Int
<1>1. plan \in Plan /\ beatIn \in 0..plan.interval /\ minute \in Minutes
    BY NotificationsAssumption DEF MailInv, TypeOK
<1>2. plan.before \in Nat /\ plan.interval \in Nat \ {0}
    BY <1>1 DEF Plan
<1>3. \A s \in Slots : SlotTime[s] \in Minutes
    BY NotificationsAssumption
<1>4. Delta(plan.interval) \in Nat
    BY <1>2, DeltaBounds
<1> QED
    BY <1>1, <1>2, <1>3, <1>4, DayAssumption DEF Minutes, First, Last

LEMMA PlanKept == ASSUME Next PROVE plan' = plan
  BY DEF Next, Commit, Notify, NotifyBookingStatus, NotifyFails, Tick, Beat, FindUpcoming, ReadBooking, Take,
     Work, PublishReminder, FinishUpcoming, SendMail, FinishMail, NothingToMail, TaskFails, WorkerLost, Stop, vars

\* What FindUpcoming takes is the run, and nothing else of it is left.
LEMMA RunTaken ==
    ASSUME MailInv, OneRun, smooth, NEW w \in Workers, FindUpcoming(w)
    PROVE  /\ Asked /\ Running /\ ~Asked' /\ beatIn = plan.interval
           /\ \A v \in Workers : ~At(v, "publish")
           /\ \A v \in Workers : At(v, "publish")' => v = w
           /\ At(w, "publish")' => worker'[w].todo = Upcomings /\ worker'[w].known = version
           /\ ~At(w, "publish")' => Upcomings = {}
<1>1. PICK m \in Waiting :
        /\ m.kind = "upcoming" /\ queue' = queue (-) SetToBag({m})
        /\ worker' = [worker EXCEPT ![w] = IF Upcomings = {} THEN Idle
                         ELSE [at |-> "publish", msg |-> m, todo |-> Upcomings, known |-> version]]
    BY DEF FindUpcoming, Take
<1>2. Asked /\ Running
    BY <1>1 DEF Asked, Running
<1>3. beatIn = plan.interval /\ queue[m] = 1 /\ \A n \in Waiting : n.kind = "upcoming" => n = m
    BY <1>1, <1>2 DEF OneRun
<1>4. ~Asked'
    BY <1>1, <1>3, QueueAfterTake DEF Asked, MailInv, TypeOK
<1>5. \A v \in Workers : ~At(v, "publish")
    BY <1>2 DEF OneRun
<1>6. worker \in [Workers -> Jobs] /\ \A v \in Workers \ {w} : worker'[v] = worker[v]
    BY <1>1 DEF MailInv, TypeOK
<1>7. At(w, "publish")' => worker'[w].todo = Upcomings /\ worker'[w].known = version
    BY <1>1, <1>6 DEF At, Idle
<1>8. ~At(w, "publish")' => Upcomings = {}
    BY <1>1, <1>6 DEF At
<1> QED
    BY <1>2, <1>3, <1>4, <1>5, <1>6, <1>7, <1>8 DEF At

\* A worker that publishes a reminder goes on with the others.
LEMMA ReminderPublished ==
    ASSUME MailInv, NEW w \in Workers, PublishReminder(w)
    PROVE  /\ AskedKept
           /\ \A v \in Workers : At(v, "publish")' <=> At(v, "publish")
           /\ \A v \in Workers \ {w} : worker'[v] = worker[v]
           /\ At(w, "publish") /\ worker'[w].known = worker[w].known
           /\ \E r \in worker[w].todo :
                 /\ worker'[w].todo = worker[w].todo \ {r}
                 /\ r \in Bookings \X Tables \X Slots
                 /\ reminders' = IF worker[w].known[r[1]] = version[r[1]]
                                 THEN [reminders EXCEPT ![r[1]][r[3]] = @ + 1] ELSE reminders
<1>1. PICK r \in worker[w].todo :
          /\ Publish(Notice(r[1], "reminder", plan.target, worker[w].known[r[1]]))
          /\ worker' = [worker EXCEPT ![w].todo = @ \ {r}]
          /\ reminders' = IF worker[w].known[r[1]] = version[r[1]]
                          THEN [reminders EXCEPT ![r[1]][r[3]] = @ + 1] ELSE reminders
    BY DEF PublishReminder
<1>2. At(w, "publish") /\ worker \in [Workers -> Jobs]
    BY DEF PublishReminder, MailInv, TypeOK
<1>3. PICK j : j = worker[w]
    OBVIOUS
<1>4. j \in [at : {"publish"}, msg : Runs, todo : SUBSET (Bookings \X Tables \X Slots),
             known : [Bookings -> 0..MaxWrites]]
    BY <1>2, <1>3 DEF Jobs, Idle, At
<1>5. worker'[w] = [j EXCEPT !.todo = @ \ {r}] /\ \A v \in Workers \ {w} : worker'[v] = worker[v]
    BY <1>1, <1>2, <1>3
<1>6. worker'[w].at = "publish" /\ worker'[w].todo = j.todo \ {r} /\ worker'[w].known = j.known
    BY <1>4, <1>5
<1>7. \A v \in Workers : At(v, "publish")' <=> At(v, "publish")
    BY <1>2, <1>5, <1>6 DEF At
<1>8. AskedKept
    <2>1. Notice(r[1], "reminder", plan.target, worker[w].known[r[1]]).kind \in Kinds
      BY DEF Notice, Kinds
    <2> QED
      BY <1>1, <2>1, AskedKeptBy
<1>9. r \in Bookings \X Tables \X Slots
    BY <1>1, <1>3, <1>4
<1> QED
    BY <1>1, <1>2, <1>3, <1>5, <1>6, <1>7, <1>8, <1>9

LEMMA OneRunStep == ASSUME MailInv, MailInv', OneRun, Next PROVE OneRun'
<1> SUFFICES ASSUME smooth' PROVE OneRun'
    BY DEF OneRun
<1>0. smooth /\ plan' = plan /\ TypeOK /\ TypeOK'
    BY SmoothBefore, PlanKept DEF MailInv
<1>1. CASE Aside
  <2>1. Asked' <=> Asked
    BY <1>1 DEF Aside, AskedKept, Asked
  <2>2. \A v \in Workers : At(v, "publish")' => At(v, "publish")
    BY <1>1 DEF Aside, At
  <2>3. Running' => Running
    BY <1>0, <2>1, <2>2, RunningIs
  <2> QED
    BY <1>0, <1>1, <2>1, <2>2, <2>3 DEF OneRun, Aside, AskedKept
<1>2. CASE Tick
  <2>1. ~Running /\ UNCHANGED <<queue, worker>>
    BY <1>2 DEF Tick
  <2>2. ~Asked /\ \A v \in Workers : ~At(v, "publish")
    BY <1>0, <2>1, RunningIs
  <2> QED
    BY <2>1, <2>2 DEF OneRun, Running, Asked, Waiting, At
<1>3. CASE Beat
  <2>1. ~Running
    BY <1>0, <1>3, PlanTypes DEF OneRun, Beat, Due
  <2>2. ~Asked /\ \A v \in Workers : ~At(v, "publish")
    BY <1>0, <2>1, RunningIs
  <2>3. Waiting' = Waiting \cup {Upcoming} /\ (Upcoming \notin Waiting => queue'[Upcoming] = 1)
    BY <1>3, QueueAfterPublish DEF Beat, MailInv, TypeOK
  <2>4. Upcoming.kind = "upcoming"
    BY DEF Upcoming
  <2>5. beatIn' = plan.interval /\ UNCHANGED worker
    BY <1>3 DEF Beat
  <2> QED
    BY <1>0, <2>2, <2>3, <2>4, <2>5 DEF OneRun, Asked, At
<1>4. ASSUME NEW w \in Workers, FindUpcoming(w) PROVE OneRun'
  <2>1. beatIn' = beatIn
    BY <1>4 DEF FindUpcoming, Take, clock
  <2> QED
    BY <1>0, <1>4, <2>1, RunTaken DEF OneRun, Asked
<1>5. ASSUME NEW w \in Workers, PublishReminder(w) PROVE OneRun'
  <2>1. beatIn' = beatIn
    BY <1>5 DEF PublishReminder, clock
  <2>2. Asked' <=> Asked
    BY <1>5, ReminderPublished DEF AskedKept, Asked
  <2>3. Running
    BY <1>0, <1>5, ReminderPublished, PublishesUpcoming
  <2> QED
    BY <1>0, <1>5, <2>1, <2>2, <2>3, ReminderPublished DEF OneRun, AskedKept
<1>6. ASSUME NEW b \in Bookings, Commit(b) PROVE OneRun'
    BY <1>0, <1>6 DEF Commit, clock, OneRun, Running, Asked, At, Waiting
<1> QED
    BY <1>1, <1>2, <1>3, <1>4, <1>5, <1>6, AsideStep DEF OfRuns

LEMMA RunFreshStep == ASSUME MailInv, MailInv', OneRun, RunFresh, Next PROVE RunFresh'
<1> SUFFICES ASSUME smooth', NEW w \in Workers, At(w, "publish")', NEW r \in worker'[w].todo
             PROVE  /\ InWindow(SlotTime[r[3]], minute', plan'.before, plan'.interval)
                    /\ worker'[w].known[r[1]] = version'[r[1]] =>
                          <<r[2], r[3]>> \in bookings'[r[1]].pairs /\ bookings'[r[1]].date = today'
    BY DEF RunFresh
<1>0. smooth /\ plan' = plan /\ TypeOK /\ TypeOK'
    BY SmoothBefore, PlanKept DEF MailInv
<1>1. CASE Aside
    BY <1>0, <1>1 DEF Aside, RunFresh, At
<1>2. CASE Tick
  <2>1. ~Running /\ worker' = worker
    BY <1>2 DEF Tick
  <2> QED
    BY <1>0, <2>1, RunningIs DEF At
<1>3. CASE Beat
    BY <1>0, <1>3 DEF Beat, counts, history, RunFresh, At
<1>4. ASSUME NEW v \in Workers, FindUpcoming(v)
      PROVE  /\ InWindow(SlotTime[r[3]], minute', plan'.before, plan'.interval)
             /\ <<r[2], r[3]>> \in bookings'[r[1]].pairs /\ bookings'[r[1]].date = today'
  <2>1. w = v /\ worker'[v].todo = Upcomings
    BY <1>0, <1>4, RunTaken
  <2>2. UNCHANGED <<minute, today, bookings>>
    BY <1>4 DEF FindUpcoming, Take, clock
  <2> QED
    BY <1>0, <2>1, <2>2 DEF Upcomings
<1>5. ASSUME NEW v \in Workers, PublishReminder(v)
      PROVE  At(w, "publish") /\ r \in worker[w].todo /\ worker'[w].known = worker[w].known
             /\ UNCHANGED <<minute, today, bookings, version>>
  <2>1. UNCHANGED <<minute, today, bookings, version>>
    BY <1>5 DEF PublishReminder, clock
  <2> QED
    BY <1>5, <2>1, ReminderPublished
<1>6. ASSUME NEW b \in Bookings, Commit(b)
      PROVE  /\ At(w, "publish") /\ r \in worker[w].todo /\ worker'[w].known = worker[w].known
             /\ UNCHANGED <<minute, today>>
             /\ worker[w].known[r[1]] = version'[r[1]] => r[1] # b
  <2>1. worker' = worker /\ UNCHANGED <<minute, today>> /\ version' = [version EXCEPT ![b] = @ + 1]
    BY <1>6 DEF Commit, clock
  <2>2. worker[w] \in Jobs /\ worker[w].at = "publish" /\ JobSound(worker[w])
    BY <2>1 DEF MailInv, TypeOK, WorkersSound, At
  <2>3. worker[w].known[r[1]] \in Nat /\ worker[w].known[r[1]] <= version[r[1]] /\ r[1] \in Bookings
    BY <2>1, <2>2, JobTypes DEF JobSound
  <2>4. version[b] \in Nat /\ version'[b] = version[b] + 1
    BY <2>1 DEF MailInv, TypeOK
  <2> QED
    BY <2>1, <2>3, <2>4 DEF At
<1>7. ASSUME NEW b \in Bookings, Commit(b), r[1] # b
      PROVE  bookings'[r[1]] = bookings[r[1]] /\ version'[r[1]] = version[r[1]]
    BY <1>7 DEF Commit, MailInv, TypeOK
<1> QED
    BY <1>0, <1>1, <1>2, <1>3, <1>4, <1>5, <1>6, <1>7, AsideStep DEF OfRuns, RunFresh

\* When a run comes of the day and in the window, it finds the slot.
LEMMA RunFinds ==
    ASSUME MailInv, NEW s \in Slots, MidDay(s), First(s) <= minute, minute <= Last(s)
    PROVE  InWindow(SlotTime[s], minute, plan.before, plan.interval)
<1> DEFINE d == Delta(plan.interval)  time == SlotTime[s]  before == plan.before
<1>1. /\ d \in Nat /\ before \in Nat /\ plan.interval \in Nat \ {0}
      /\ time \in Minutes /\ minute \in Minutes /\ time \in Int /\ minute \in Int /\ Day \in Nat
    BY PlanTypes
<1>2. time - before - d <= minute /\ minute <= time - before + d
    BY DEF First, Last
<1>3. time - 2 * d >= 0 /\ time + 2 * d < Day
    BY DEF MidDay, Inland
<1>4. minute + before - d >= 0 /\ ~PassesMidnight(minute, before, plan.interval)
    BY <1>1, <1>2, <1>3 DEF PassesMidnight
<1>5. minute + before - d <= time /\ time <= minute + before + d
    BY <1>1, <1>2
<1> QED
    BY <1>1, <1>4, <1>5, WindowIsDistance

\* Only commits, and the clock, change what is expected.
LEMMA ExpectedBefore ==
    ASSUME MailInv, MailInv', Next, ~Tick, NEW b \in Bookings, ~Commit(b)
    PROVE  /\ bookings'[b] = bookings[b] /\ version'[b] = version[b] /\ early'[b] = early[b]
           /\ UNCHANGED <<today, minute, plan>> /\ (~Beat => beatIn' = beatIn)
           /\ faults' = 0 => faults = 0
<1>1. ASSUME NEW c \in Bookings, Commit(c)
      PROVE  /\ bookings'[b] = bookings[b] /\ version'[b] = version[b] /\ early'[b] = early[b]
             /\ UNCHANGED <<clock, plan, faults>>
  <2>1. c # b
    BY <1>1
  <2> QED
    BY <1>1, <2>1 DEF Commit, MailInv, TypeOK
<1>2. ASSUME \A c \in Bookings : ~Commit(c)
      PROVE  /\ UNCHANGED <<bookings, version, early, today, minute, plan>> /\ (~Beat => beatIn' = beatIn)
             /\ faults' \in {faults, faults + 1}
    BY <1>2 DEF Next, Notify, NotifyBookingStatus, NotifyFails, Beat, FindUpcoming, ReadBooking, Take,
       Work, PublishReminder, FinishUpcoming, SendMail, FinishMail, NothingToMail, TaskFails, WorkerLost, Stop,
       counts, history, clock, vars
<1>3. faults \in Nat
    BY DEF MailInv, TypeOK
<1> QED
    BY <1>1, <1>2, <1>3 DEF clock

LEMMA RunRemindsStep == ASSUME MailInv, MailInv', OneRun, RunReminds, Next PROVE RunReminds'
<1> SUFFICES ASSUME smooth', faults' = 0, NEW b \in Bookings, NEW s \in Slots,
                    Expected(b, s)', LastRun' >= First(s)'
             PROVE  \/ reminders'[b][s] > 0
                    \/ minute' <= Last(s)' /\ beatIn' = plan'.interval /\ Reminding(b, s)'
    BY DEF RunReminds
<1>0. smooth /\ plan' = plan /\ TypeOK /\ TypeOK'
    BY SmoothBefore, PlanKept DEF MailInv
<1>1. First(s)' = First(s) /\ Last(s)' = Last(s) /\ (MidDay(s)' <=> MidDay(s)) /\ MidDay(s)
      /\ First(s) \in Int /\ Last(s) \in Int /\ First(s) >= 0
    BY <1>0, PlanTypes DEF First, Last, MidDay, Expected, Inland
<1>2. reminders[b][s] \in Nat /\ reminders'[b][s] \in Nat
    BY DEF MailInv, TypeOK
<1>3. CASE Commit(b)
  <2>1. UNCHANGED <<minute, today, beatIn>> /\ s \in early'[b] /\ bookings'[b].date = today'
    BY <1>3 DEF Commit, clock, Expected
  <2>2. bookings'[b].date > today \/ Ahead(s)
    BY <1>3, <2>1 DEF Commit, MailInv, TypeOK
  <2>3. minute < First(s)
    BY <2>1, <2>2 DEF Ahead, First, MailInv, TypeOK
  <2> QED
    BY <1>0, <1>1, <2>1, <2>3, PlanTypes DEF LastRun
<1>4. CASE Tick
  <2>1. ~Due /\ ~Running /\ beatIn' = beatIn - 1
    BY <1>4 DEF Tick
  <2>2. CASE minute' = 0
    BY <1>0, <1>1, <2>1, <2>2, PlanTypes DEF LastRun
  <2>3. CASE minute' # 0
    <3>1. minute' = minute + 1 /\ UNCHANGED <<today, bookings, early, reminders, faults>>
      BY <1>4, <2>3 DEF Tick, counts, history
    <3>2. LastRun' = LastRun /\ Expected(b, s)
      BY <1>0, <1>1, <2>1, <3>1, PlanTypes DEF LastRun, Expected, Remindable, HasSlot
    <3>3. ~Reminding(b, s)
      BY <1>0, <2>1, RunningIs DEF Reminding, Knows
    <3> QED
      BY <1>0, <1>1, <3>1, <3>2, <3>3 DEF RunReminds
  <2> QED
    BY <2>2, <2>3
<1> DEFINE Same == ~Commit(b) /\ ~Tick
<1>5. ASSUME Same
      PROVE  /\ Expected(b, s) /\ UNCHANGED <<today, minute, plan>> /\ faults = 0
             /\ bookings'[b] = bookings[b] /\ version'[b] = version[b] /\ (~Beat => LastRun' = LastRun /\ beatIn' = beatIn)
    BY <1>0, <1>5, <1>1, ExpectedBefore DEF Expected, Remindable, HasSlot, LastRun
<1>6. CASE Same /\ Beat
  <2>1. beatIn = 0 /\ beatIn' = plan.interval /\ UNCHANGED reminders
    BY <1>6 DEF Beat, Due, history
  <2>2. LastRun' = minute
    BY <1>0, <1>5, <1>6, <2>1, PlanTypes DEF LastRun
  <2>3. CASE LastRun >= First(s)
    BY <1>0, <1>5, <1>6, <2>1, <2>3, PlanTypes DEF RunReminds
  <2>4. CASE LastRun < First(s)
    <3>1. minute <= Last(s)
      <4>1. plan.interval <= 2 * Delta(plan.interval) + 1 /\ Delta(plan.interval) \in Nat
        BY PlanTypes, DeltaBounds
      <4> QED
        BY <2>1, <2>4, <4>1, PlanTypes DEF LastRun, First, Last
    <3>2. Upcoming \in Waiting' /\ Upcoming.kind = "upcoming"
      BY <1>6, QueueAfterPublish DEF Beat, Upcoming, MailInv, TypeOK
    <3>3. Asked'
      BY <3>2 DEF Asked
    <3> QED
      BY <1>0, <1>1, <1>5, <1>6, <2>1, <3>1, <3>3 DEF Reminding
  <2> QED
    BY <1>1, <2>3, <2>4, PlanTypes DEF LastRun
<1>7. CASE Same /\ ~Beat
  <2>1. \/ reminders[b][s] > 0
        \/ minute <= Last(s) /\ beatIn = plan.interval /\ Reminding(b, s)
    BY <1>0, <1>1, <1>5, <1>7 DEF RunReminds
  <2>2. reminders'[b][s] >= reminders[b][s]
    <3>1. ASSUME NEW w \in Workers, PublishReminder(w) PROVE reminders'[b][s] >= reminders[b][s]
      <4>0. PICK r \in Bookings \X Tables \X Slots :
                reminders' \in {reminders, [reminders EXCEPT ![r[1]][r[3]] = @ + 1]}
        BY <3>1, ReminderPublished
      <4>1. PICK c \in Bookings, u \in Slots : reminders' \in {reminders, [reminders EXCEPT ![c][u] = @ + 1]}
        BY <4>0
      <4>2. reminders \in [Bookings -> [Slots -> Nat]]
        BY DEF MailInv, TypeOK
      <4> QED
        BY <1>2, <4>1, <4>2
    <3>2. ASSUME NEW w \in Workers, FindUpcoming(w) PROVE UNCHANGED reminders
      BY <3>2 DEF FindUpcoming, Take, history
    <3>3. ASSUME NEW c \in Bookings, Commit(c) PROVE reminders'[b] = reminders[b]
      <4>1. c # b
        BY <1>7, <3>3
      <4> QED
        BY <3>3, <4>1 DEF Commit, MailInv, TypeOK
    <3> QED
      BY <1>2, <1>7, <3>1, <3>2, <3>3, AsideStep DEF OfRuns, Aside
  <2>3. ASSUME minute <= Last(s), beatIn = plan.interval, Reminding(b, s)
        PROVE  reminders'[b][s] > 0 \/ Reminding(b, s)'
    <3>1. CASE Aside
      <4>1. Asked' <=> Asked
        BY <3>1 DEF Aside, AskedKept, Asked
      <4>2. ASSUME NEW w \in Workers, Knows(w, b), Left(w, b, s) # {}
            PROVE  Knows(w, b)' /\ Left(w, b, s)' # {}
        <5>1. worker[w].todo # {} /\ At(w, "publish")
          BY <4>2 DEF Left, Knows
        <5>2. worker'[w] = worker[w] /\ version' = version
          BY <3>1, <5>1 DEF Aside
        <5> QED
          BY <4>2, <5>2 DEF Knows, Left, At
      <4> QED
        BY <2>3, <4>1, <4>2 DEF Reminding
    <3>2. ASSUME NEW w \in Workers, FindUpcoming(w) PROVE Reminding(b, s)'
      <4>1. PICK t \in Tables : <<t, s>> \in bookings[b].pairs
        BY <1>5, <1>7 DEF Expected, HasSlot
      <4>2. First(s) <= minute
        BY <1>0, <1>1, <1>5, <1>7, <2>3, PlanTypes DEF LastRun
      <4>3. <<b, t, s>> \in Upcomings
        BY <1>1, <1>5, <1>7, <2>3, <4>1, <4>2, RunFinds DEF Upcomings, Expected, Remindable
      <4>4. At(w, "publish")' /\ worker'[w].todo = Upcomings /\ worker'[w].known = version
        BY <1>0, <3>2, <4>3, RunTaken
      <4>5. Knows(w, b)' /\ t \in Left(w, b, s)'
        BY <1>5, <1>7, <4>3, <4>4 DEF Knows, Left
      <4> QED
        BY <4>5 DEF Reminding
    <3>3. ASSUME NEW w \in Workers, PublishReminder(w) PROVE reminders'[b][s] > 0 \/ Reminding(b, s)'
      <4>1. CASE Asked
        <5>1. Asked'
          BY <3>3, <4>1, ReminderPublished DEF AskedKept, Asked
        <5> QED
          BY <5>1 DEF Reminding
      <4>2. ASSUME NEW v \in Workers, Knows(v, b), NEW t \in Left(v, b, s)
            PROVE  reminders'[b][s] > 0 \/ Reminding(b, s)'
        <5>1. v = w
          BY <1>0, <3>3, <4>2, ReminderPublished DEF OneRun, Knows
        <5>2. PICK r \in worker[w].todo :
                  /\ worker'[w].todo = worker[w].todo \ {r}
                  /\ r \in Bookings \X Tables \X Slots
                  /\ reminders' = IF worker[w].known[r[1]] = version[r[1]]
                                  THEN [reminders EXCEPT ![r[1]][r[3]] = @ + 1] ELSE reminders
          BY <3>3, ReminderPublished
        <5>3. CASE r = <<b, t, s>>
          <6>1. reminders' = [reminders EXCEPT ![b][s] = @ + 1]
            BY <4>2, <5>1, <5>2, <5>3 DEF Knows
          <6> QED
            BY <1>2, <6>1 DEF MailInv, TypeOK
        <5>4. CASE r # <<b, t, s>>
          <6>1. <<b, t, s>> \in worker'[w].todo
            BY <4>2, <5>1, <5>2, <5>4 DEF Left
          <6>2. Knows(w, b)'
            BY <1>5, <1>7, <3>3, <4>2, <5>1, ReminderPublished DEF Knows
          <6> QED
            BY <4>2, <6>1, <6>2 DEF Left, Reminding
        <5> QED
          BY <5>3, <5>4
      <4> QED
        BY <2>3, <4>1, <4>2 DEF Reminding
    <3>4. ASSUME NEW c \in Bookings, Commit(c) PROVE Reminding(b, s)'
      <4>1. UNCHANGED <<queue, worker>>
        BY <3>4 DEF Commit
      <4>2. Asked' <=> Asked
        BY <4>1 DEF Asked, Waiting
      <4>3. \A w \in Workers : (Knows(w, b) => Knows(w, b)') /\ Left(w, b, s)' = Left(w, b, s)
        BY <1>5, <1>7, <4>1 DEF Knows, At, Left
      <4> QED
        BY <2>3, <4>2, <4>3 DEF Reminding
    <3> QED
      BY <1>7, <3>1, <3>2, <3>3, <3>4, AsideStep DEF OfRuns
  <2> QED
    BY <1>0, <1>1, <1>2, <1>5, <1>7, <2>1, <2>2, <2>3
<1> QED
    BY <1>3, <1>4, <1>6, <1>7

\* What Within allows.
LEMMA WithinRules ==
    ASSUME NEW interval \in Nat \ {0}, NEW n \in Nat, NEW gap \in Int, NEW x \in Nat
    PROVE  /\ Within(0, n, gap, interval)
           /\ gap >= 0 => Within(n, n, gap, interval)
           /\ \A y \in Nat : y <= x /\ Within(x, n, gap, interval) => Within(y, n, gap, interval)
           /\ Within(x, n, gap, interval) => x <= Times(interval) * n
           /\ Within(x, n, gap, interval) => Within(x, n, gap + interval, interval)
<1>1. Times(interval) \in {1, 2, 3}
    BY TimesBounds
<1>2. Times(interval) * n \in Nat /\ n <= Times(interval) * n
    BY <1>1
<1>3. \A k \in 0..3 : k * n \in Nat /\ k * interval \in Nat /\ (k = 0 \/ n <= k * n)
    <2>1. \A k \in {0, 1, 2, 3} : k * n \in Nat /\ k * interval \in Nat /\ (k = 0 \/ n <= k * n)
      OBVIOUS
    <2> QED
      BY <2>1
<1>4. Within(0, n, gap, interval)
    BY <1>2, <1>3 DEF Within
<1>5. ASSUME gap >= 0 PROVE Within(n, n, gap, interval)
    <2>1. \A k \in 0..3 : gap < k * interval => k # 0
      BY <1>5
    <2> QED
      BY <1>2, <1>3, <2>1 DEF Within
<1>6. ASSUME NEW y \in Nat, y <= x, Within(x, n, gap, interval) PROVE Within(y, n, gap, interval)
    BY <1>2, <1>3, <1>6 DEF Within
<1>7. ASSUME Within(x, n, gap, interval) PROVE Within(x, n, gap + interval, interval)
    <2>1. \A k \in 0..3 : gap + interval < k * interval => gap < k * interval
      BY <1>3
    <2> QED
      BY <1>7, <2>1 DEF Within
<1> QED
    BY <1>4, <1>5, <1>6, <1>7 DEF Within

\* One more run inside the window.
LEMMA WithinNext ==
    ASSUME NEW interval \in Nat \ {0}, NEW n \in Nat, NEW gap \in Int, NEW x \in Nat,
           Within(x, n, gap, interval), gap + interval >= 0, gap + interval <= 2 * Delta(interval)
    PROVE  Within(x + n, n, gap + interval, interval)
<1>1. /\ gap < 0 * interval => x <= 0 * n
      /\ gap < 1 * interval => x <= 1 * n
      /\ gap < 2 * interval => x <= 2 * n
    BY DEF Within
<1>2. Delta(interval) \in Nat
    BY DeltaBounds
<1>3. x + n <= Times(interval) * n
  <2>1. CASE Times(interval) = 1 /\ 2 * Delta(interval) < interval
    <3>1. gap < 0
      BY <1>2, <2>1
    <3> QED
      BY <1>1, <2>1, <3>1
  <2>2. CASE Times(interval) = 2 /\ 2 * Delta(interval) = interval
    <3>1. gap < interval
      BY <1>2, <2>2
    <3> QED
      BY <1>1, <2>2, <3>1
  <2>3. CASE Times(interval) = 3 /\ interval = 1 /\ Delta(interval) = 1
    <3>1. gap < 2
      BY <2>3
    <3> QED
      BY <1>1, <2>3, <3>1
  <2> QED
    BY <2>1, <2>2, <2>3, TimesBounds
<1>4. ASSUME NEW k \in 0..3, gap + interval < k * interval PROVE x + n <= k * n
  <2>1. CASE k = 0
    BY <1>4, <2>1
  <2>2. CASE k = 1
    BY <1>1, <1>4, <2>2
  <2>3. CASE k = 2
    BY <1>1, <1>4, <2>3
  <2>4. CASE k = 3
    BY <1>1, <1>4, <2>4
  <2> QED
    BY <2>1, <2>2, <2>3, <2>4
<1> QED
    BY <1>3, <1>4 DEF Within

\* There are finitely many tables.
LEMMA SeatsTypes ==
    /\ \A b, s : Seats(b, s) \in Nat /\ IsFiniteSet({t \in Tables : <<t, s>> \in bookings[b].pairs})
    /\ \A w, b, s : IsFiniteSet(Left(w, b, s)) /\ Cardinality(Left(w, b, s)) \in Nat
    /\ \A w, b, s : IsFiniteSet(Left(w, b, s)') /\ Cardinality(Left(w, b, s)') \in Nat
<1>1. \A S \in SUBSET Tables : IsFiniteSet(S) /\ Cardinality(S) \in Nat
    BY NotificationsAssumption, FS_Subset, FS_CardinalityType
<1> QED
    BY <1>1 DEF Seats, Left

LEMMA RunsCountedStep == ASSUME MailInv, MailInv', OneRun, RunFresh, RunsCounted, Next PROVE RunsCounted'
<1> SUFFICES ASSUME smooth', NEW b \in Bookings, NEW s \in Slots, Remindable(b)', MidDay(s)'
             PROVE  /\ reminders'[b][s] <= Times(plan'.interval) * Seats(b, s)'
                    /\ bookings'[b].date > today' => reminders'[b][s] = 0
                    /\ bookings'[b].date = today' =>
                          /\ Within(reminders'[b][s], Seats(b, s)', Gap(s)', plan'.interval)
                          /\ Asked' /\ First(s)' <= minute' /\ minute' <= Last(s)'
                                => Within(reminders'[b][s] + Seats(b, s)', Seats(b, s)', Gap(s)', plan'.interval)
                          /\ \A w \in Workers : Knows(w, b)'
                                => Within(reminders'[b][s] + Cardinality(Left(w, b, s)'), Seats(b, s)', Gap(s)', plan'.interval)
    BY DEF RunsCounted
<1> DEFINE x == reminders[b][s]  n == Seats(b, s)  int == plan.interval
<1>0. smooth /\ plan' = plan /\ TypeOK /\ TypeOK' /\ int \in Nat \ {0}
    BY SmoothBefore, PlanKept, PlanTypes DEF MailInv
<1>1. /\ First(s)' = First(s) /\ Last(s)' = Last(s) /\ MidDay(s) /\ First(s) >= 0
      /\ First(s) \in Int /\ Last(s) \in Int /\ Last(s) = First(s) + 2 * Delta(int) /\ Delta(int) \in Nat
    BY <1>0, PlanTypes DEF First, Last, MidDay, Inland
<1>2. /\ reminders \in [Bookings -> [Slots -> Nat]] /\ reminders' \in [Bookings -> [Slots -> Nat]]
      /\ x \in Nat /\ n \in Nat /\ Seats(b, s)' \in Nat /\ Gap(s) \in Int /\ Gap(s)' \in Int
      /\ Gap(s) = minute - int + beatIn - First(s) /\ Gap(s)' = minute' - int + beatIn' - First(s)
  <2>1. x \in Nat /\ reminders'[b][s] \in Nat
    BY <1>0 DEF TypeOK
  <2>2. Seats(b, s)' \in Nat
    <3>1. \A S \in SUBSET Tables : IsFiniteSet(S) /\ Cardinality(S) \in Nat
      BY NotificationsAssumption, FS_Subset, FS_CardinalityType
    <3> QED
      BY <3>1 DEF Seats
  <2>3. minute' \in Int /\ beatIn' \in Int
    BY <1>0, DayAssumption DEF TypeOK, Minutes
  <2>4. Gap(s) \in Int
    BY <1>1, PlanTypes DEF Gap, LastRun
  <2>5. LastRun' = minute' - int + beatIn' /\ LastRun' \in Int
    BY <1>0, <2>3 DEF LastRun
  <2>6. Gap(s)' = minute' - int + beatIn' - First(s) /\ Gap(s)' \in Int
    BY <1>0, <1>1, <2>3, <2>5 DEF Gap
  <2>7. Gap(s) = minute - int + beatIn - First(s)
    BY <1>1, PlanTypes DEF Gap, LastRun
  <2> QED
    BY <1>0, <2>1, <2>2, <2>4, <2>6, <2>7, SeatsTypes DEF TypeOK
<1> DEFINE Allowed(y) == Within(y, n, Gap(s), int)
<1>9. \A y, z \in Nat : y <= z /\ Allowed(z) => Allowed(y)
  <2>1. n \in Nat /\ Gap(s) \in Int
    BY <1>2
  <2> QED
    BY <1>0, <2>1, WithinRules
<1>3. CASE Commit(b)
  <2>1. /\ UNCHANGED <<minute, today, beatIn, queue, worker>> /\ reminders'[b][s] = 0
        /\ version'[b] = version[b] + 1 /\ version[b] \in Nat
    BY <1>0, <1>3 DEF Commit, clock, TypeOK
  <2>2. ASSUME NEW w \in Workers, Knows(w, b)' PROVE Cardinality(Left(w, b, s)') = 0
    <3> SUFFICES ASSUME NEW t \in Left(w, b, s)' PROVE FALSE
      BY FS_EmptySet
    <3>1. worker[w] \in Jobs /\ JobSound(worker[w]) /\ worker[w].at = "publish" /\ <<b, t, s>> \in worker[w].todo
      BY <1>0, <2>1, <2>2 DEF Knows, Left, At, MailInv, TypeOK, WorkersSound
    <3>2. worker[w].known[b] <= version[b] /\ worker[w].known[b] \in Nat
      BY <3>1, JobTypes DEF JobSound
    <3>3. worker[w].known[b] = version[b] + 1
      BY <2>1, <2>2 DEF Knows, At
    <3> QED
      BY <2>1, <3>2, <3>3
  <2>3. ASSUME Asked', First(s)' <= minute' PROVE Gap(s)' >= 0
    <3>1. Asked /\ minute >= First(s)
      BY <1>1, <2>1, <2>3 DEF Asked, Waiting
    <3>2. beatIn = int
      BY <1>0, <3>1, RunningIs DEF OneRun
    <3> QED
      BY <1>0, <1>1, <2>1, <3>1, <3>2, PlanTypes DEF Gap, LastRun
  <2>4. PICK m \in Nat, g \in Int : m = Seats(b, s)' /\ g = Gap(s)'
    BY <1>2
  <2>5. Within(0, m, g, int) /\ (g >= 0 => Within(m, m, g, int)) /\ 0 <= Times(int) * m
    BY <1>0, WithinRules
  <2>6. 0 + m = m /\ 0 + 0 = 0
    OBVIOUS
  <2> QED
    BY <1>0, <2>1, <2>2, <2>3, <2>4, <2>5, <2>6
<1>4. CASE Tick
  <2>1. ~Due /\ ~Running /\ beatIn' = beatIn - 1 /\ UNCHANGED <<bookings, reminders, queue, worker>>
    BY <1>4 DEF Tick, history
  <2>2. ~Asked' /\ \A w \in Workers : ~Knows(w, b)'
    BY <1>0, <2>1, RunningIs DEF Asked, Waiting, Knows, At
  <2>3. Seats(b, s)' = n /\ Remindable(b) /\ reminders'[b][s] = x
    BY <2>1 DEF Seats, Remindable
  <2>4. /\ x <= Times(int) * n /\ (bookings[b].date > today => x = 0)
        /\ bookings[b].date = today => Within(x, n, Gap(s), int)
    BY <1>0, <1>1, <2>3 DEF RunsCounted
  <2>5. bookings[b].date \in Nat /\ today \in Nat
    <3>1. bookings[b] \in Row
      BY <1>0, <2>3, NotificationsAssumption DEF TypeOK, Remindable
    <3> QED
      BY <1>0, <3>1 DEF Row, TypeOK
  <2>6. CASE today' = today /\ minute' = minute + 1
    <3>1. Gap(s)' = Gap(s)
      BY <1>0, <1>1, <2>1, <2>6, PlanTypes DEF Gap, LastRun
    <3> QED
      BY <1>0, <2>1, <2>2, <2>3, <2>4, <2>6, <3>1
  <2>7. CASE today' = today + 1
    <3>1. bookings[b].date >= today' => x = 0
      BY <2>4, <2>5, <2>7
    <3>2. Within(0, n, Gap(s)', int)
      BY <1>0, <1>2, WithinRules
    <3> QED
      BY <1>0, <2>1, <2>2, <2>3, <2>4, <2>5, <2>7, <3>1, <3>2
  <2> QED
    BY <1>4, <2>6, <2>7 DEF Tick
<1>5. ASSUME ~Commit(b), ~Tick
      PROVE  /\ bookings'[b] = bookings[b] /\ version'[b] = version[b] /\ UNCHANGED <<today, minute>>
             /\ Seats(b, s)' = n /\ (~Beat => Gap(s)' = Gap(s))
             /\ x <= Times(int) * n /\ (bookings[b].date > today => x = 0)
             /\ bookings[b].date = today =>
                   /\ Within(x, n, Gap(s), int)
                   /\ Asked /\ First(s) <= minute /\ minute <= Last(s) => Within(x + n, n, Gap(s), int)
                   /\ \A w \in Workers : Knows(w, b)
                         => Within(x + Cardinality(Left(w, b, s)), n, Gap(s), int)
  <2>1. /\ bookings'[b] = bookings[b] /\ version'[b] = version[b] /\ UNCHANGED <<today, minute>>
        /\ (~Beat => beatIn' = beatIn)
    BY <1>5, ExpectedBefore
  <2>2. Seats(b, s)' = n /\ Remindable(b) /\ (~Beat => Gap(s)' = Gap(s))
    BY <1>0, <1>1, <2>1 DEF Seats, Remindable, Gap, LastRun
  <2> QED
    BY <1>0, <1>1, <2>1, <2>2 DEF RunsCounted
<1>6. CASE ~Commit(b) /\ ~Tick /\ Beat
  <2>1. beatIn = 0 /\ beatIn' = int /\ UNCHANGED <<reminders, worker>>
    BY <1>0, <1>6 DEF Beat, Due, history
  <2>2. ~Running
    BY <1>0, <2>1, PlanTypes DEF OneRun
  <2>3. \A w \in Workers : ~Knows(w, b)'
    BY <1>0, <2>1, <2>2, RunningIs DEF Knows, At
  <2>4. Gap(s)' = Gap(s) + int /\ Gap(s)' = minute - First(s)
    BY <1>0, <1>1, <1>2, <1>5, <1>6, <2>1, PlanTypes
  <2>5. ASSUME bookings[b].date = today PROVE Within(x, n, Gap(s)', int)
    <3>1. PICK g \in Int : g = Gap(s) /\ Within(x, n, g, int)
      BY <1>2, <1>5, <1>6, <2>5
    <3>2. Within(x, n, g + int, int)
      BY <1>0, <1>2, <3>1, WithinRules
    <3> QED
      BY <2>4, <3>1, <3>2
  <2>6. ASSUME bookings[b].date = today, First(s) <= minute, minute <= Last(s)
        PROVE  Within(x + n, n, Gap(s)', int)
    <3>1. Gap(s) + int >= 0 /\ Gap(s) + int <= 2 * Delta(int)
      BY <1>1, <2>4, <2>6, PlanTypes
    <3> QED
      BY <1>0, <1>2, <1>5, <1>6, <2>4, <2>6, <3>1, WithinNext
  <2> QED
    BY <1>0, <1>1, <1>5, <1>6, <2>1, <2>3, <2>5, <2>6
<1>7. CASE ~Commit(b) /\ ~Tick /\ ~Beat
  <2>1. CASE reminders'[b][s] = x /\ (Asked' => Asked)
             /\ \A w \in Workers : Knows(w, b)' => Knows(w, b) /\ Left(w, b, s)' \subseteq Left(w, b, s)
    <3>1. \A w \in Workers : Cardinality(Left(w, b, s)') \in Nat /\ Cardinality(Left(w, b, s)) \in Nat
      BY SeatsTypes
    <3>2. \A w \in Workers : Left(w, b, s)' \subseteq Left(w, b, s)
                                => Cardinality(Left(w, b, s)') <= Cardinality(Left(w, b, s))
      BY SeatsTypes, FS_Subset
    <3>3. ASSUME bookings[b].date = today, NEW w \in Workers, Knows(w, b)'
          PROVE  Within(x + Cardinality(Left(w, b, s)'), n, Gap(s), int)
      <4>1. PICK c \in Nat, d \in Nat : c = Cardinality(Left(w, b, s)) /\ d = Cardinality(Left(w, b, s)')
        BY <3>1
      <4>2. d <= c /\ Within(x + c, n, Gap(s), int)
        BY <1>5, <1>7, <2>1, <3>2, <3>3, <4>1
      <4>3. x + c \in Nat /\ x + d \in Nat /\ x + d <= x + c
        BY <1>2, <4>2
      <4>4. Within(x + d, n, Gap(s), int)
        BY <1>9, <4>2, <4>3
      <4> QED
        BY <4>1, <4>4
    <3> QED
      BY <1>0, <1>1, <1>5, <1>7, <2>1, <3>3
  <2>2. CASE Aside
    <3>1. reminders'[b][s] = x /\ (Asked' => Asked)
      BY <2>2 DEF Aside, AskedKept, Asked
    <3>2. ASSUME NEW w \in Workers, Knows(w, b)' PROVE Knows(w, b) /\ Left(w, b, s)' \subseteq Left(w, b, s)
      <4>1. worker'[w] = worker[w] /\ version' = version
        BY <2>2, <3>2 DEF Aside, Knows
      <4> QED
        BY <3>2, <4>1 DEF Knows, Left, At
    <3> QED
      BY <2>1, <3>1, <3>2
  <2>3. ASSUME NEW c \in Bookings, Commit(c) PROVE reminders'[b][s] = x /\ UNCHANGED <<queue, worker>>
    <3>1. c # b
      BY <1>7, <2>3
    <3> QED
      BY <1>0, <2>3, <3>1 DEF Commit, TypeOK
  <2>4. CASE \E c \in Bookings : Commit(c)
    <3>1. UNCHANGED <<queue, worker>> /\ reminders'[b][s] = x
      BY <2>3, <2>4
    <3>2. Asked' => Asked
      BY <3>1 DEF Asked, Waiting
    <3>3. \A w \in Workers : Knows(w, b)' => Knows(w, b) /\ Left(w, b, s)' \subseteq Left(w, b, s)
      BY <1>5, <1>7, <3>1 DEF Knows, Left, At
    <3> QED
      BY <2>1, <3>1, <3>2, <3>3
  <2>5. CASE \E v \in Workers : FindUpcoming(v)
    <3>1. PICK v \in Workers : FindUpcoming(v)
      BY <2>5
    <3>2. reminders'[b][s] = x
      BY <3>1 DEF FindUpcoming, Take, history
    <3>3. /\ Asked /\ ~Asked' /\ beatIn = int
          /\ \A w \in Workers : At(w, "publish")' => w = v
          /\ At(v, "publish")' => worker'[v].todo = Upcomings
      BY <1>0, <3>1, RunTaken
    <3>4. ASSUME bookings[b].date = today, Knows(v, b)'
          PROVE  Within(x + Cardinality(Left(v, b, s)'), n, Gap(s), int)
      <4>1. Left(v, b, s)' = {t \in Tables : <<b, t, s>> \in Upcomings}
        BY <3>3, <3>4 DEF Left, Knows
      <4>2. Left(v, b, s)' \subseteq {t \in Tables : <<t, s>> \in bookings[b].pairs}
        BY <4>1 DEF Upcomings
      <4>3. Cardinality(Left(v, b, s)') \in Nat /\ Cardinality(Left(v, b, s)') <= n
        <5>1. PICK S : S = {t \in Tables : <<t, s>> \in bookings[b].pairs} /\ IsFiniteSet(S) /\ n = Cardinality(S)
          BY SeatsTypes DEF Seats
        <5>2. Cardinality(Left(v, b, s)') \in Nat /\ Left(v, b, s)' \subseteq S
          BY <4>2, <5>1, SeatsTypes
        <5> QED
          BY <5>1, <5>2, FS_Subset
      <4>4. CASE Left(v, b, s)' = {}
        <5>1. Cardinality(Left(v, b, s)') = 0
          BY <4>4, FS_EmptySet
        <5> QED
          BY <1>2, <1>5, <1>7, <3>4, <5>1
      <4>5. ASSUME NEW t \in Left(v, b, s)' PROVE Within(x + n, n, Gap(s), int)
        <5>1. InWindow(SlotTime[s], minute, plan.before, int)
          BY <4>1, <4>5 DEF Upcomings
        <5>2. First(s) <= minute /\ minute <= Last(s)
          BY <1>1, <5>1, PlanTypes, FoundNearby DEF First, Last, MidDay
        <5> QED
          BY <1>5, <1>7, <3>3, <3>4, <5>2
      <4>6. ASSUME Within(x + n, n, Gap(s), int) PROVE Within(x + Cardinality(Left(v, b, s)'), n, Gap(s), int)
        <5>1. PICK c \in Nat : c = Cardinality(Left(v, b, s)') /\ c <= n
          BY <4>3
        <5>2. x + c \in Nat /\ x + n \in Nat /\ x + c <= x + n
          BY <1>2, <5>1
        <5> QED
          BY <1>9, <4>6, <5>1, <5>2
      <4> QED
        BY <4>4, <4>5, <4>6
    <3>5. \A w \in Workers : Knows(w, b)' => w = v
      BY <3>3 DEF Knows
    <3> QED
      BY <1>0, <1>1, <1>5, <1>7, <3>2, <3>3, <3>4, <3>5
  <2>6. CASE \E v \in Workers : PublishReminder(v)
    <3>1. PICK v \in Workers : PublishReminder(v)
      BY <2>6
    <3>2. PICK r \in worker[v].todo :
              /\ worker'[v].todo = worker[v].todo \ {r}
              /\ r \in Bookings \X Tables \X Slots
              /\ reminders' = IF worker[v].known[r[1]] = version[r[1]]
                              THEN [reminders EXCEPT ![r[1]][r[3]] = @ + 1] ELSE reminders
      BY <3>1, ReminderPublished
    <3>3. /\ At(v, "publish") /\ ~Asked /\ ~Asked' /\ worker'[v].known = worker[v].known
          /\ \A w \in Workers : At(w, "publish")' => w = v
      <4>1. At(v, "publish") /\ worker'[v].known = worker[v].known
            /\ (Asked' => Asked) /\ \A w \in Workers : At(w, "publish")' => At(w, "publish")
        BY <3>1, ReminderPublished DEF AskedKept, Asked
      <4> QED
        BY <1>0, <4>1 DEF OneRun
    <3>4. (Knows(v, b)' <=> Knows(v, b)) /\ \A w \in Workers : Knows(w, b)' => w = v
      <4>1. At(v, "publish")' <=> At(v, "publish")
        BY <3>1, ReminderPublished
      <4> QED
        BY <1>5, <1>7, <3>3, <4>1 DEF Knows
    <3>5. Left(v, b, s)' \subseteq Left(v, b, s)
      BY <3>2 DEF Left
    <3>6. CASE ~(Knows(v, b) /\ r[1] = b /\ r[3] = s)
      <4>1. CASE reminders' = reminders
        BY <2>1, <3>3, <3>4, <3>5, <4>1
      <4>2. CASE worker[v].known[r[1]] = version[r[1]]
        <5>1. ~(r[1] = b /\ r[3] = s)
          BY <3>3, <3>6, <4>2 DEF Knows
        <5>2. PICK c \in Bookings, u \in Slots : c = r[1] /\ u = r[3]
          BY <3>2
        <5>3. reminders' = [reminders EXCEPT ![c][u] = @ + 1]
          BY <3>2, <4>2, <5>2
        <5>4. reminders'[b][s] = x
          BY <1>2, <5>1, <5>2, <5>3
        <5> QED
          BY <2>1, <3>3, <3>4, <3>5, <5>4
      <4> QED
        BY <3>2, <4>1, <4>2
    <3>7. CASE Knows(v, b) /\ r[1] = b /\ r[3] = s
      <4>1. PICK t \in Tables : r = <<b, t, s>>
        BY <3>2, <3>7
      <4>2. reminders'[b][s] = x + 1
        <5>1. reminders' = [reminders EXCEPT ![b][s] = @ + 1]
          BY <3>2, <3>7 DEF Knows
        <5> QED
          BY <1>2, <5>1
      <4>3. bookings[b].date = today
        BY <1>0, <3>2, <3>7, <4>1 DEF RunFresh, Knows
      <4>4. t \in Left(v, b, s) /\ Left(v, b, s)' = Left(v, b, s) \ {t}
        BY <3>2, <4>1 DEF Left
      <4>5. PICK c \in Nat : c = Cardinality(Left(v, b, s)') /\ Cardinality(Left(v, b, s)) = c + 1
        <5>1. PICK c \in Nat, d \in Nat : c = Cardinality(Left(v, b, s)') /\ d = Cardinality(Left(v, b, s))
          BY SeatsTypes
        <5>2. c = d - 1
          BY <4>4, <5>1, SeatsTypes, FS_RemoveElement
        <5> QED
          BY <5>1, <5>2
      <4>6. Within(x + 1 + c, n, Gap(s), int)
        <5>1. Within(x + (c + 1), n, Gap(s), int)
          BY <1>5, <1>7, <3>7, <4>3, <4>5
        <5>2. x + (c + 1) = x + 1 + c
          BY <1>2
        <5> QED
          BY <5>1, <5>2
      <4>7. Within(x + 1, n, Gap(s), int) /\ x + 1 <= Times(int) * n
        <5>1. x + 1 \in Nat /\ x + 1 + c \in Nat /\ x + 1 <= x + 1 + c
          BY <1>2
        <5>2. Within(x + 1, n, Gap(s), int)
          BY <1>9, <4>6, <5>1
        <5> QED
          BY <5>2 DEF Within
      <4>8. today \in Nat
        BY <1>0 DEF TypeOK
      <4> QED
        BY <1>0, <1>1, <1>5, <1>7, <3>3, <3>4, <4>2, <4>3, <4>5, <4>6, <4>7, <4>8
    <3> QED
      BY <3>6, <3>7
  <2> QED
    BY <1>7, <2>2, <2>4, <2>5, <2>6, AsideStep DEF OfRuns
<1> QED
  BY <1>3, <1>4, <1>6, <1>7

LEMMA RunInvariance == Spec => [](MailInv /\ RunInv)
<1>1. Init => RunInv
    BY InitRuns
<1>2. ASSUME MailInv, MailInv', RunInv, [Next]_vars PROVE RunInv'
  <2>1. CASE Next
    BY <1>2, <2>1, OneRunStep, RunFreshStep, RunRemindsStep, RunsCountedStep DEF RunInv
  <2>2. CASE UNCHANGED vars
    <3>1. UNCHANGED <<today, minute, plan, beatIn, bookings, queue, worker, faults, version, early,
                      reminders, smooth>>
      BY <2>2 DEF vars
    <3>2. Waiting' = Waiting /\ \A w \in Workers : At(w, "publish")' <=> At(w, "publish")
      BY <3>1 DEF Waiting, At
    <3>3. (Asked' <=> Asked) /\ (Running' <=> Running)
      BY <3>1 DEF Asked, Running, Waiting, At
    <3>4. \A s \in Slots : First(s)' = First(s) /\ Last(s)' = Last(s) /\ (MidDay(s)' <=> MidDay(s))
                           /\ LastRun' = LastRun /\ Gap(s)' = Gap(s)
      BY <3>1 DEF First, Last, MidDay, LastRun, Gap
    <3>5. \A w \in Workers, b \in Bookings, s \in Slots :
              /\ Knows(w, b)' <=> Knows(w, b)
              /\ Left(w, b, s)' = Left(w, b, s) /\ Seats(b, s)' = Seats(b, s)
      BY <3>1, <3>2 DEF Knows, Left, Seats, At
    <3>6. \A b \in Bookings, s \in Slots :
              /\ Reminding(b, s)' <=> Reminding(b, s)
              /\ Expected(b, s)' <=> Expected(b, s)
              /\ Remindable(b)' <=> Remindable(b)
      BY <3>1, <3>3, <3>4, <3>5 DEF Reminding, Expected, Remindable, HasSlot
    <3>7. OneRun'
      BY <1>2, <3>1, <3>2, <3>3 DEF RunInv, OneRun
    <3>8. RunFresh'
      BY <1>2, <3>1, <3>2 DEF RunInv, RunFresh
    <3>9. RunReminds'
      BY <1>2, <3>1, <3>4, <3>6 DEF RunInv, RunReminds
    <3>10. RunsCounted'
      <4> SUFFICES ASSUME smooth', NEW b \in Bookings, NEW s \in Slots, Remindable(b)', MidDay(s)'
                   PROVE  /\ reminders'[b][s] <= Times(plan'.interval) * Seats(b, s)'
                          /\ bookings'[b].date > today' => reminders'[b][s] = 0
                          /\ bookings'[b].date = today' =>
                                /\ Within(reminders'[b][s], Seats(b, s)', Gap(s)', plan'.interval)
                                /\ Asked' /\ First(s)' <= minute' /\ minute' <= Last(s)'
                                      => Within(reminders'[b][s] + Seats(b, s)', Seats(b, s)', Gap(s)', plan'.interval)
                                /\ \A w \in Workers : Knows(w, b)'
                                      => Within(reminders'[b][s] + Cardinality(Left(w, b, s)'), Seats(b, s)', Gap(s)', plan'.interval)
        BY DEF RunsCounted
      <4>1. /\ reminders[b][s] <= Times(plan.interval) * Seats(b, s)
            /\ bookings[b].date > today => reminders[b][s] = 0
            /\ bookings[b].date = today =>
                  /\ Within(reminders[b][s], Seats(b, s), Gap(s), plan.interval)
                  /\ Asked /\ First(s) <= minute /\ minute <= Last(s)
                        => Within(reminders[b][s] + Seats(b, s), Seats(b, s), Gap(s), plan.interval)
                  /\ \A w \in Workers : Knows(w, b)
                        => Within(reminders[b][s] + Cardinality(Left(w, b, s)), Seats(b, s), Gap(s), plan.interval)
        BY <1>2, <3>1, <3>4, <3>6 DEF RunInv, RunsCounted
      <4>2. Seats(b, s)' = Seats(b, s) /\ Gap(s)' = Gap(s) /\ First(s)' = First(s) /\ Last(s)' = Last(s)
            /\ (Asked' <=> Asked)
        BY <3>1, <3>3 DEF Seats, Gap, First, Last, LastRun
      <4>3. ASSUME NEW w \in Workers
            PROVE  (Knows(w, b)' <=> Knows(w, b)) /\ Left(w, b, s)' = Left(w, b, s)
        BY <3>1 DEF Knows, Left, At
      <4> QED
        BY <3>1, <4>1, <4>2, <4>3
    <3> QED
      BY <3>7, <3>8, <3>9, <3>10 DEF RunInv
  <2> QED
    BY <1>2, <2>1, <2>2
<1> QED
  BY MailInvariance, <1>1, <1>2, PTL DEF Spec

\* RemindedInTime: a booking written before its window opened has been reminded when
\* the window is over, if no run of send_upcoming_bookings was late, lost or repeated.
THEOREM RemindersInTime == Spec => []RemindedInTime
<1>1. ASSUME MailInv, RunInv PROVE RemindedInTime
  <2> SUFFICES ASSUME NEW b \in Bookings, NEW s \in Slots,
                      smooth, faults = 0, Expected(b, s), minute > Last(s)
               PROVE  reminders[b][s] > 0
    BY DEF RemindedInTime, Expected, MidDay, Last
  <2>1. LastRun >= First(s)
    <3>1. plan.interval <= 2 * Delta(plan.interval) + 1 /\ Delta(plan.interval) \in Nat
      BY <1>1, PlanTypes, DeltaBounds
    <3> QED
      BY <1>1, <3>1, PlanTypes DEF LastRun, First, Last
  <2>2. ~(minute <= Last(s))
    BY <1>1, PlanTypes
  <2> QED
    BY <1>1, <2>1, <2>2 DEF RunInv, RunReminds
<1> QED
  BY <1>1, RunInvariance, PTL

\* RepeatedRemindersExplained: get_upcoming_bookings finds a slot of a booking once for
\* each table, and again only in a minute on the border of two windows.
THEOREM RepeatedRemindersBounded == Spec => []RepeatedRemindersExplained
<1>1. RunInv => RepeatedRemindersExplained
    BY DEF RunInv, RunsCounted, RepeatedRemindersExplained, MidDay, Seats
<1> QED
  BY <1>1, RunInvariance, PTL

\* A minute after its slot began is not in a window, unless the window reaches back to
\* that minute or passes midnight.
LEMMA LateIsOutside ==
    ASSUME MailInv, NEW s \in Slots, SlotTime[s] <= minute,
           InWindow(SlotTime[s], minute, plan.before, plan.interval)
    PROVE  \/ PassesMidnight(minute, plan.before, plan.interval)
           \/ plan.before <= Delta(plan.interval)
<1> SUFFICES ASSUME ~PassesMidnight(minute, plan.before, plan.interval), plan.before > Delta(plan.interval)
             PROVE  FALSE
    BY PlanTypes
<1>1. minute + plan.before - Delta(plan.interval) > minute
    BY PlanTypes
<1>2. minute >= 0
    BY PlanTypes DEF Minutes
<1>3. minute + plan.before - Delta(plan.interval) <= SlotTime[s]
    BY <1>1, <1>2, PlanTypes, WindowIsDistance
<1> QED
    BY <1>1, <1>3, PlanTypes

\* LateRemindersNeedMidnight: a run of send_upcoming_bookings that was not late publishes
\* a reminder of a slot that has begun only if its window passed midnight or reached back.
THEOREM LateRemindersExplained == Spec => []LateRemindersNeedMidnight
<1>1. Init => LateRemindersNeedMidnight
    BY DEF Init, LateRemindersNeedMidnight, NoOut
<1>2. ASSUME MailInv, MailInv', RunFresh, LateRemindersNeedMidnight, [Next]_vars
      PROVE  LateRemindersNeedMidnight'
  <2>1. CASE out'.reminded = None
    BY <2>1 DEF LateRemindersNeedMidnight
  <2>2. CASE UNCHANGED vars
    BY <1>2, <2>2 DEF vars, LateRemindersNeedMidnight
  <2>3. ASSUME NEW w \in Workers, PublishReminder(w) PROVE LateRemindersNeedMidnight'
    <3>1. PICK r \in worker[w].todo : out' = [NoOut EXCEPT !.reminded = r[3]]
      BY <2>3 DEF PublishReminder
    <3>2. r \in Bookings \X Tables \X Slots
      <4>1. worker[w] \in Jobs /\ worker[w].at = "publish"
        BY <1>2, <2>3 DEF PublishReminder, MailInv, TypeOK, At
      <4> QED
        BY <3>1, <4>1, JobTypes
    <3>3. out'.reminded = r[3]
      BY <3>1 DEF NoOut
    <3>4. At(w, "publish") /\ UNCHANGED <<minute, plan, smooth>>
      BY <2>3 DEF PublishReminder, clock
    <3>5. smooth => InWindow(SlotTime[r[3]], minute, plan.before, plan.interval)
      BY <1>2, <3>1, <3>4 DEF RunFresh
    <3>6. smooth /\ SlotTime[r[3]] <= minute =>
             \/ PassesMidnight(minute, plan.before, plan.interval)
             \/ plan.before <= Delta(plan.interval)
      BY <1>2, <3>2, <3>5, LateIsOutside
    <3> QED
      BY <3>3, <3>4, <3>6 DEF LateRemindersNeedMidnight
  <2>4. Next => \/ out'.reminded = None \/ UNCHANGED vars
                \/ \E w \in Workers : PublishReminder(w)
    <3>1. NoOut.reminded = None /\ \A m : [NoOut EXCEPT !.mail = m].reminded = None
      BY DEF NoOut
    <3> QED
      <4>1. ASSUME NEW b \in Bookings, Commit(b) PROVE out' = NoOut
        BY <4>1 DEF Commit
      <4>2. ASSUME NEW u \in unsent, NotifyBookingStatus(u) \/ NotifyFails(u) PROVE out' = NoOut
        BY <4>2 DEF NotifyBookingStatus, NotifyFails
      <4>3. Tick \/ Beat => out' = NoOut
        BY DEF Tick, Beat
      <4>4. ASSUME NEW w \in Workers, FindUpcoming(w) \/ ReadBooking(w) PROVE out' = NoOut
        BY <4>4 DEF FindUpcoming, ReadBooking, Take
      <4>5. ASSUME NEW w \in Workers, FinishUpcoming(w) \/ FinishMail(w) \/ NothingToMail(w) PROVE out' = NoOut
        BY <4>5 DEF FinishUpcoming, FinishMail, NothingToMail
      <4>6. ASSUME NEW w \in Workers, SendMail(w) PROVE out'.reminded = None
        BY <3>1, <4>6 DEF SendMail
      <4>7. ASSUME NEW w \in Workers, TaskFails(w) \/ WorkerLost(w) PROVE out' = NoOut
        BY <4>7 DEF TaskFails, WorkerLost
      <4> QED
        BY <3>1, <4>1, <4>2, <4>3, <4>4, <4>5, <4>6, <4>7 DEF Next, Notify, Work, Stop
  <2> QED
    BY <1>2, <2>1, <2>2, <2>3, <2>4
<1>3. RunInv => RunFresh
    BY DEF RunInv
<1> QED
  BY <1>1, <1>2, <1>3, RunInvariance, PTL DEF Spec

=============================================================================
