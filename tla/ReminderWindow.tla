--------------------------- MODULE ReminderWindow ---------------------------
(***************************************************************************)
(* The arithmetic of celery_core/services/booking_service.py: which slots  *)
(* a run of send_upcoming_bookings finds.  Times of day are minutes, since *)
(* the code cuts seconds off; the slots' own seconds are left out.         *)
(***************************************************************************)
EXTENDS Integers

CONSTANT Day   \* minutes of a day, 1440

ASSUME DayAssumption == Day \in Nat \ {0}

Minutes == 0..(Day - 1)

\* Mutant of Delta: one minute less, to have no minute in two windows.
DeltaOpen(interval) == interval \div 2 - 1

\* delta_size = max(1, task_interval_minutes // 2)
Delta(interval) == IF interval \div 2 > 1 THEN interval \div 2 ELSE 1

\* .time() of a datetime that lies x minutes after (or before) midnight.
TimeOfDay(x) == x % Day

\* Mutant of WindowStart: everything that begins from now on.
WindowFromNow(minute, before, interval) == TimeOfDay(minute)

WindowStart(minute, before, interval) == TimeOfDay(minute + before - Delta(interval))
WindowEnd(minute, before, interval)   == TimeOfDay(minute + before + Delta(interval))

\* Slot.start_time.between(delta_start, delta_end): both ends belong to it, and
\* nothing does when the end is a time of the next day.
InWindow(time, minute, before, interval) ==
    /\ WindowStart(minute, before, interval) <= time
    /\ time <= WindowEnd(minute, before, interval)

-----------------------------------------------------------------------------
(* What the window is for, with the runs at the minutes of a set.          *)

\* The window of a run at this minute ends after midnight.
PassesMidnight(minute, before, interval) == minute + before + Delta(interval) >= Day

\* Every run that could find the time is of the same day, and none of their
\* windows passes midnight, at either end.
Inland(time, before, interval) ==
    /\ time - before - Delta(interval) >= 0 /\ time - 2 * Delta(interval) >= 0
    /\ time + 2 * Delta(interval) < Day

\* Among any `interval` minutes in a row there is a run ...
Gapless(runs, interval) == \A x \in Int : \E n \in runs : x <= n /\ n < x + interval

\* ... and never two.
Spaced(runs, interval) == \A m, n \in runs : m < n => m + interval <= n

\* How often a time can be found: the windows of an even interval share their
\* borders, and the least window is three minutes wide.
Times(interval) == IF interval = 1 THEN 3 ELSE IF interval % 2 = 0 THEN 2 ELSE 1
=============================================================================
