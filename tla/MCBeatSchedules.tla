-------------------------- MODULE MCBeatSchedules --------------------------
EXTENDS BeatSchedules, TLC

CONSTANTS h1, h2, k1, k2, daily, weekly, reminders, cleanup, moscow, utc

Every == <<"intervalschedule", 1>>
Later == <<"intervalschedule", 2>>
Once  == <<"clockedschedule", 1>>

\* The same crontab with and without a zone, and one moment.
MCSpecs == {[kind |-> k, time |-> daily, zone |-> None] : k \in {"crontabschedule", "clockedschedule"}}
           \cup {[kind |-> "crontabschedule", time |-> daily, zone |-> utc]}

Change == [name |-> None, discriminator |-> None, schedule_id |-> None, enabled |-> None,
           one_off |-> None, args |-> None, kwargs |-> None]
To(p, body) == [body EXCEPT !.discriminator = p[1], !.schedule_id = p[2]]
New(name, p, once) == To(p, [Change EXCEPT !.name = name, !.enabled = TRUE, !.one_off = once,
                                            !.args = TRUE, !.kwargs = FALSE])
MCBodies == {New(cleanup, Once, TRUE), [Change EXCEPT !.enabled = FALSE], [Change EXCEPT !.kwargs = TRUE],
             To(Once, [Change EXCEPT !.one_off = TRUE]), To(Later, Change),
             [Change EXCEPT !.name = cleanup]}

\* Two intervals and a moment, and a task at the first interval.
MCGiven == {[schedules |-> [p \in Pointer |-> IF p \in {Every, Once} THEN [time |-> daily, zone |-> None]
                                              ELSE IF p = Later THEN [time |-> weekly, zone |-> None]
                                              ELSE None],
             used |-> [k \in Kinds |-> CASE k = "intervalschedule" -> 2 [] k = "clockedschedule" -> 1
                                         [] OTHER -> 0],
             tasks |-> [t \in Tasks |-> IF t = k1 THEN New(reminders, Every, FALSE) ELSE None]]}

Symmetry == Permutations({h1, h2})
=============================================================================
