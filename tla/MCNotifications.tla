-------------------------- MODULE MCNotifications --------------------------
(* Small instances of Notifications.                                       *)
EXTENDS Notifications, TLC

CONSTANTS w1, b1, t1, t2, s1, s2

TwoSlots == s1 :> 1 @@ s2 :> 4

On(date, pairs, status, active) ==
    [date |-> date, pairs |-> pairs, status |-> status, active |-> active]

\* Two tables in one slot, a slot just after midnight, a cancellation, a booking
\* left without tables, a guest who has come.
SomeRows ==
    { On(0, {<<t1, s2>>, <<t2, s2>>}, "BOOKING", TRUE),
      On(0, {<<t1, s1>>}, "BOOKING", TRUE),
      On(0, {<<t1, s2>>}, "CANCELED", TRUE),
      On(0, {}, "BOOKING", TRUE),
      On(0, {<<t1, s1>>}, "ACTIVE", TRUE),
      On(0, {<<t1, s1>>}, "COMPLETED", TRUE) }

SomePlans == {[before |-> 2, interval |-> 3, target |-> "client"]}
=============================================================================
