----------------------------- MODULE MCBooking -----------------------------
(* Small instances of Booking.                                             *)
EXTENDS Booking, TLC

CONSTANTS r1, r2, u1, u2, t1, t2, s1, s2, b1, b2

\* s1 and s2 overlap without being equal: 10:00-12:00 and 11:00-13:00.
MCStart == [s \in Slots |-> IF s = s1 THEN 10 ELSE 11]
MCEnd   == [s \in Slots |-> IF s = s1 THEN 12 ELSE 13]

Body(date, status, pairs) == [date |-> date, status |-> status, pairs |-> pairs]

OnePair   == {{<<t1, s1>>}}
TwoSlots  == {{<<t1, s1>>}, {<<t1, s2>>}}

\* Activate, cancel, revive on another day without a check, move with a check.
RacePatches ==
    {Body(None, "ACTIVE", None), Body(None, "CANCELED", None),
     Body(1, "BOOKING", None), Body(1, None, {<<t1, s1>>})}

\* Changes of place only.
OverlapPatches ==
    {Body(None, "CANCELED", None), Body(None, None, {<<t1, s1>>}), Body(None, None, {<<t1, s2>>})}

\* PATCHes with and without a day, a status, and pairs, in every combination.
AllPatches ==
    {Body(date, status, pairs) :
        date \in {None, 1}, status \in {None, "BOOKING", "CANCELED"},
        pairs \in {None, {}, {<<t1, s1>>}, {<<t1, s1>>, <<t2, s1>>}}}
SerialPairs == {{<<t2, s2>>}, {<<t1, s1>>, <<t2, s1>>}}

NoPatches == {}
Reactivation == {Body(None, status, None) : status \in {"BOOKING", "CANCELED"}}
Activation == {Body(None, "ACTIVE", None), Body(None, "CANCELED", None)}

Symmetry == Permutations(Requests) \cup Permutations(Bookings) \cup Permutations(Users)
=============================================================================
