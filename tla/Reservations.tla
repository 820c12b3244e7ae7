---------------------------- MODULE Reservations ----------------------------
(***************************************************************************)
(* What the booking service promises its customers, without requests,      *)
(* transactions or races: a ledger of reservations.  A reservation takes   *)
(* tables in slots of a day for a user; no table is taken twice, and no    *)
(* user is expected at two places at once.                                 *)
(***************************************************************************)
EXTENDS Naturals

CONSTANTS
    Bookings, Users, Slots, Tables, MaxDay,
    Overlapping,    \* the pairs of slots that share a moment
    None            \* a booking that holds nothing: never made, or canceled

VARIABLE held

Reservation == [user : Users, date : 0..MaxDay, pairs : SUBSET (Tables \X Slots)]

\* Two reservations of the ledger may stand side by side.
Compatible(v, w) ==
    v.date = w.date =>
        /\ v.pairs \cap w.pairs = {}
        /\ v.user = w.user =>
            \A p \in v.pairs, q \in w.pairs : <<p[2], q[2]>> \notin Overlapping

Init == held = [b \in Bookings |-> None]

\* Make a reservation, or exchange it for another.
Reserve(b, v) ==
    /\ \A c \in Bookings \ {b} : held[c] # None => Compatible(v, held[c])
    /\ held' = [held EXCEPT ![b] = v]

Release(b) == held' = [held EXCEPT ![b] = None]

Next == \E b \in Bookings : Release(b) \/ \E v \in Reservation : Reserve(b, v)

Spec == Init /\ [][Next]_held

\* The ledger never holds two reservations that stand in each other's way.
Consistent ==
    \A b, c \in Bookings :
        b # c /\ held[b] # None /\ held[c] # None => Compatible(held[b], held[c])
=============================================================================
