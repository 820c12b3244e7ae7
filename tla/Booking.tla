------------------------------ MODULE Booking ------------------------------
(***************************************************************************)
(* Creating and updating bookings: api/services/booking.py with the        *)
(* validator, the CRUD layer and the database constraints it relies on.    *)
(*                                                                         *)
(* Requests run concurrently in one event loop (or several workers) over a *)
(* READ COMMITTED database.  Every await is a point where other requests   *)
(* run, so each SELECT and each COMMIT is a step of its own.  `bookings`   *)
(* and `rows` are the committed contents of the tables bookings and        *)
(* booking_table_slots; the remaining variables belong to the requests.    *)
(***************************************************************************)
EXTENDS Naturals, FiniteSets

CONSTANTS
    Requests,       \* request handlers in flight (a handler serves again after it ends)
    Users,          \* user accounts
    Tables, Slots,  \* primary keys of tables and of time slots
    SlotStart, SlotEnd, \* start_time and end_time of each slot
    Bookings,       \* bound: ids the database may hand to new bookings
    Batches,        \* bound: identities of the INSERTs of pair rows of a booking
    PairSets,       \* tables_slots of the POST requests: non-empty sets of pairs
    Patches,        \* the bodies of the PATCH requests
    MaxDay,         \* bound: the last day that can be booked
    Midnights,      \* bound: how often the day changes
    None            \* NULL, an unset field, an absent row

Pairs    == Tables \X Slots
Days     == 0..MaxDay
Statuses == {"BOOKING", "ACTIVE", "COMPLETED", "CANCELED"}

Optional(S) == {None} \cup S

\* BookingUpdate: None is a field the client left out.
Patch == [date : Optional(Days), status : Optional(Statuses), pairs : Optional(SUBSET Pairs)]

ASSUME ConstantsAssumption ==
    /\ SlotStart \in [Slots -> Nat] /\ SlotEnd \in [Slots -> Nat]
    /\ \A s \in Slots : SlotStart[s] < SlotEnd[s]
    /\ PairSets \subseteq (SUBSET Pairs) \ {{}}
    /\ Patches \subseteq Patch
    /\ MaxDay \in Nat /\ Midnights \in Days

\* None is none of the values it is used beside.
ASSUME NoneAssumption ==
    /\ None \notin Bookings /\ None \notin Days /\ None \notin Statuses
    /\ None \notin Users /\ \A P \in SUBSET Pairs : P # None
    /\ \A row \in [user : Users, date : Days, status : Statuses] : row # None

VARIABLES
    today,      \* the calendar day, of the application and of the database alike
    bookings,   \* table bookings: id -> row, None when there is no such row
    rows,       \* table booking_table_slots
    pc,         \* where each request's handler is
    op,         \* what the request asks for
    snap,       \* the booking, with its pair rows, as the handler loaded it
    todo,       \* pairs whose conflict query is still to run
    txDay,      \* CURRENT_DATE of the request's transaction, None before its first SQL
    raced,      \* history: bookings other requests wrote since this one's first read
    out         \* what the last step published: mail tasks and cache tags

db   == <<bookings, rows>>
proc == <<pc, op, snap, todo, txDay>>
vars == <<today, bookings, rows, pc, op, snap, todo, txDay, raced, out>>

-----------------------------------------------------------------------------
(* The tables and the queries of crud/booking.py.                          *)

BookingRow == [user : Users, date : Days, status : Statuses]
PairRow    == [booking : Bookings, pair : Pairs, batch : Batches]

Exists(b) == bookings[b] # None
Live(b)   == Exists(b) /\ bookings[b].status # "CANCELED"
RowsOf(b) == {w \in rows : w.booking = b}
Holds(b, p) == \E w \in rows : w.booking = b /\ w.pair = p

Overlap(s1, s2) == SlotStart[s1] < SlotEnd[s2] /\ SlotStart[s2] < SlotEnd[s1]

\* Mutant of Conflicts: only bookings in status BOOKING count as taken.
ConflictsBookingOnly(p, day, x) ==
    {b \in Bookings \ {x} : Exists(b) /\ bookings[b].status = "BOOKING"
                             /\ bookings[b].date = day /\ Holds(b, p)}

\* get_conflict_for_booking: bookings other than x that hold the pair on the day.
Conflicts(p, day, x) ==
    {b \in Bookings \ {x} : Live(b) /\ bookings[b].date = day /\ Holds(b, p)}

\* Mutant of UserOverlaps: the other slot has to start inside the requested one.
UserOverlapsOneSided(P, day, user, x) ==
    {b \in Bookings \ {x} :
        /\ Live(b) /\ bookings[b].date = day /\ bookings[b].user = user
        /\ \E w \in rows : w.booking = b /\ \E p \in P :
              SlotStart[p[2]] <= SlotStart[w.pair[2]] /\ SlotStart[w.pair[2]] < SlotEnd[p[2]]}

\* get_user_bookings_for_date and the comparison of check_no_user_overlap: the
\* user's other bookings of the day with a slot that overlaps a slot of P.
UserOverlaps(P, day, user, x) ==
    {b \in Bookings \ {x} :
        /\ Live(b) /\ bookings[b].date = day /\ bookings[b].user = user
        /\ \E w \in rows : w.booking = b /\ \E p \in P : Overlap(p[2], w.pair[2])}

-----------------------------------------------------------------------------
(* A request's local state.                                                *)

Ops == [kind : {"create", "update"}, user : Users, booking : Optional(Bookings),
        date : Optional(Days), status : Optional(Statuses),
        pairs : Optional(SUBSET Pairs)]
Snaps == [row : Optional(BookingRow), rows : SUBSET PairRow]

NoSnap == [row |-> None, rows |-> {}]
NoOut  == [mail |-> {}, tags |-> {}]

Init ==
    /\ today = 0
    /\ bookings = [b \in Bookings |-> None]
    /\ rows = {}
    /\ pc = [r \in Requests |-> "idle"]
    /\ op = [r \in Requests |-> None]
    /\ snap = [r \in Requests |-> NoSnap]
    /\ todo = [r \in Requests |-> {}]
    /\ txDay = [r \in Requests |-> None]
    /\ raced = [r \in Requests |-> {}]
    /\ out = NoOut

IsNew(r) == op[r].kind = "create"

\* Mutant of TargetDate: an update is checked on the day it leaves.
TargetDateOld(r) == IF snap[r].row # None THEN snap[r].row.date ELSE op[r].date

\* booking_data.booking_date or booking.booking_date
TargetDate(r) == IF op[r].date # None THEN op[r].date ELSE snap[r].row.date

\* The handler has returned or raised and the session is closed.
End(r) ==
    /\ pc' = [pc EXCEPT ![r] = "idle"]
    /\ op' = [op EXCEPT ![r] = None]
    /\ snap' = [snap EXCEPT ![r] = NoSnap]
    /\ todo' = [todo EXCEPT ![r] = {}]
    /\ txDay' = [txDay EXCEPT ![r] = None]
    /\ raced' = [raced EXCEPT ![r] = {}]

\* An exception with no effect on the database: 4xx, or a rollback and 500.
Fail(r) == End(r) /\ out' = NoOut /\ UNCHANGED <<today, db>>

-----------------------------------------------------------------------------
(* create_booking                                                          *)

\* check_booking_date_not_past looks at the clock before any SQL has run.
BeginCreate(r, user, day, P) ==
    /\ pc[r] = "idle"
    /\ day >= today
    /\ pc' = [pc EXCEPT ![r] = "objects"]
    /\ op' = [op EXCEPT ![r] = [kind |-> "create", user |-> user, booking |-> None,
                                date |-> day, status |-> None, pairs |-> P]]
    /\ out' = NoOut
    /\ UNCHANGED <<today, db, snap, todo, txDay, raced>>

\* _check_objects_exist: the session's first SQL, which fixes CURRENT_DATE.  The
\* cafe, the tables and the slots are not modelled here: a 404 is a Fail.
CheckObjects(r) ==
    /\ pc[r] = "objects"
    /\ pc' = [pc EXCEPT ![r] = "checking"]
    /\ todo' = [todo EXCEPT ![r] = op[r].pairs]
    /\ txDay' = [txDay EXCEPT ![r] = today]
    /\ out' = NoOut
    /\ UNCHANGED <<today, db, op, snap, raced>>

-----------------------------------------------------------------------------
(* update_booking                                                          *)

\* get_booking_by_id: SELECT of the booking's row.
BeginUpdate(r, b, patch) ==
    /\ pc[r] = "idle"
    /\ Exists(b)
    /\ pc' = [pc EXCEPT ![r] = "loading"]
    /\ op' = [op EXCEPT ![r] = [kind |-> "update", user |-> bookings[b].user, booking |-> b,
                                date |-> patch.date, status |-> patch.status,
                                pairs |-> patch.pairs]]
    /\ snap' = [snap EXCEPT ![r].row = bookings[b]]
    /\ txDay' = [txDay EXCEPT ![r] = today]
    /\ out' = NoOut
    /\ UNCHANGED <<today, db, todo, raced>>

\* Mutant of LoadRows: an ACTIVE booking may be changed.
LoadRowsOfActive(r) ==
    /\ pc[r] = "loading"
    /\ snap[r].row.date >= today
    /\ snap' = [snap EXCEPT ![r].rows = RowsOf(op[r].booking)]
    /\ pc' = [pc EXCEPT ![r] = IF op[r].pairs = None THEN "commit" ELSE "checking"]
    /\ todo' = [todo EXCEPT ![r] = IF op[r].pairs = None THEN {} ELSE op[r].pairs]
    /\ out' = NoOut
    /\ UNCHANGED <<today, db, op, txDay, raced>>

\* Mutant of LoadRows: the booking comes without its tables_slots.
LoadRowsLazily(r) ==
    /\ pc[r] = "loading"
    /\ snap[r].row.date >= today
    /\ snap[r].row.status # "ACTIVE"
    /\ pc' = [pc EXCEPT ![r] = IF op[r].pairs = None THEN "commit" ELSE "checking"]
    /\ todo' = [todo EXCEPT ![r] = IF op[r].pairs = None THEN {} ELSE op[r].pairs]
    /\ out' = NoOut
    /\ UNCHANGED <<today, db, op, snap, txDay, raced>>

\* The selectin load of tables_slots is a second SELECT.  check_can_modify then
\* judges the row as it was loaded; with tables_slots unset no further check runs.
\* Who asks is not modelled: a 403 of check_access is a Fail.
LoadRows(r) ==
    /\ pc[r] = "loading"
    /\ snap[r].row.date >= today
    /\ snap[r].row.status # "ACTIVE"
    /\ snap' = [snap EXCEPT ![r].rows = RowsOf(op[r].booking)]
    /\ pc' = [pc EXCEPT ![r] = IF op[r].pairs = None THEN "commit" ELSE "checking"]
    /\ todo' = [todo EXCEPT ![r] = IF op[r].pairs = None THEN {} ELSE op[r].pairs]
    /\ out' = NoOut
    /\ UNCHANGED <<today, db, op, txDay, raced>>

-----------------------------------------------------------------------------
(* The validator's queries, shared by both handlers.                       *)

\* Mutant of CheckPair: only creation looks for conflicts.
CheckPairOnCreate(r, p) ==
    /\ pc[r] = "checking"
    /\ p \in todo[r]
    /\ IsNew(r) => Conflicts(p, TargetDate(r), op[r].booking) = {}
    /\ todo' = [todo EXCEPT ![r] = @ \ {p}]
    /\ out' = NoOut
    /\ UNCHANGED <<today, db, pc, op, snap, txDay, raced>>

\* One round of the loop of check_no_conflicts: a SELECT for one pair.
CheckPair(r, p) ==
    /\ pc[r] = "checking"
    /\ p \in todo[r]
    /\ Conflicts(p, TargetDate(r), op[r].booking) = {}
    /\ todo' = [todo EXCEPT ![r] = @ \ {p}]
    /\ out' = NoOut
    /\ UNCHANGED <<today, db, pc, op, snap, txDay, raced>>

\* Mutant of CheckOverlap: only creation looks at the user's other bookings.
CheckOverlapOnCreate(r) ==
    /\ pc[r] = "checking"
    /\ todo[r] = {}
    /\ IsNew(r) => UserOverlaps(op[r].pairs, TargetDate(r), op[r].user, op[r].booking) = {}
    /\ pc' = [pc EXCEPT ![r] = "commit"]
    /\ out' = NoOut
    /\ UNCHANGED <<today, db, op, snap, todo, txDay, raced>>

\* The user's own bookings of the day; nothing compares the request's slots
\* with one another.
CheckOverlap(r) ==
    /\ pc[r] = "checking"
    /\ todo[r] = {}
    /\ UserOverlaps(op[r].pairs, TargetDate(r), op[r].user, op[r].booking) = {}
    /\ pc' = [pc EXCEPT ![r] = "commit"]
    /\ out' = NoOut
    /\ UNCHANGED <<today, db, op, snap, todo, txDay, raced>>

-----------------------------------------------------------------------------
(* The writes of crud/booking.py, each one transaction.                    *)

\* Row ids are fresh uuids: a batch that no row the commit leaves in the table and
\* no row another handler has loaded belongs to.
FreshBatches(r, b) ==
    {g \in Batches :
        \A w \in (rows \ snap[r].rows) \cup UNION {snap[q].rows : q \in Requests \ {r}} :
            w.booking = b => w.batch # g}

NewRows(b, P, g) == {[booking |-> b, pair |-> p, batch |-> g] : p \in P}

\* Every other request between its first read and its commit missed this write.
NoteRace(r, b) ==
    raced' = [q \in Requests |->
                IF q # r /\ pc[q] \in {"loading", "checking", "commit", "respond"}
                THEN raced[q] \cup {b} ELSE raced[q]]

\* check_booking_date_is_not_past, evaluated on every INSERT or UPDATE of the row.
DateAllowed(r, row) == row.date >= txDay[r]

\* The transaction is over; the refresh will replace what the handler had loaded.
Committed(r) ==
    /\ pc' = [pc EXCEPT ![r] = "respond"]
    /\ txDay' = [txDay EXCEPT ![r] = None]
    /\ out' = NoOut

CommitCreate(r) ==
    /\ pc[r] = "commit" /\ IsNew(r)
    /\ \E b \in Bookings :
        LET row == [user |-> op[r].user, date |-> op[r].date, status |-> "BOOKING"]
            g   == CHOOSE g \in FreshBatches(r, b) : TRUE
        IN  /\ ~Exists(b) /\ FreshBatches(r, b) # {}
            /\ DateAllowed(r, row)
            /\ bookings' = [bookings EXCEPT ![b] = row]
            /\ rows' = rows \cup NewRows(b, op[r].pairs, g)
            /\ op' = [op EXCEPT ![r].booking = b]
            /\ NoteRace(r, b)
    /\ Committed(r)
    /\ UNCHANGED <<today, snap, todo>>

\* The ORM writes a column only when it differs from the value it loaded.
DateChanged(r)   == op[r].date # None /\ op[r].date # snap[r].row.date
StatusChanged(r) == op[r].status # None /\ op[r].status # snap[r].row.status

\* Mutant of Merged: status is written although the client left it out.
MergedUnset(r) ==
    LET row == bookings[op[r].booking]
    IN  [user   |-> row.user,
         date   |-> IF DateChanged(r) THEN op[r].date ELSE row.date,
         status |-> op[r].status]

\* Mutant of Merged: a status the client left out falls back to the column's default.
MergedDefault(r) ==
    LET row == bookings[op[r].booking]
    IN  [user   |-> row.user,
         date   |-> IF DateChanged(r) THEN op[r].date ELSE row.date,
         status |-> IF op[r].status # None THEN op[r].status ELSE "BOOKING"]

\* The row after the commit: the changed columns over whatever is committed.
Merged(r) ==
    LET row == bookings[op[r].booking]
    IN  [user   |-> row.user,
         date   |-> IF DateChanged(r) THEN op[r].date ELSE row.date,
         status |-> IF StatusChanged(r) THEN op[r].status ELSE row.status]

\* The rows deleted are those the handler loaded; a row that is gone by then is
\* only warned about.  The CHECK is spared when no column of bookings changes
\* (other columns: guest_number, note, is_active).
CommitUpdate(r) ==
    LET b == op[r].booking
        g == CHOOSE g \in FreshBatches(r, b) : TRUE
    IN  /\ pc[r] = "commit" /\ ~IsNew(r)
        /\ DateChanged(r) \/ StatusChanged(r) => DateAllowed(r, Merged(r))
        /\ op[r].pairs # None => FreshBatches(r, b) # {}
        /\ bookings' = [bookings EXCEPT ![b] = Merged(r)]
        /\ rows' = IF op[r].pairs = None THEN rows
                   ELSE (rows \ snap[r].rows) \cup NewRows(b, op[r].pairs, g)
        /\ NoteRace(r, b)
        /\ snap' = [snap EXCEPT ![r] = NoSnap]
        /\ Committed(r)
        /\ UNCHANGED <<today, op, todo>>

-----------------------------------------------------------------------------
(* After the commit: refresh, notify_booking_status, clean_cache.          *)

\* Mutant of Notices: a change is announced like a new booking.
NoticesAlwaysNew(r, status) ==
    CASE status = "BOOKING"  -> {"booking"}
      [] status = "CANCELED" -> {"canceled"}
      [] OTHER               -> {}

\* The mail task of a request that found the booking in this status.
Notices(r, status) ==
    CASE status = "BOOKING"  -> {IF IsNew(r) THEN "booking" ELSE "modified"}
      [] status = "CANCELED" -> {"canceled"}
      [] OTHER               -> {}

\* The refresh re-reads the row, so the notice tells the status of that moment.
\* A broker error is logged and swallowed (published is FALSE).
Respond(r, published) ==
    LET b == op[r].booking
    IN  /\ pc[r] = "respond"
        /\ out' = [mail |-> IF published
                            THEN {[booking |-> b, kind |-> k] : k \in Notices(r, bookings[b].status)}
                            ELSE {},
                   tags |-> {IF IsNew(r) THEN None ELSE b}]
        /\ End(r)
        /\ UNCHANGED <<today, db>>

\* Midnight.
Tick ==
    /\ today < Midnights
    /\ today' = today + 1
    /\ out' = NoOut
    /\ UNCHANGED <<db, proc, raced>>

\* A request that cannot go on (404, 400, a constraint, a lost connection), or a
\* worker that dies.
Abort(r) == pc[r] # "idle" /\ Fail(r)

\* One step of a request's handler.
Step(r) ==
    \/ \E u \in Users, day \in Days, P \in PairSets : BeginCreate(r, u, day, P)
    \/ CheckObjects(r)
    \/ \E b \in Bookings, patch \in Patches : BeginUpdate(r, b, patch)
    \/ LoadRows(r)
    \/ \E p \in Pairs : CheckPair(r, p)
    \/ CheckOverlap(r)
    \/ CommitCreate(r)
    \/ CommitUpdate(r)
    \/ \E published \in BOOLEAN : Respond(r, published)
    \/ Abort(r)

Next == Tick \/ \E r \in Requests : Step(r)

Spec == Init /\ [][Next]_vars

-----------------------------------------------------------------------------
(* Properties.                                                             *)

\* The tables and the handlers' variables hold what the code stores in them.
TypeOK ==
    /\ today \in Days
    /\ bookings \in [Bookings -> Optional(BookingRow)]
    /\ rows \subseteq PairRow
    /\ pc \in [Requests -> {"idle", "objects", "loading", "checking", "commit", "respond"}]
    /\ op \in [Requests -> Optional(Ops)]
    /\ snap \in [Requests -> Snaps]
    /\ todo \in [Requests -> SUBSET Pairs]
    /\ txDay \in [Requests -> Optional(Days)]
    /\ raced \in [Requests -> SUBSET Bookings]
    /\ out \in [mail : SUBSET [booking : Bookings, kind : {"booking", "modified", "canceled"}],
                tags : SUBSET Optional(Bookings)]

\* Bookings b and c take the same table in the same slot of the same day.
Clash(b, c) ==
    /\ b # c /\ Live(b) /\ Live(c) /\ bookings[b].date = bookings[c].date
    /\ \E p \in Pairs : Holds(b, p) /\ Holds(c, p)

\* One user's bookings b and c overlap in time.
UserClash(b, c) ==
    /\ b # c /\ Live(b) /\ Live(c)
    /\ bookings[b].date = bookings[c].date /\ bookings[b].user = bookings[c].user
    /\ \E v, w \in rows : v.booking = b /\ w.booking = c /\ Overlap(v.pair[2], w.pair[2])

\* README.md line 3: the service excludes double bookings.
NoDoubleBooking == \A b, c \in Bookings : ~Clash(b, c)

\* BOOKING_USER_OVERLAP_ERROR: a user's bookings must not overlap in time.
NoUserOverlap == \A b, c \in Bookings : ~UserClash(b, c)

-----------------------------------------------------------------------------
(* What the code does guarantee, whatever the interleaving.                *)

\* What check_no_conflicts and check_no_user_overlap are worth by the time of the
\* commit: whatever stands in the way of a request was written by another request
\* while this one was between its first read and its commit.
ConflictsOnlyFromRaces ==
    \A r \in Requests : pc[r] \in {"checking", "commit"} /\ op[r].pairs # None =>
        \A p \in op[r].pairs \ todo[r] :
            Conflicts(p, TargetDate(r), op[r].booking) \subseteq raced[r]

\* The same of the user's own bookings, once check_no_user_overlap has passed.
OverlapsOnlyFromRaces ==
    \A r \in Requests : pc[r] = "commit" /\ op[r].pairs # None =>
        UserOverlaps(op[r].pairs, TargetDate(r), op[r].user, op[r].booking) \subseteq raced[r]

\* Request r commits in this step, to booking b.
Commits(r, b) == pc[r] = "commit" /\ pc'[r] = "respond" /\ op'[r].booking = b

\* An update without tables_slots that moves the booking to another day or brings
\* it back from CANCELED: update_booking runs no conflict check on it.
Unchecked(r) ==
    /\ ~IsNew(r) /\ op[r].pairs = None
    /\ DateChanged(r) \/ (StatusChanged(r) /\ snap[r].row.status = "CANCELED")

\* A double booking comes into being only through a request that another one
\* overtook at one of the two bookings, or through an unchecked update.
DoubleBookingNeedsRace ==
    [][\A b, c \in Bookings : ~Clash(b, c) /\ Clash(b, c)' =>
        \E r \in Requests : /\ Commits(r, b) \/ Commits(r, c)
                            /\ raced[r] \cap {b, c} # {} \/ Unchecked(r)]_vars

\* The same of one user's overlapping bookings.
OverlapNeedsRace ==
    [][\A b, c \in Bookings : ~UserClash(b, c) /\ UserClash(b, c)' =>
        \E r \in Requests : /\ Commits(r, b) \/ Commits(r, c)
                            /\ raced[r] \cap {b, c} # {} \/ Unchecked(r)]_vars

\* check_can_modify: an ACTIVE booking, or one of a day already past when the
\* request's transaction began, is changed only by a request that was overtaken
\* after it had loaded the booking.
LockedNeedsRace ==
    [][\A b \in Bookings : Exists(b) /\ <<bookings[b], RowsOf(b)>> # <<bookings[b], RowsOf(b)>>' =>
        \E r \in Requests :
            /\ Commits(r, b)
            /\ bookings[b].status = "ACTIVE" \/ bookings[b].date < txDay[r] => b \in raced[r]]_vars

\* An update that names its pairs leaves the booking with exactly those pairs,
\* unless another request wrote the booking meanwhile: then pairs of both remain.
PairsReplaced ==
    [][\A r \in Requests, b \in Bookings :
        Commits(r, b) /\ op[r].pairs # None =>
            /\ op[r].pairs \subseteq {w.pair : w \in RowsOf(b)'}
            /\ b \notin raced[r] => {w.pair : w \in RowsOf(b)'} = op[r].pairs]_vars

\* A request that nobody overtook mails the customer about what it committed
\* itself: the booking it made, the change, or the cancellation.
MailTellsOwnCommit ==
    [][\A m \in out'.mail :
        \E r \in Requests :
            /\ pc[r] = "respond" /\ op[r].booking = m.booking
            /\ m.booking \in raced[r]
               \/ /\ m.kind = "booking"  <=> IsNew(r)
                  /\ m.kind = "canceled" <=> bookings[m.booking].status = "CANCELED"
                  /\ op[r].status # None => (m.kind = "canceled" <=> op[r].status = "CANCELED")]_vars

-----------------------------------------------------------------------------
(* Clients that send no unchecked update.  With one request at a time the  *)
(* service then keeps the promise of Reservations.                         *)

DisciplinedNext ==
    Tick \/ \E r \in Requests : Step(r) /\ (pc'[r] = "commit" => ~Unchecked(r)')

DisciplinedSpec == Init /\ [][DisciplinedNext]_vars

\* The booking as a customer sees it: what it takes, or nothing.
Holding(b) ==
    IF Live(b) THEN [user |-> bookings[b].user, date |-> bookings[b].date,
                     pairs |-> {w.pair : w \in RowsOf(b)}]
    ELSE None

Promise == INSTANCE Reservations
    WITH held <- [b \in Bookings |-> Holding(b)],
         Overlapping <- {s \in Slots \X Slots : Overlap(s[1], s[2])}

\* The committed tables behave like a ledger in which every reservation is
\* checked and entered in one step.
ImplementsReservations == Promise!Spec
=============================================================================
