--------------------------- MODULE BookingProofs ---------------------------
(***************************************************************************)
(* What Booking guarantees for any number of requests, bookings, tables    *)
(* and slots.  The inductive invariant says what a request may rely on at  *)
(* the moment it commits: the booking it loaded and the conflicts it       *)
(* looked for are still what it saw, except at the bookings in raced.      *)
(***************************************************************************)
EXTENDS Booking, TLAPS

\* The stages at which a request has read bookings and not yet committed.
Reading == {"loading", "checking", "commit"}

\* What is filled in at each stage of the handler of q.
ControlAt(q) ==
    /\ pc[q] # "idle" => op[q] \in Ops
    /\ pc[q] = "objects" => IsNew(q)
    /\ pc[q] \in {"idle", "objects"} => raced[q] = {}
    /\ pc[q] \in Reading => txDay[q] \in Days
    /\ pc[q] \in {"objects"} \cup Reading /\ IsNew(q) =>
        op[q].booking = None /\ op[q].date # None /\ op[q].pairs # None
    /\ pc[q] \in Reading /\ ~IsNew(q) =>
        /\ op[q].booking # None /\ Exists(op[q].booking) /\ snap[q].row # None
        /\ op[q].user = bookings[op[q].booking].user
        /\ op[q].user = snap[q].row.user
    /\ pc[q] = "loading" => ~IsNew(q)
    /\ pc[q] = "checking" => op[q].pairs # None
    /\ pc[q] = "commit" => todo[q] = {}
    /\ pc[q] = "respond" => op[q].booking # None /\ Exists(op[q].booking)

Control == \A q \in Requests : ControlAt(q)

\* Pair rows belong to bookings that exist; an update that has loaded them holds
\* rows of its own booking, and no other handler holds any.
OwnRows ==
    /\ \A w \in rows : Exists(w.booking)
    /\ \A r \in Requests : \A w \in snap[r].rows :
        pc[r] \in {"checking", "commit"} /\ ~IsNew(r) /\ w.booking = op[r].booking

\* A booking nobody else wrote is still as the handler loaded it.
SnapshotFresh ==
    \A r \in Requests :
        pc[r] \in Reading /\ ~IsNew(r) /\ op[r].booking \notin raced[r] =>
            /\ bookings[op[r].booking] = snap[r].row
            /\ pc[r] # "loading" => RowsOf(op[r].booking) = snap[r].rows

IInv == TypeOK /\ Control /\ OwnRows /\ SnapshotFresh
            /\ ConflictsOnlyFromRaces /\ OverlapsOnlyFromRaces

-----------------------------------------------------------------------------
(* Typing.                                                                 *)

LEMMA InitInv == Init => IInv
<1> SUFFICES ASSUME Init PROVE IInv
    OBVIOUS
<1>1. TypeOK
    BY ConstantsAssumption DEF Init, TypeOK, Days, Optional, Snaps, NoSnap, NoOut
<1>2. Control /\ OwnRows /\ SnapshotFresh
    BY DEF Init, Control, ControlAt, OwnRows, SnapshotFresh, Reading, NoSnap
<1>3. ConflictsOnlyFromRaces /\ OverlapsOnlyFromRaces
    BY DEF Init, ConflictsOnlyFromRaces, OverlapsOnlyFromRaces
<1> QED
    BY <1>1, <1>2, <1>3 DEF IInv

\* What a handler that ends leaves behind.
LEMMA EndType ==
    ASSUME TypeOK, NEW r \in Requests, End(r)
    PROVE  /\ pc' \in [Requests -> {"idle", "objects", "loading", "checking", "commit", "respond"}]
           /\ op' \in [Requests -> Optional(Ops)]
           /\ snap' \in [Requests -> Snaps]
           /\ todo' \in [Requests -> SUBSET Pairs]
           /\ txDay' \in [Requests -> Optional(Days)]
           /\ raced' \in [Requests -> SUBSET Bookings]
<1>1. NoSnap \in Snaps
    BY DEF NoSnap, Snaps, Optional
<1> QED
    BY <1>1 DEF End, TypeOK, Optional

LEMMA NoOutType ==
    NoOut \in [mail : SUBSET [booking : Bookings, kind : {"booking", "modified", "canceled"}],
               tags : SUBSET Optional(Bookings)]
    BY DEF NoOut

LEMMA NewRowsType ==
    ASSUME NEW b \in Bookings, NEW P \in SUBSET Pairs, NEW g \in Batches
    PROVE  NewRows(b, P, g) \in SUBSET PairRow
    BY DEF NewRows, PairRow

LEMMA NewRowsPairs ==
    ASSUME NEW b, NEW P, NEW g
    PROVE  {w.pair : w \in NewRows(b, P, g)} = P
<1>1. ASSUME NEW p \in P
      PROVE  p \in {w.pair : w \in NewRows(b, P, g)}
  <2>1. [booking |-> b, pair |-> p, batch |-> g] \in NewRows(b, P, g)
    BY DEF NewRows
  <2> QED
    BY <2>1
<1>2. ASSUME NEW w \in NewRows(b, P, g)
      PROVE  w.pair \in P
    BY DEF NewRows
<1> QED
    BY <1>1, <1>2

\* The writes keep the types of the two tables.
LEMMA CommitType ==
    ASSUME TypeOK, Control, NEW r \in Requests, CommitCreate(r) \/ CommitUpdate(r)
    PROVE  TypeOK'
<1>1. op[r] \in Ops
    BY DEF Control, ControlAt, CommitCreate, CommitUpdate
<1>2. CASE CommitCreate(r)
  <2>1. PICK b \in Bookings :
            /\ ~Exists(b) /\ FreshBatches(r, b) # {}
            /\ bookings' = [bookings EXCEPT ![b] = [user |-> op[r].user, date |-> op[r].date,
                                                   status |-> "BOOKING"]]
            /\ rows' = rows \cup NewRows(b, op[r].pairs, CHOOSE g \in FreshBatches(r, b) : TRUE)
            /\ op' = [op EXCEPT ![r].booking = b]
            /\ NoteRace(r, b)
    BY <1>2 DEF CommitCreate
  <2>2. op[r].date \in Days /\ op[r].pairs \in SUBSET Pairs /\ op[r].user \in Users
    BY <1>1, <1>2 DEF CommitCreate, Control, ControlAt, Reading, Ops, Optional
  <2>3. (CHOOSE g \in FreshBatches(r, b) : TRUE) \in Batches
    BY <2>1 DEF FreshBatches
  <2>4. bookings' \in [Bookings -> Optional(BookingRow)]
    BY <2>1, <2>2 DEF TypeOK, Optional, BookingRow, Statuses
  <2>5. rows' \subseteq PairRow
    BY <2>1, <2>2, <2>3, NewRowsType DEF TypeOK
  <2>6. op' \in [Requests -> Optional(Ops)]
    BY <1>1, <2>1 DEF TypeOK, Ops, Optional
  <2>7. raced' \in [Requests -> SUBSET Bookings]
    BY <2>1 DEF TypeOK, NoteRace
  <2>8. /\ today' = today /\ snap' = snap /\ todo' = todo
        /\ pc' \in [Requests -> {"idle", "objects", "loading", "checking", "commit", "respond"}]
        /\ txDay' \in [Requests -> Optional(Days)]
        /\ out' = NoOut
    BY <1>2 DEF CommitCreate, Committed, TypeOK, Optional
  <2> QED
    BY <2>4, <2>5, <2>6, <2>7, <2>8, NoOutType DEF TypeOK
<1>3. CASE CommitUpdate(r)
  <2> DEFINE b == op[r].booking
  <2>1. b \in Bookings /\ bookings[b] \in BookingRow
    BY <1>1, <1>3 DEF CommitUpdate, Control, ControlAt, Reading, Ops, Optional, TypeOK, Exists
  <2>2. Merged(r) \in BookingRow
    BY <1>1, <2>1 DEF Merged, BookingRow, DateChanged, StatusChanged, Ops, Optional
  <2>3. bookings' \in [Bookings -> Optional(BookingRow)]
    BY <1>3, <2>1, <2>2 DEF CommitUpdate, TypeOK, Optional
  <2>4. rows' \subseteq PairRow
    <3>1. CASE op[r].pairs = None
      BY <1>3, <3>1 DEF CommitUpdate, TypeOK
    <3>2. CASE op[r].pairs # None
      <4> DEFINE g == CHOOSE g \in FreshBatches(r, b) : TRUE
      <4>1. g \in Batches
        BY <1>3, <3>2 DEF CommitUpdate, FreshBatches
      <4>2. op[r].pairs \in SUBSET Pairs
        BY <1>1, <3>2 DEF Ops, Optional
      <4>3. rows' = (rows \ snap[r].rows) \cup NewRows(b, op[r].pairs, g)
        BY <1>3, <3>2 DEF CommitUpdate
      <4> HIDE DEF g
      <4> QED
        BY <2>1, <4>1, <4>2, <4>3, NewRowsType DEF TypeOK
    <3> QED
      BY <3>1, <3>2
  <2>5. raced' \in [Requests -> SUBSET Bookings]
    BY <1>3, <2>1 DEF CommitUpdate, TypeOK, NoteRace
  <2>6. NoSnap \in Snaps
    BY DEF NoSnap, Snaps, Optional
  <2>7. /\ today' = today /\ op' = op /\ todo' = todo
        /\ snap' \in [Requests -> Snaps]
        /\ pc' \in [Requests -> {"idle", "objects", "loading", "checking", "commit", "respond"}]
        /\ txDay' \in [Requests -> Optional(Days)]
        /\ out' = NoOut
    BY <1>3, <2>6 DEF CommitUpdate, Committed, TypeOK, Optional
  <2> QED
    BY <2>3, <2>4, <2>5, <2>7, NoOutType DEF TypeOK
<1> QED
    BY <1>2, <1>3

LEMMA UpdateOpType ==
    ASSUME TypeOK, NEW b \in Bookings, Exists(b), NEW patch \in Patches
    PROVE  [kind |-> "update", user |-> bookings[b].user, booking |-> b,
            date |-> patch.date, status |-> patch.status, pairs |-> patch.pairs] \in Ops
<1>1. bookings[b].user \in Users
    BY DEF Exists, TypeOK, BookingRow, Optional
<1> QED
    BY <1>1, ConstantsAssumption DEF Ops, Patch, Optional

\* Every other step keeps the types of the request's local state.
LEMMA StepType ==
    ASSUME TypeOK, Control, Next
    PROVE  TypeOK'
<1> USE DEF Optional
<1>1. CASE Tick
    BY <1>1, ConstantsAssumption, NoOutType DEF Tick, TypeOK, Days, db, proc
<1>2. ASSUME NEW r \in Requests, NEW user \in Users, NEW day \in Days, NEW P \in PairSets,
             BeginCreate(r, user, day, P)
      PROVE  TypeOK'
  <2>1. [kind |-> "create", user |-> user, booking |-> None,
         date |-> day, status |-> None, pairs |-> P] \in Ops
    BY ConstantsAssumption DEF Ops
  <2> QED
    BY <1>2, <2>1, NoOutType DEF BeginCreate, TypeOK, db
<1>3. ASSUME NEW r \in Requests, CheckObjects(r)
      PROVE  TypeOK'
  <2>1. op[r].pairs \in SUBSET Pairs
    BY <1>3 DEF CheckObjects, Control, ControlAt, Ops
  <2> QED
    BY <1>3, <2>1, NoOutType DEF CheckObjects, TypeOK, db
<1>4. ASSUME NEW r \in Requests, NEW b \in Bookings, NEW patch \in Patches,
             BeginUpdate(r, b, patch)
      PROVE  TypeOK'
  <2>1. bookings[b] \in BookingRow
    BY <1>4 DEF BeginUpdate, Exists, TypeOK
  <2>2. [kind |-> "update", user |-> bookings[b].user, booking |-> b,
         date |-> patch.date, status |-> patch.status, pairs |-> patch.pairs] \in Ops
    BY <1>4, UpdateOpType DEF BeginUpdate
  <2>3. snap' \in [Requests -> Snaps]
    BY <1>4, <2>1 DEF BeginUpdate, TypeOK, Snaps
  <2> QED
    BY <1>4, <2>2, <2>3, NoOutType DEF BeginUpdate, TypeOK, db
<1>5. ASSUME NEW r \in Requests, LoadRows(r)
      PROVE  TypeOK'
  <2>1. RowsOf(op[r].booking) \in SUBSET PairRow
    BY DEF RowsOf, TypeOK
  <2>2. snap' \in [Requests -> Snaps]
    BY <1>5, <2>1 DEF LoadRows, TypeOK, Snaps
  <2>3. op[r].pairs # None => op[r].pairs \in SUBSET Pairs
    BY <1>5 DEF LoadRows, Control, ControlAt, Ops
  <2> QED
    BY <1>5, <2>2, <2>3, NoOutType DEF LoadRows, TypeOK, db
<1>6. ASSUME NEW r \in Requests, NEW p \in Pairs, CheckPair(r, p)
      PROVE  TypeOK'
    BY <1>6, NoOutType DEF CheckPair, TypeOK, db
<1>7. ASSUME NEW r \in Requests, CheckOverlap(r)
      PROVE  TypeOK'
    BY <1>7, NoOutType DEF CheckOverlap, TypeOK, db
<1>8. ASSUME NEW r \in Requests, CommitCreate(r) \/ CommitUpdate(r)
      PROVE  TypeOK'
    BY <1>8, CommitType
<1>9. ASSUME NEW r \in Requests, NEW published \in BOOLEAN, Respond(r, published)
      PROVE  TypeOK'
  <2>1. op[r].booking \in Bookings
    BY <1>9 DEF Respond, Control, ControlAt, Ops
  <2>2. Notices(r, bookings[op[r].booking].status) \subseteq {"booking", "modified", "canceled"}
    BY DEF Notices
  <2>3. out' \in [mail : SUBSET [booking : Bookings, kind : {"booking", "modified", "canceled"}],
                 tags : SUBSET Optional(Bookings)]
    BY <1>9, <2>1, <2>2 DEF Respond
  <2> QED
    BY <1>9, <2>3, EndType DEF Respond, TypeOK, db
<1>10. ASSUME NEW r \in Requests, Abort(r)
       PROVE  TypeOK'
    BY <1>10, EndType, NoOutType DEF Abort, Fail, TypeOK, db
<1> QED
    BY <1>1, <1>2, <1>3, <1>4, <1>5, <1>6, <1>7, <1>8, <1>9, <1>10 DEF Next, Step

-----------------------------------------------------------------------------
(* The stages of a handler.                                                *)

\* A step that leaves the tables alone and touches one request's local state.
LEMMA ControlOther ==
    ASSUME TypeOK, Control, NEW r \in Requests, NEW q \in Requests, q # r,
           pc'[q] = pc[q], op'[q] = op[q], snap'[q] = snap[q], todo'[q] = todo[q],
           txDay'[q] = txDay[q], pc[q] \in {"idle", "objects"} => raced'[q] = raced[q],
           \A b \in Bookings : Exists(b) =>
               bookings'[b] # None /\ bookings'[b].user = bookings[b].user
    PROVE  ControlAt(q)'
<1>1. ControlAt(q)
    BY DEF Control
<1>2. pc[q] # "idle" => op[q].booking \in Optional(Bookings)
    BY <1>1 DEF ControlAt, Ops
<1> QED
    BY <1>1, <1>2 DEF ControlAt, IsNew, Exists, Reading, Optional

LEMMA ControlEnd ==
    ASSUME TypeOK, Control, NEW r \in Requests, End(r), UNCHANGED bookings
    PROVE  Control'
<1>1. ASSUME NEW q \in Requests, q # r
      PROVE  ControlAt(q)'
    BY <1>1, ControlOther DEF End, TypeOK, Exists
<1>2. ControlAt(r)'
    BY DEF End, TypeOK, ControlAt, Reading
<1> QED
    BY <1>1, <1>2 DEF Control

LEMMA ControlCommit ==
    ASSUME TypeOK, TypeOK', Control, NEW r \in Requests, CommitCreate(r) \/ CommitUpdate(r)
    PROVE  Control'
<1>1. \A b \in Bookings : Exists(b) =>
        bookings'[b] # None /\ bookings'[b].user = bookings[b].user
  <2>1. CASE CommitCreate(r)
    BY <2>1 DEF CommitCreate, Exists, TypeOK
  <2>2. CASE CommitUpdate(r)
    <3>1. Merged(r) # None /\ Merged(r).user = bookings[op[r].booking].user
      BY <2>2, NoneAssumption DEF CommitUpdate, Merged, Control, ControlAt, Reading, TypeOK,
         BookingRow, Optional, Exists, Ops, DateChanged, StatusChanged
    <3> QED
      BY <2>2, <3>1 DEF CommitUpdate, Exists, TypeOK
  <2> QED
    BY <2>1, <2>2
<1>2. ASSUME NEW q \in Requests, q # r
      PROVE  ControlAt(q)'
  <2>1. /\ pc'[q] = pc[q] /\ op'[q] = op[q] /\ snap'[q] = snap[q] /\ todo'[q] = todo[q]
        /\ txDay'[q] = txDay[q] /\ (pc[q] \in {"idle", "objects"} => raced'[q] = raced[q])
    BY <1>2 DEF CommitCreate, CommitUpdate, Committed, NoteRace, TypeOK
  <2> QED
    BY <1>1, <1>2, <2>1, ControlOther
<1>3. ControlAt(r)'
  <2>1. pc'[r] = "respond" /\ op'[r] \in Ops
    <3>1. pc'[r] = "respond" /\ op[r] \in Ops
      BY DEF CommitCreate, CommitUpdate, Committed, TypeOK, Control, ControlAt
    <3>2. CASE CommitCreate(r)
      <4>1. PICK b \in Bookings : op' = [op EXCEPT ![r].booking = b]
        BY <3>2 DEF CommitCreate
      <4>2. op'[r] = [op[r] EXCEPT !.booking = b]
        BY <4>1 DEF TypeOK
      <4>3. op'[r] \in Ops
        BY <3>1, <4>2 DEF Ops, Optional
      <4> QED
        BY <3>1, <4>3
    <3>3. CASE CommitUpdate(r)
      BY <3>1, <3>3 DEF CommitUpdate
    <3> QED
      BY <3>1, <3>2, <3>3
  <2>2. op'[r].booking # None /\ bookings'[op'[r].booking] # None
    <3>1. CASE CommitCreate(r)
      <4>1. PICK b \in Bookings :
                /\ bookings' = [bookings EXCEPT ![b] = [user |-> op[r].user, date |-> op[r].date,
                                                       status |-> "BOOKING"]]
                /\ op' = [op EXCEPT ![r].booking = b]
        BY <3>1 DEF CommitCreate
      <4>2. op'[r].booking = b /\ b # None
        BY <4>1, <2>1, NoneAssumption DEF TypeOK, Control, ControlAt, Ops, Optional
      <4>3. [user |-> op[r].user, date |-> op[r].date, status |-> "BOOKING"] \in BookingRow
        BY <3>1 DEF CommitCreate, Control, ControlAt, Reading, Ops, Optional, BookingRow, Statuses
      <4> QED
        BY <4>1, <4>2, <4>3, NoneAssumption DEF TypeOK, BookingRow
    <3>2. CASE CommitUpdate(r)
      BY <1>1, <3>2 DEF CommitUpdate, Control, ControlAt, Reading, Ops, Optional
    <3> QED
      BY <3>1, <3>2
  <2> QED
    BY <2>1, <2>2 DEF ControlAt, Reading, Exists
<1> QED
    BY <1>2, <1>3 DEF Control

LEMMA ControlStep ==
    ASSUME TypeOK, TypeOK', Control, Next
    PROVE  Control'
<1>1. CASE Tick
    BY <1>1 DEF Tick, db, proc, Control, ControlAt, IsNew, Exists
<1>2. ASSUME NEW r \in Requests, NEW user \in Users, NEW day \in Days, NEW P \in PairSets,
             BeginCreate(r, user, day, P)
      PROVE  Control'
  <2>1. ASSUME NEW q \in Requests, q # r
        PROVE  ControlAt(q)'
    BY <1>2, <2>1, ControlOther DEF BeginCreate, TypeOK, db, Exists
  <2>2. ControlAt(r)'
    <3>1. /\ pc'[r] = "objects" /\ op'[r] \in Ops /\ raced'[r] = {}
          /\ op'[r].kind = "create" /\ op'[r].booking = None /\ op'[r].date = day
          /\ op'[r].pairs = P
      BY <1>2, ConstantsAssumption DEF BeginCreate, TypeOK, Control, ControlAt, Ops, Optional
    <3>2. day # None /\ P # None
      BY NoneAssumption, ConstantsAssumption
    <3> QED
      BY <3>1, <3>2 DEF ControlAt, Reading, IsNew
  <2> QED
    BY <2>1, <2>2 DEF Control
<1>3. ASSUME NEW r \in Requests, CheckObjects(r)
      PROVE  Control'
  <2>1. ASSUME NEW q \in Requests, q # r
        PROVE  ControlAt(q)'
    BY <1>3, <2>1, ControlOther DEF CheckObjects, TypeOK, db, Exists
  <2>2. ControlAt(r)'
    BY <1>3 DEF CheckObjects, TypeOK, Control, ControlAt, Reading, IsNew
  <2> QED
    BY <2>1, <2>2 DEF Control
<1>4. ASSUME NEW r \in Requests, NEW b \in Bookings, NEW patch \in Patches,
             BeginUpdate(r, b, patch)
      PROVE  Control'
  <2>1. ASSUME NEW q \in Requests, q # r
        PROVE  ControlAt(q)'
    BY <1>4, <2>1, ControlOther DEF BeginUpdate, TypeOK, db, Exists
  <2>2. /\ pc'[r] = "loading" /\ op'[r] \in Ops /\ op'[r].kind = "update"
        /\ op'[r].booking = b /\ op'[r].user = bookings[b].user /\ txDay'[r] = today
        /\ snap'[r].row = bookings[b] /\ UNCHANGED bookings
    BY <1>4, UpdateOpType DEF BeginUpdate, TypeOK, Snaps, db
  <2>3. b # None /\ bookings[b] # None
    BY <1>4, NoneAssumption DEF BeginUpdate, Exists
  <2>4. ControlAt(r)'
    BY <2>2, <2>3 DEF ControlAt, Reading, IsNew, Exists, TypeOK
  <2> QED
    BY <2>1, <2>4 DEF Control
<1>5. ASSUME NEW r \in Requests, LoadRows(r)
      PROVE  Control'
  <2>1. ASSUME NEW q \in Requests, q # r
        PROVE  ControlAt(q)'
    BY <1>5, <2>1, ControlOther DEF LoadRows, TypeOK, db, Exists
  <2>2. /\ pc'[r] \in {"checking", "commit"} /\ UNCHANGED <<op, bookings, txDay, raced>>
        /\ snap'[r].row = snap[r].row
        /\ pc'[r] = "checking" => op[r].pairs # None
        /\ pc'[r] = "commit" => todo'[r] = {}
    BY <1>5 DEF LoadRows, TypeOK, db, Snaps
  <2>3. ControlAt(r) /\ pc[r] = "loading"
    BY <1>5 DEF LoadRows, Control
  <2>4. ControlAt(r)'
    BY <2>2, <2>3 DEF ControlAt, Reading, IsNew, Exists
  <2> QED
    BY <2>1, <2>4 DEF Control
<1>6. ASSUME NEW r \in Requests, NEW p \in Pairs, CheckPair(r, p)
      PROVE  Control'
  <2>1. ASSUME NEW q \in Requests, q # r
        PROVE  ControlAt(q)'
    BY <1>6, <2>1, ControlOther DEF CheckPair, TypeOK, db, Exists
  <2>2. ControlAt(r)'
    BY <1>6 DEF CheckPair, Control, ControlAt, IsNew, Exists, db
  <2> QED
    BY <2>1, <2>2 DEF Control
<1>7. ASSUME NEW r \in Requests, CheckOverlap(r)
      PROVE  Control'
  <2>1. ASSUME NEW q \in Requests, q # r
        PROVE  ControlAt(q)'
    BY <1>7, <2>1, ControlOther DEF CheckOverlap, TypeOK, db, Exists
  <2>2. ControlAt(r)'
    BY <1>7 DEF CheckOverlap, TypeOK, Control, ControlAt, Reading, IsNew, Exists, db
  <2> QED
    BY <2>1, <2>2 DEF Control
<1>8. ASSUME NEW r \in Requests, CommitCreate(r) \/ CommitUpdate(r)
      PROVE  Control'
    BY <1>8, ControlCommit
<1>9. ASSUME NEW r \in Requests, NEW published \in BOOLEAN, Respond(r, published)
      PROVE  Control'
    BY <1>9, ControlEnd DEF Respond, db
<1>10. ASSUME NEW r \in Requests, Abort(r)
       PROVE  Control'
    BY <1>10, ControlEnd DEF Abort, Fail, db
<1> QED
    BY <1>1, <1>2, <1>3, <1>4, <1>5, <1>6, <1>7, <1>8, <1>9, <1>10 DEF Next, Step

-----------------------------------------------------------------------------
(* A commit writes one booking and leaves every other alone.               *)

LEMMA CommitWrites ==
    ASSUME TypeOK, TypeOK', Control, Control', OwnRows, NEW r \in Requests,
           CommitCreate(r) \/ CommitUpdate(r)
    PROVE  \E b \in Bookings :
              /\ Commits(r, b) /\ bookings'[b] # None
              /\ \A c \in Bookings \ {b} : bookings'[c] = bookings[c]
              /\ \A w \in PairRow : w.booking # b => (w \in rows' <=> w \in rows)
              /\ NoteRace(r, b)
              /\ \A q \in Requests \ {r} :
                    /\ pc'[q] = pc[q] /\ op'[q] = op[q] /\ snap'[q] = snap[q]
                    /\ todo'[q] = todo[q] /\ txDay'[q] = txDay[q]
              /\ IsNew(r)' = IsNew(r)
              /\ snap'[r].rows = {}
<1>1. op[r] \in Ops /\ pc[r] = "commit" /\ pc'[r] = "respond"
    BY DEF CommitCreate, CommitUpdate, Committed, Control, ControlAt, TypeOK
<1>2. bookings'[op'[r].booking] # None
    BY <1>1 DEF Control, ControlAt, Exists
<1>3. \A q \in Requests \ {r} :
        /\ pc'[q] = pc[q] /\ op'[q] = op[q] /\ snap'[q] = snap[q]
        /\ todo'[q] = todo[q] /\ txDay'[q] = txDay[q]
    BY DEF CommitCreate, CommitUpdate, Committed, TypeOK
<1>4. CASE CommitCreate(r)
  <2>1. PICK b \in Bookings :
            /\ \A c \in Bookings \ {b} : bookings'[c] = bookings[c]
            /\ rows' = rows \cup NewRows(b, op[r].pairs, CHOOSE g \in FreshBatches(r, b) : TRUE)
            /\ op' = [op EXCEPT ![r].booking = b]
            /\ NoteRace(r, b)
    BY <1>4 DEF CommitCreate, TypeOK
  <2>2. op'[r].booking = b /\ op'[r].kind = op[r].kind
    BY <1>1, <2>1 DEF TypeOK, Ops
  <2>3. \A w \in PairRow : w.booking # b => (w \in rows' <=> w \in rows)
    BY <2>1 DEF NewRows
  <2>4. snap'[r].rows = {}
    BY <1>1, <1>4 DEF CommitCreate, OwnRows
  <2> QED
    BY <1>1, <1>2, <1>3, <2>1, <2>2, <2>3, <2>4 DEF Commits, IsNew
<1>5. CASE CommitUpdate(r)
  <2> DEFINE b == op[r].booking
  <2>1. b \in Bookings
    BY <1>1, <1>5 DEF CommitUpdate, Control, ControlAt, Reading, Ops, Optional
  <2>2. \A c \in Bookings \ {b} : bookings'[c] = bookings[c]
    BY <1>5 DEF CommitUpdate, TypeOK
  <2>3. \A w \in PairRow : w.booking # b => (w \in rows' <=> w \in rows)
    BY <1>5 DEF CommitUpdate, NewRows, OwnRows
  <2>4. op' = op /\ snap'[r].rows = {} /\ NoteRace(r, b)
    BY <1>5 DEF CommitUpdate, NoSnap, TypeOK
  <2> QED
    BY <1>1, <1>2, <1>3, <2>1, <2>2, <2>3, <2>4 DEF Commits, IsNew
<1> QED
    BY <1>4, <1>5

LEMMA OwnRowsStep ==
    ASSUME TypeOK, TypeOK', Control, Control', OwnRows, Next
    PROVE  OwnRows'
<1>1. CASE UNCHANGED <<bookings, rows>> /\ \E r \in Requests :
          /\ \A q \in Requests \ {r} : pc'[q] = pc[q] /\ op'[q] = op[q] /\ snap'[q] = snap[q]
          /\ snap'[r].rows = {}
    BY <1>1 DEF OwnRows, Exists, IsNew
<1>2. CASE Tick
    BY <1>2 DEF Tick, db, proc, OwnRows, Exists, IsNew
<1>3. ASSUME NEW r \in Requests, NEW user \in Users, NEW day \in Days, NEW P \in PairSets,
             BeginCreate(r, user, day, P)
      PROVE  OwnRows'
    BY <1>3, <1>1 DEF BeginCreate, OwnRows, db, TypeOK
<1>4. ASSUME NEW r \in Requests, CheckObjects(r)
      PROVE  OwnRows'
    BY <1>4, <1>1 DEF CheckObjects, OwnRows, db, TypeOK
<1>5. ASSUME NEW r \in Requests, NEW b \in Bookings, NEW patch \in Patches,
             BeginUpdate(r, b, patch)
      PROVE  OwnRows'
  <2>1. snap'[r].rows = {}
    BY <1>5 DEF BeginUpdate, OwnRows, TypeOK, Snaps
  <2> QED
    BY <1>5, <1>1, <2>1 DEF BeginUpdate, db, TypeOK
<1>6. ASSUME NEW r \in Requests, LoadRows(r)
      PROVE  OwnRows'
  <2>1. /\ snap'[r].rows = RowsOf(op[r].booking) /\ pc'[r] \in {"checking", "commit"}
        /\ UNCHANGED <<bookings, rows, op>> /\ ~IsNew(r)
    BY <1>6 DEF LoadRows, TypeOK, Snaps, db, Control, ControlAt
  <2>2. \A q \in Requests \ {r} : pc'[q] = pc[q] /\ snap'[q] = snap[q]
    BY <1>6 DEF LoadRows, TypeOK
  <2> QED
    BY <2>1, <2>2 DEF OwnRows, RowsOf, Exists, IsNew
<1>7. ASSUME NEW r \in Requests, NEW p \in Pairs, CheckPair(r, p)
      PROVE  OwnRows'
    BY <1>7 DEF CheckPair, OwnRows, Exists, IsNew, db
<1>8. ASSUME NEW r \in Requests, CheckOverlap(r)
      PROVE  OwnRows'
    BY <1>8 DEF CheckOverlap, OwnRows, Exists, IsNew, db, TypeOK
<1>9. ASSUME NEW r \in Requests, CommitCreate(r) \/ CommitUpdate(r)
      PROVE  OwnRows'
  <2>1. PICK b \in Bookings :
            /\ bookings'[b] # None
            /\ \A c \in Bookings \ {b} : bookings'[c] = bookings[c]
            /\ \A w \in PairRow : w.booking # b => (w \in rows' <=> w \in rows)
            /\ \A q \in Requests \ {r} :
                    pc'[q] = pc[q] /\ op'[q] = op[q] /\ snap'[q] = snap[q]
            /\ snap'[r].rows = {}
    BY <1>9, CommitWrites
  <2>2. \A w \in rows' : w \in PairRow /\ w.booking \in Bookings
    BY DEF TypeOK, PairRow
  <2> QED
    BY <2>1, <2>2 DEF OwnRows, Exists, IsNew
<1>10. ASSUME NEW r \in Requests, NEW published \in BOOLEAN, Respond(r, published)
      PROVE  OwnRows'
    BY <1>10, <1>1 DEF Respond, End, NoSnap, db, TypeOK
<1>11. ASSUME NEW r \in Requests, Abort(r)
       PROVE  OwnRows'
    BY <1>11, <1>1 DEF Abort, Fail, End, NoSnap, db, TypeOK
<1> QED
    BY <1>2, <1>3, <1>4, <1>5, <1>6, <1>7, <1>8, <1>9, <1>10, <1>11 DEF Next, Step

-----------------------------------------------------------------------------
(* What a handler has seen stays true except at the bookings in raced.     *)

\* The queries about a booking other requests did not write give the same answer.
LEMMA SameQueries ==
    ASSUME TypeOK, TypeOK', NEW b \in Bookings,
           \A c \in Bookings \ {b} : bookings'[c] = bookings[c],
           \A w \in PairRow : w.booking # b => (w \in rows' <=> w \in rows)
    PROVE  \A c \in Bookings \ {b} :
              /\ Live(c)' = Live(c) /\ Exists(c)' = Exists(c)
              /\ RowsOf(c)' = RowsOf(c)
              /\ \A p \in Pairs : Holds(c, p)' = Holds(c, p)
<1> SUFFICES ASSUME NEW c \in Bookings \ {b}
             PROVE  /\ Live(c)' = Live(c) /\ Exists(c)' = Exists(c)
                    /\ RowsOf(c)' = RowsOf(c)
                    /\ \A p \in Pairs : Holds(c, p)' = Holds(c, p)
    OBVIOUS
<1>1. \A w : w \in rows /\ w.booking = c <=> w \in rows' /\ w.booking = c
    BY DEF TypeOK
<1> QED
    BY <1>1 DEF Live, Exists, RowsOf, Holds

LEMMA SnapshotCommit ==
    ASSUME TypeOK, TypeOK', Control, Control', OwnRows, SnapshotFresh, NEW r \in Requests,
           CommitCreate(r) \/ CommitUpdate(r)
    PROVE  SnapshotFresh'
<1>1. PICK b \in Bookings :
          /\ Commits(r, b)
          /\ \A c \in Bookings \ {b} : bookings'[c] = bookings[c]
          /\ \A w \in PairRow : w.booking # b => (w \in rows' <=> w \in rows)
          /\ NoteRace(r, b)
          /\ \A q \in Requests \ {r} : pc'[q] = pc[q] /\ op'[q] = op[q] /\ snap'[q] = snap[q]
    BY CommitWrites
<1> SUFFICES ASSUME NEW q \in Requests, pc'[q] \in Reading, ~IsNew(q)',
                    op'[q].booking \notin raced'[q]
             PROVE  /\ bookings'[op'[q].booking] = snap'[q].row
                    /\ pc'[q] # "loading" => RowsOf(op[q].booking)' = snap'[q].rows
    BY DEF SnapshotFresh, Reading
<1>2. q # r
    BY <1>1 DEF Commits, Reading
<1>3. PICK c \in Bookings : c = op[q].booking
    BY <1>1, <1>2 DEF Control, ControlAt, Ops, Optional, Reading, IsNew
<1>4. b \in raced'[q] /\ raced[q] \subseteq raced'[q]
    BY <1>1, <1>2 DEF NoteRace, Reading
<1>5. c \in Bookings \ {b} /\ c \notin raced[q]
    BY <1>1, <1>2, <1>3, <1>4
<1>6. RowsOf(c)' = RowsOf(c) /\ bookings'[c] = bookings[c]
    BY <1>1, <1>5, SameQueries
<1>7. bookings[c] = snap[q].row /\ (pc[q] # "loading" => RowsOf(c) = snap[q].rows)
    BY <1>1, <1>2, <1>3, <1>5 DEF SnapshotFresh, IsNew
<1> QED
    BY <1>1, <1>2, <1>3, <1>6, <1>7 DEF RowsOf

LEMMA SnapshotStep ==
    ASSUME TypeOK, TypeOK', Control, Control', OwnRows, SnapshotFresh, Next
    PROVE  SnapshotFresh'
<1>1. CASE UNCHANGED db /\ \E r \in Requests :
          /\ \A q \in Requests \ {r} :
                pc'[q] = pc[q] /\ op'[q] = op[q] /\ snap'[q] = snap[q] /\ raced'[q] = raced[q]
          /\ pc'[r] \notin Reading \/ IsNew(r)'
    BY <1>1 DEF SnapshotFresh, IsNew, RowsOf, db
<1>2. CASE Tick
    BY <1>2 DEF Tick, db, proc, SnapshotFresh, IsNew, RowsOf
<1>3. ASSUME NEW r \in Requests, NEW user \in Users, NEW day \in Days, NEW P \in PairSets,
             BeginCreate(r, user, day, P)
      PROVE  SnapshotFresh'
    BY <1>3, <1>1 DEF BeginCreate, TypeOK, Reading
<1>4. ASSUME NEW r \in Requests, CheckObjects(r)
      PROVE  SnapshotFresh'
    BY <1>4, <1>1 DEF CheckObjects, TypeOK, Control, ControlAt, IsNew
<1>5. ASSUME NEW r \in Requests, NEW b \in Bookings, NEW patch \in Patches,
             BeginUpdate(r, b, patch)
      PROVE  SnapshotFresh'
  <2>1. /\ pc'[r] = "loading" /\ op'[r].booking = b /\ snap'[r].row = bookings[b]
    BY <1>5 DEF BeginUpdate, TypeOK, Snaps
  <2>2. /\ UNCHANGED <<bookings, rows, raced>>
        /\ \A q \in Requests \ {r} : pc'[q] = pc[q] /\ op'[q] = op[q] /\ snap'[q] = snap[q]
    BY <1>5 DEF BeginUpdate, TypeOK, db
  <2> QED
    BY <2>1, <2>2 DEF SnapshotFresh, IsNew, RowsOf
<1>6. ASSUME NEW r \in Requests, LoadRows(r)
      PROVE  SnapshotFresh'
  <2>1. /\ pc[r] = "loading" /\ snap'[r].row = snap[r].row
        /\ snap'[r].rows = RowsOf(op[r].booking)
    BY <1>6 DEF LoadRows, TypeOK, Snaps
  <2>2. /\ UNCHANGED <<bookings, rows, raced, op>>
        /\ \A q \in Requests \ {r} : pc'[q] = pc[q] /\ snap'[q] = snap[q]
    BY <1>6 DEF LoadRows, TypeOK, db
  <2> QED
    BY <2>1, <2>2 DEF SnapshotFresh, IsNew, RowsOf, Reading
<1>7. ASSUME NEW r \in Requests, NEW p \in Pairs, CheckPair(r, p)
      PROVE  SnapshotFresh'
    BY <1>7 DEF CheckPair, SnapshotFresh, IsNew, RowsOf, db
<1>8. ASSUME NEW r \in Requests, CheckOverlap(r)
      PROVE  SnapshotFresh'
    BY <1>8 DEF CheckOverlap, SnapshotFresh, IsNew, RowsOf, Reading, db, TypeOK
<1>9. ASSUME NEW r \in Requests, CommitCreate(r) \/ CommitUpdate(r)
      PROVE  SnapshotFresh'
    BY <1>9, SnapshotCommit
<1>10. ASSUME NEW r \in Requests, NEW published \in BOOLEAN, Respond(r, published)
      PROVE  SnapshotFresh'
    BY <1>10, <1>1 DEF Respond, End, TypeOK, Reading, db
<1>11. ASSUME NEW r \in Requests, Abort(r)
       PROVE  SnapshotFresh'
    BY <1>11, <1>1 DEF Abort, Fail, End, TypeOK, Reading, db
<1> QED
    BY <1>2, <1>3, <1>4, <1>5, <1>6, <1>7, <1>8, <1>9, <1>10, <1>11 DEF Next, Step

LEMMA ChecksCommit ==
    ASSUME TypeOK, TypeOK', Control, Control', OwnRows,
           ConflictsOnlyFromRaces, OverlapsOnlyFromRaces, NEW r \in Requests,
           CommitCreate(r) \/ CommitUpdate(r)
    PROVE  ConflictsOnlyFromRaces' /\ OverlapsOnlyFromRaces'
<1>1. PICK b \in Bookings :
          /\ Commits(r, b)
          /\ \A c \in Bookings \ {b} : bookings'[c] = bookings[c]
          /\ \A w \in PairRow : w.booking # b => (w \in rows' <=> w \in rows)
          /\ NoteRace(r, b)
          /\ \A q \in Requests \ {r} : /\ pc'[q] = pc[q] /\ op'[q] = op[q] /\ snap'[q] = snap[q]
                                       /\ todo'[q] = todo[q]
    BY CommitWrites
<1>2. ASSUME NEW q \in Requests, pc'[q] \in {"checking", "commit"}
      PROVE  /\ q # r /\ pc'[q] = pc[q] /\ op'[q] = op[q] /\ todo'[q] = todo[q]
             /\ b \in raced'[q] /\ raced[q] \subseteq raced'[q]
             /\ TargetDate(q)' = TargetDate(q)
    BY <1>1, <1>2 DEF Commits, NoteRace, TargetDate
<1>3. ASSUME NEW q \in Requests, pc'[q] \in {"checking", "commit"}, op'[q].pairs # None,
             NEW p \in op'[q].pairs \ todo'[q]
      PROVE  Conflicts(p, TargetDate(q), op[q].booking)' \subseteq raced'[q]
  <2>1. p \in Pairs
    BY <1>2, <1>3 DEF Control, ControlAt, Ops, Optional
  <2>2. Conflicts(p, TargetDate(q), op[q].booking)' \subseteq
            {b} \cup Conflicts(p, TargetDate(q), op[q].booking)
    BY <1>1, <1>2, <1>3, <2>1, SameQueries DEF Conflicts
  <2> QED
    BY <1>2, <1>3, <2>2 DEF ConflictsOnlyFromRaces
<1>4. ASSUME NEW q \in Requests, pc'[q] = "commit", op'[q].pairs # None
      PROVE  UserOverlaps(op[q].pairs, TargetDate(q), op[q].user, op[q].booking)' \subseteq raced'[q]
  <2>1. UserOverlaps(op[q].pairs, TargetDate(q), op[q].user, op[q].booking)' \subseteq
            {b} \cup UserOverlaps(op[q].pairs, TargetDate(q), op[q].user, op[q].booking)
    <3>1. ASSUME NEW c \in UserOverlaps(op[q].pairs, TargetDate(q), op[q].user, op[q].booking)', c # b
          PROVE  c \in UserOverlaps(op[q].pairs, TargetDate(q), op[q].user, op[q].booking)
      <4>1. /\ c \in Bookings /\ c # op[q].booking /\ Live(c) /\ bookings[c].date = TargetDate(q)
            /\ bookings[c].user = op[q].user
        BY <1>1, <1>2, <1>4, <3>1, SameQueries DEF UserOverlaps
      <4>2. PICK w \in rows' : w.booking = c /\ \E p \in op[q].pairs : Overlap(p[2], w.pair[2])
        BY <1>2, <1>4, <3>1 DEF UserOverlaps, Overlap
      <4>3. w \in rows
        BY <1>1, <3>1, <4>2 DEF TypeOK
      <4> QED
        BY <4>1, <4>2, <4>3 DEF UserOverlaps
    <3> QED
      BY <3>1
  <2> QED
    BY <1>2, <1>4, <2>1 DEF OverlapsOnlyFromRaces
<1> QED
    BY <1>3, <1>4 DEF ConflictsOnlyFromRaces, OverlapsOnlyFromRaces

LEMMA ChecksStep ==
    ASSUME TypeOK, TypeOK', Control, Control', OwnRows,
           ConflictsOnlyFromRaces, OverlapsOnlyFromRaces, Next
    PROVE  ConflictsOnlyFromRaces' /\ OverlapsOnlyFromRaces'
<1> USE DEF ConflictsOnlyFromRaces, OverlapsOnlyFromRaces
\* The tables stay, and the only request that changes is not past its checks.
<1>1. CASE UNCHANGED db /\ \E r \in Requests :
          /\ \A q \in Requests \ {r} :
                /\ pc'[q] = pc[q] /\ op'[q] = op[q] /\ snap'[q] = snap[q]
                /\ todo'[q] = todo[q] /\ raced'[q] = raced[q]
          /\ pc'[r] = "commit" => op'[r].pairs = None
          /\ pc'[r] = "checking" => op'[r].pairs \subseteq todo'[r]
  <2>1. PICK r \in Requests :
          /\ \A q \in Requests \ {r} :
                /\ pc'[q] = pc[q] /\ op'[q] = op[q] /\ snap'[q] = snap[q]
                /\ todo'[q] = todo[q] /\ raced'[q] = raced[q]
          /\ pc'[r] = "commit" => op'[r].pairs = None
          /\ pc'[r] = "checking" => op'[r].pairs \subseteq todo'[r]
    BY <1>1
  <2>2. bookings' = bookings /\ rows' = rows
    BY <1>1 DEF db
  <2>3. ASSUME NEW q \in Requests, q # r, pc'[q] \in {"checking", "commit"},
               op'[q].pairs # None
        PROVE  /\ \A p \in op'[q].pairs \ todo'[q] :
                    Conflicts(p, TargetDate(q), op[q].booking)' \subseteq raced'[q]
               /\ pc'[q] = "commit" =>
                    UserOverlaps(op[q].pairs, TargetDate(q), op[q].user, op[q].booking)'
                        \subseteq raced'[q]
    BY <2>1, <2>2, <2>3 DEF Conflicts, UserOverlaps, Live, Exists, Holds, TargetDate
  <2> QED
    BY <2>1, <2>3
<1>2. CASE Tick
    BY <1>2 DEF Tick, db, proc, Conflicts, UserOverlaps, Live, Exists, Holds, TargetDate
<1>3. ASSUME NEW r \in Requests, NEW user \in Users, NEW day \in Days, NEW P \in PairSets,
             BeginCreate(r, user, day, P)
      PROVE  ConflictsOnlyFromRaces' /\ OverlapsOnlyFromRaces'
    BY <1>3, <1>1 DEF BeginCreate, TypeOK
<1>4. ASSUME NEW r \in Requests, CheckObjects(r)
      PROVE  ConflictsOnlyFromRaces' /\ OverlapsOnlyFromRaces'
    BY <1>4, <1>1 DEF CheckObjects, TypeOK
<1>5. ASSUME NEW r \in Requests, NEW b \in Bookings, NEW patch \in Patches,
             BeginUpdate(r, b, patch)
      PROVE  ConflictsOnlyFromRaces' /\ OverlapsOnlyFromRaces'
    BY <1>5, <1>1 DEF BeginUpdate, TypeOK
<1>6. ASSUME NEW r \in Requests, LoadRows(r)
      PROVE  ConflictsOnlyFromRaces' /\ OverlapsOnlyFromRaces'
    BY <1>6, <1>1 DEF LoadRows, TypeOK
<1>7. ASSUME NEW r \in Requests, NEW p \in Pairs, CheckPair(r, p)
      PROVE  ConflictsOnlyFromRaces' /\ OverlapsOnlyFromRaces'
  <2>1. /\ pc[r] = "checking" /\ UNCHANGED <<pc, op, snap, raced, bookings, rows>>
        /\ \A q \in Requests \ {r} : todo'[q] = todo[q]
        /\ todo'[r] = todo[r] \ {p}
        /\ Conflicts(p, TargetDate(r), op[r].booking) = {}
    BY <1>7 DEF CheckPair, TypeOK, db
  <2>2. \A q \in Requests : TargetDate(q)' = TargetDate(q)
    BY <2>1 DEF TargetDate
  <2>3. ASSUME NEW q \in Requests, pc[q] \in {"checking", "commit"}, op[q].pairs # None,
               NEW x \in op[q].pairs \ todo'[q]
        PROVE  Conflicts(x, TargetDate(q), op[q].booking) \subseteq raced[q]
    BY <2>1, <2>3
  <2>4. ASSUME NEW q \in Requests, pc'[q] \in {"checking", "commit"}, op'[q].pairs # None,
               NEW x \in op'[q].pairs \ todo'[q]
        PROVE  Conflicts(x, TargetDate(q), op[q].booking)' \subseteq raced'[q]
    BY <2>1, <2>2, <2>3, <2>4 DEF Conflicts, Live, Exists, Holds
  <2>5. OverlapsOnlyFromRaces'
    BY <2>1, <2>2 DEF UserOverlaps, Live, Exists
  <2> QED
    BY <2>4, <2>5
<1>8. ASSUME NEW r \in Requests, CheckOverlap(r)
      PROVE  ConflictsOnlyFromRaces' /\ OverlapsOnlyFromRaces'
  <2>1. /\ pc[r] = "checking" /\ UNCHANGED <<op, snap, todo, raced, bookings, rows>>
        /\ \A q \in Requests \ {r} : pc'[q] = pc[q]
        /\ UserOverlaps(op[r].pairs, TargetDate(r), op[r].user, op[r].booking) = {}
    BY <1>8 DEF CheckOverlap, TypeOK, db
  <2>2. \A q \in Requests : TargetDate(q)' = TargetDate(q)
    BY <2>1 DEF TargetDate
  <2>3. ConflictsOnlyFromRaces'
    BY <2>1, <2>2 DEF Conflicts, Live, Exists, Holds
  <2>4. ASSUME NEW q \in Requests, pc'[q] = "commit", op'[q].pairs # None
        PROVE  UserOverlaps(op[q].pairs, TargetDate(q), op[q].user, op[q].booking)' \subseteq raced'[q]
    <3>1. UserOverlaps(op[q].pairs, TargetDate(q), op[q].user, op[q].booking) \subseteq raced[q]
      BY <2>1, <2>4
    <3> QED
      BY <2>1, <2>2, <2>4, <3>1 DEF UserOverlaps, Live, Exists
  <2> QED
    BY <2>3, <2>4
<1>9. ASSUME NEW r \in Requests, CommitCreate(r) \/ CommitUpdate(r)
      PROVE  ConflictsOnlyFromRaces' /\ OverlapsOnlyFromRaces'
    BY <1>9, ChecksCommit
<1>10. ASSUME NEW r \in Requests, NEW published \in BOOLEAN, Respond(r, published)
      PROVE  ConflictsOnlyFromRaces' /\ OverlapsOnlyFromRaces'
    BY <1>10, <1>1 DEF Respond, End, TypeOK, db
<1>11. ASSUME NEW r \in Requests, Abort(r)
       PROVE  ConflictsOnlyFromRaces' /\ OverlapsOnlyFromRaces'
    BY <1>11, <1>1 DEF Abort, Fail, End, TypeOK, db
<1> QED
    BY <1>2, <1>3, <1>4, <1>5, <1>6, <1>7, <1>8, <1>9, <1>10, <1>11 DEF Next, Step

-----------------------------------------------------------------------------
(* The invariant.                                                          *)

LEMMA NextInv == IInv /\ [Next]_vars => IInv'
<1> SUFFICES ASSUME IInv, [Next]_vars
             PROVE  IInv'
    OBVIOUS
<1>1. CASE Next
  <2>1. TypeOK'
    BY <1>1, StepType DEF IInv
  <2>2. Control'
    BY <1>1, <2>1, ControlStep DEF IInv
  <2>3. OwnRows'
    BY <1>1, <2>1, <2>2, OwnRowsStep DEF IInv
  <2>4. SnapshotFresh'
    BY <1>1, <2>1, <2>2, SnapshotStep DEF IInv
  <2>5. ConflictsOnlyFromRaces' /\ OverlapsOnlyFromRaces'
    BY <1>1, <2>1, <2>2, ChecksStep DEF IInv
  <2> QED
    BY <2>1, <2>2, <2>3, <2>4, <2>5 DEF IInv
<1>2. CASE UNCHANGED vars
    BY <1>2 DEF vars, IInv, TypeOK, Control, ControlAt, OwnRows, SnapshotFresh, RowsOf,
       ConflictsOnlyFromRaces, OverlapsOnlyFromRaces, Conflicts, UserOverlaps, Live, Exists,
       Holds, TargetDate, IsNew
<1> QED
    BY <1>1, <1>2

\* The inductive invariant: types, the handlers' control state, the freshness of what
\* they loaded, and what their checks are worth, hold in every reachable state.
THEOREM Invariance == Spec => []IInv
<1>1. Init => IInv
    BY InitInv
<1>2. IInv /\ [Next]_vars => IInv'
    BY NextInv
<1> QED
    BY <1>1, <1>2, PTL DEF Spec

\* The tables and the handlers' variables stay within their types, for any number
\* of concurrent creates and updates.
THEOREM TypeCorrect == Spec => []TypeOK
<1>1. IInv => TypeOK
    BY DEF IInv
<1> QED
    BY <1>1, Invariance, PTL

\* check_no_conflicts: at the commit, a booking that stands in a request's way was
\* written by another request after this one had begun to read.
THEOREM ConflictCheckSound == Spec => []ConflictsOnlyFromRaces
<1>1. IInv => ConflictsOnlyFromRaces
    BY DEF IInv
<1> QED
    BY <1>1, Invariance, PTL

\* check_no_user_overlap: the same of the user's other bookings of the day.
THEOREM OverlapCheckSound == Spec => []OverlapsOnlyFromRaces
<1>1. IInv => OverlapsOnlyFromRaces
    BY DEF IInv
<1> QED
    BY <1>1, Invariance, PTL

-----------------------------------------------------------------------------
(* The writes.                                                             *)

\* A step that is no commit leaves the tables as they are.
LEMMA OnlyCommitsWrite ==
    ASSUME Next, db' # db
    PROVE  \E r \in Requests : CommitCreate(r) \/ CommitUpdate(r)
    BY DEF Next, Step, Tick, BeginCreate, CheckObjects, BeginUpdate, LoadRows, CheckPair,
       CheckOverlap, Respond, Abort, Fail

\* An update that no other request overtook, and that is not unchecked, finds its
\* booking on the target day with a status that was live before, or holds exactly
\* the pairs it checked.
LEMMA QuietUpdate ==
    ASSUME TypeOK, TypeOK', Control, SnapshotFresh, NEW r \in Requests, CommitUpdate(r),
           op[r].booking \notin raced[r], ~Unchecked(r), Live(op[r].booking)'
    PROVE  /\ bookings'[op[r].booking].date = TargetDate(r)
           /\ bookings'[op[r].booking].user = op[r].user
           /\ op[r].pairs # None => {w.pair : w \in RowsOf(op[r].booking)'} = op[r].pairs
           /\ op[r].pairs = None =>
                /\ Live(op[r].booking) /\ rows' = rows
                /\ bookings'[op[r].booking].date = bookings[op[r].booking].date
<1> DEFINE b == op[r].booking
<1>1. /\ pc[r] = "commit" /\ ~IsNew(r) /\ b \in Bookings /\ bookings[b] = snap[r].row
      /\ RowsOf(b) = snap[r].rows /\ bookings[b] \in BookingRow /\ op[r] \in Ops
      /\ op[r].user = bookings[b].user /\ op'[r] = op[r]
    BY DEF CommitUpdate, Control, ControlAt, Reading, Ops, Optional, SnapshotFresh, TypeOK, Exists
<1>2. bookings'[b] = Merged(r)
    BY <1>1 DEF CommitUpdate, TypeOK
<1>3. Merged(r).date = TargetDate(r) /\ Merged(r).user = op[r].user
    BY <1>1 DEF Merged, TargetDate, DateChanged
<1>4. ASSUME op[r].pairs # None
      PROVE  {w.pair : w \in RowsOf(b)'} = op[r].pairs
  <2> DEFINE g == CHOOSE g \in FreshBatches(r, b) : TRUE
  <2>1. rows' = (rows \ snap[r].rows) \cup NewRows(b, op[r].pairs, g)
    BY <1>4 DEF CommitUpdate
  <2> HIDE DEF g
  <2>2. PICK c \in Bookings : c = b
    BY <1>1
  <2>3. RowsOf(c) = snap[r].rows
    BY <1>1, <2>2
  <2>4. rows' = (rows \ RowsOf(c)) \cup NewRows(c, op[r].pairs, g)
    BY <2>1, <2>2, <2>3
  <2>5. \A w \in NewRows(c, op[r].pairs, g) : w.booking = c
    BY DEF NewRows
  <2>6. RowsOf(c)' = NewRows(c, op[r].pairs, g)
    BY <2>4, <2>5 DEF RowsOf
  <2>7. RowsOf(b)' = RowsOf(c)'
    BY <1>1, <2>2 DEF RowsOf
  <2> QED
    BY <2>6, <2>7, NewRowsPairs
<1>5. ASSUME op[r].pairs = None
      PROVE  Live(b) /\ rows' = rows /\ Merged(r).date = bookings[b].date
  <2>1. ~DateChanged(r) /\ ~(StatusChanged(r) /\ snap[r].row.status = "CANCELED")
    BY <1>1, <1>5 DEF Unchecked
  <2>2. Merged(r).date = bookings[b].date
    BY <2>1 DEF Merged
  <2>3. Merged(r).status # "CANCELED"
    BY <1>1, <1>2 DEF Live
  <2>4. Merged(r).status = IF StatusChanged(r) THEN op[r].status ELSE bookings[b].status
    BY DEF Merged
  <2>5. bookings[b].status # "CANCELED"
    BY <1>1, <2>1, <2>3, <2>4
  <2>6. Exists(b)
    BY DEF CommitUpdate, Control, ControlAt, Reading
  <2>7. rows' = rows
    BY <1>5 DEF CommitUpdate
  <2> QED
    BY <2>2, <2>5, <2>6, <2>7 DEF Live
<1> QED
    BY <1>1, <1>2, <1>3, <1>4, <1>5 DEF RowsOf

\* What a quiet commit to b leaves there: the place it checked, or the place that
\* b already had.
LEMMA QuietCommit ==
    ASSUME IInv, TypeOK', NEW r \in Requests, CommitCreate(r) \/ CommitUpdate(r),
           NEW b \in Bookings, Commits(r, b), b \notin raced[r], ~Unchecked(r), Live(b)'
    PROVE  \/ /\ op[r].pairs # None /\ op[r].booking \in {None, b}
              /\ bookings'[b].date = TargetDate(r) /\ bookings'[b].user = op[r].user
              /\ {w.pair : w \in RowsOf(b)'} = op[r].pairs
           \/ /\ Live(b) /\ rows' = rows
              /\ bookings'[b].date = bookings[b].date /\ bookings'[b].user = bookings[b].user
<1> USE DEF IInv
<1>1. op[r] \in Ops /\ pc[r] = "commit"
    BY DEF Commits, Control, ControlAt
<1>2. CASE CommitCreate(r)
  <2> DEFINE row == [user |-> op[r].user, date |-> op[r].date, status |-> "BOOKING"]
  <2>1. PICK x \in Bookings :
            /\ ~Exists(x)
            /\ bookings' = [bookings EXCEPT ![x] = row]
            /\ rows' = rows \cup NewRows(x, op[r].pairs, CHOOSE g \in FreshBatches(r, x) : TRUE)
            /\ op' = [op EXCEPT ![r].booking = x]
    BY <1>2 DEF CommitCreate
  <2>2. x = b
    BY <1>1, <2>1 DEF Commits, TypeOK, Ops
  <2>3. op[r].pairs # None /\ op[r].booking = None /\ op[r].date # None
    BY <1>1, <1>2 DEF CommitCreate, Control, ControlAt, Reading
  <2>4. bookings'[b].date = TargetDate(r) /\ bookings'[b].user = op[r].user
    BY <2>1, <2>2, <2>3 DEF TargetDate, TypeOK
  <2>5. \A w \in rows : w.booking # b
    BY <2>1, <2>2 DEF OwnRows
  <2> DEFINE g == CHOOSE g \in FreshBatches(r, b) : TRUE
  <2>6. RowsOf(b)' = NewRows(b, op[r].pairs, g)
    BY <2>1, <2>2, <2>5 DEF RowsOf, NewRows
  <2> HIDE DEF g
  <2>7. {w.pair : w \in NewRows(b, op[r].pairs, g)} = op[r].pairs
    BY NewRowsPairs
  <2> QED
    BY <2>3, <2>4, <2>6, <2>7
<1>3. CASE CommitUpdate(r)
  <2>1. op' = op /\ op[r].booking = b /\ ~IsNew(r)
    BY <1>3 DEF CommitUpdate, Commits
  <2>2. Live(op[r].booking)'
    BY <2>1 DEF Live, Exists
  <2>3. RowsOf(op[r].booking)' = RowsOf(b)'
    BY <2>1 DEF RowsOf
  <2>4. bookings'[b].user = bookings[b].user
    BY <1>3, <2>1 DEF CommitUpdate, Merged, TypeOK
  <2> QED
    BY <1>3, <2>1, <2>2, <2>3, <2>4, QuietUpdate
<1> QED
    BY <1>2, <1>3

\* A quiet commit to b makes no double booking with another booking c.
LEMMA QuietNoClash ==
    ASSUME IInv, IInv', NEW r \in Requests, CommitCreate(r) \/ CommitUpdate(r),
           NEW b \in Bookings, NEW c \in Bookings, Commits(r, b), Clash(b, c)', ~Clash(b, c),
           b \notin raced[r], c \notin raced[r], ~Unchecked(r)
    PROVE  FALSE
<1> USE DEF IInv
<1>1. b # c /\ Live(b)' /\ Live(c)' /\ bookings'[b].date = bookings'[c].date
    BY DEF Clash
<1>2. PICK p \in Pairs : Holds(b, p)' /\ Holds(c, p)'
    BY DEF Clash
<1>3. /\ \A x \in Bookings \ {b} : bookings'[x] = bookings[x]
      /\ \A w \in PairRow : w.booking # b => (w \in rows' <=> w \in rows)
  <2>1. PICK x \in Bookings :
          /\ Commits(r, x)
          /\ \A y \in Bookings \ {x} : bookings'[y] = bookings[y]
          /\ \A w \in PairRow : w.booking # x => (w \in rows' <=> w \in rows)
    BY CommitWrites
  <2> QED
    BY <2>1 DEF Commits
<1>4. Live(c) /\ Holds(c, p) /\ bookings'[c].date = bookings[c].date
    BY <1>1, <1>2, <1>3, SameQueries
<1>5. CASE /\ op[r].pairs # None /\ op[r].booking \in {None, b}
           /\ bookings'[b].date = TargetDate(r)
           /\ {w.pair : w \in RowsOf(b)'} = op[r].pairs
  <2>1. p \in op[r].pairs \ todo[r]
    BY <1>2, <1>5 DEF Holds, RowsOf, Commits, Control, ControlAt
  <2>2. c \in Conflicts(p, TargetDate(r), op[r].booking)
    BY <1>1, <1>4, <1>5, NoneAssumption DEF Conflicts
  <2> QED
    BY <1>5, <2>1, <2>2 DEF ConflictsOnlyFromRaces, Commits
<1>6. CASE Live(b) /\ rows' = rows /\ bookings'[b].date = bookings[b].date
    BY <1>1, <1>2, <1>4, <1>6 DEF Clash, Holds
<1> QED
    BY <1>1, <1>5, <1>6, QuietCommit

LEMMA QuietNoUserClash ==
    ASSUME IInv, IInv', NEW r \in Requests, CommitCreate(r) \/ CommitUpdate(r),
           NEW b \in Bookings, NEW c \in Bookings, Commits(r, b), UserClash(b, c)', ~UserClash(b, c),
           b \notin raced[r], c \notin raced[r], ~Unchecked(r)
    PROVE  FALSE
<1> USE DEF IInv
<1>1. /\ b # c /\ Live(b)' /\ Live(c)' /\ bookings'[b].date = bookings'[c].date
      /\ bookings'[b].user = bookings'[c].user
    BY DEF UserClash
<1>2. PICK v \in rows', w \in rows' :
          v.booking = b /\ w.booking = c /\ Overlap(v.pair[2], w.pair[2])
    BY DEF UserClash, Overlap
<1>3. /\ \A x \in Bookings \ {b} : bookings'[x] = bookings[x]
      /\ \A y \in PairRow : y.booking # b => (y \in rows' <=> y \in rows)
  <2>1. PICK x \in Bookings :
          /\ Commits(r, x)
          /\ \A y \in Bookings \ {x} : bookings'[y] = bookings[y]
          /\ \A y \in PairRow : y.booking # x => (y \in rows' <=> y \in rows)
    BY CommitWrites
  <2> QED
    BY <2>1 DEF Commits
<1>4. Live(c) /\ bookings'[c] = bookings[c] /\ w \in rows
    BY <1>1, <1>2, <1>3, SameQueries DEF TypeOK
<1>5. CASE /\ op[r].pairs # None /\ op[r].booking \in {None, b}
           /\ bookings'[b].date = TargetDate(r) /\ bookings'[b].user = op[r].user
           /\ {x.pair : x \in RowsOf(b)'} = op[r].pairs
  <2>1. v.pair \in op[r].pairs
    BY <1>2, <1>5 DEF RowsOf
  <2>2. c \in UserOverlaps(op[r].pairs, TargetDate(r), op[r].user, op[r].booking)
    BY <1>1, <1>2, <1>4, <1>5, <2>1, NoneAssumption DEF UserOverlaps
  <2> QED
    BY <1>5, <2>2 DEF OverlapsOnlyFromRaces, Commits
<1>6. CASE /\ Live(b) /\ rows' = rows
           /\ bookings'[b].date = bookings[b].date /\ bookings'[b].user = bookings[b].user
    BY <1>1, <1>2, <1>4, <1>6 DEF UserClash
<1> QED
    BY <1>1, <1>5, <1>6, QuietCommit

LEMMA NewClashNeedsRace ==
    ASSUME IInv, IInv', Next, NEW b \in Bookings, NEW c \in Bookings
    PROVE  /\ ~Clash(b, c) /\ Clash(b, c)' =>
                \E r \in Requests : /\ Commits(r, b) \/ Commits(r, c)
                                    /\ raced[r] \cap {b, c} # {} \/ Unchecked(r)
           /\ ~UserClash(b, c) /\ UserClash(b, c)' =>
                \E r \in Requests : /\ Commits(r, b) \/ Commits(r, c)
                                    /\ raced[r] \cap {b, c} # {} \/ Unchecked(r)
<1>1. CASE db' = db
    BY <1>1 DEF db, Clash, UserClash, Live, Exists, Holds
<1>2. CASE db' # db
  <2>1. PICK r \in Requests : CommitCreate(r) \/ CommitUpdate(r)
    BY <1>2, OnlyCommitsWrite
  <2>2. PICK x \in Bookings :
          /\ Commits(r, x)
          /\ \A y \in Bookings \ {x} : bookings'[y] = bookings[y]
          /\ \A w \in PairRow : w.booking # x => (w \in rows' <=> w \in rows)
    BY <2>1, CommitWrites DEF IInv
  <2>3. CASE x \notin {b, c}
    <3>1. /\ Live(b)' = Live(b) /\ Live(c)' = Live(c)
          /\ \A p \in Pairs : Holds(b, p)' = Holds(b, p) /\ Holds(c, p)' = Holds(c, p)
          /\ RowsOf(b)' = RowsOf(b) /\ RowsOf(c)' = RowsOf(c)
      BY <2>2, <2>3, SameQueries DEF IInv
    <3>2. bookings'[b] = bookings[b] /\ bookings'[c] = bookings[c]
      BY <2>2, <2>3
    <3>3. Clash(b, c)' => Clash(b, c)
      BY <3>1, <3>2 DEF Clash
    <3>4. UserClash(b, c)' => UserClash(b, c)
      BY <3>1, <3>2 DEF UserClash, RowsOf
    <3> QED
      BY <3>3, <3>4
  <2>4. CASE x \in {b, c}
    <3>1. Clash(b, c)' = Clash(c, b)' /\ Clash(b, c) = Clash(c, b)
      BY DEF Clash
    <3>2. UserClash(b, c)' = UserClash(c, b)' /\ UserClash(b, c) = UserClash(c, b)
      BY DEF UserClash, Overlap
    <3>3. CASE raced[r] \cap {b, c} # {} \/ Unchecked(r)
      BY <2>2, <2>4, <3>3
    <3>4. CASE raced[r] \cap {b, c} = {} /\ ~Unchecked(r)
      <4>1. b \notin raced[r] /\ c \notin raced[r]
        BY <3>4
      <4>2. CASE x = b
        BY <2>1, <2>2, <3>4, <4>1, <4>2, QuietNoClash, QuietNoUserClash
      <4>3. CASE x = c
        BY <2>1, <2>2, <3>1, <3>2, <3>4, <4>1, <4>3, QuietNoClash, QuietNoUserClash
      <4> QED
        BY <2>4, <4>2, <4>3
    <3> QED
      BY <3>3, <3>4
  <2> QED
    BY <2>3, <2>4
<1> QED
    BY <1>1, <1>2

\* A double booking comes into being only by a commit that another request overtook
\* at one of the two bookings, or by an update without tables_slots that moves or
\* revives a booking: all other interleavings of any number of requests are safe.
THEOREM DoubleBookingsExplained == Spec => DoubleBookingNeedsRace
<1>1. IInv /\ IInv' /\ [Next]_vars =>
        [\A b, c \in Bookings : ~Clash(b, c) /\ Clash(b, c)' =>
            \E r \in Requests : /\ Commits(r, b) \/ Commits(r, c)
                                /\ raced[r] \cap {b, c} # {} \/ Unchecked(r)]_vars
    BY NewClashNeedsRace
<1> QED
    BY <1>1, Invariance, PTL DEF Spec, DoubleBookingNeedsRace

\* The same of one user's bookings that overlap in time.
THEOREM OverlapsExplained == Spec => OverlapNeedsRace
<1>1. IInv /\ IInv' /\ [Next]_vars =>
        [\A b, c \in Bookings : ~UserClash(b, c) /\ UserClash(b, c)' =>
            \E r \in Requests : /\ Commits(r, b) \/ Commits(r, c)
                                /\ raced[r] \cap {b, c} # {} \/ Unchecked(r)]_vars
    BY NewClashNeedsRace
<1> QED
    BY <1>1, Invariance, PTL DEF Spec, OverlapNeedsRace

-----------------------------------------------------------------------------
(* One request at a time.                                                  *)

\* With a single handler nobody is overtaken, and a disciplined client's update is
\* never unchecked.
Disciplined ==
    /\ \A r \in Requests : raced[r] = {}
    /\ \A r \in Requests : pc[r] = "commit" => ~Unchecked(r)

SerialInv == IInv /\ Disciplined /\ NoDoubleBooking /\ NoUserOverlap

LEMMA EndRaces ==
    ASSUME TypeOK, NEW r \in Requests, End(r), \A q \in Requests : raced[q] = {}
    PROVE  \A q \in Requests : raced'[q] = {}
    BY DEF End, TypeOK

LEMMA DisciplinePreserved ==
    ASSUME \A q, r \in Requests : q = r, IInv, IInv', Disciplined, DisciplinedNext
    PROVE  Disciplined'
<1>1. \A r \in Requests : raced'[r] = {}
  <2>1. CASE raced' = raced
    BY <2>1 DEF Disciplined
  <2>2. CASE raced' # raced
    <3>1. PICK r \in Requests : CommitCreate(r) \/ CommitUpdate(r) \/ End(r)
      BY <2>2 DEF DisciplinedNext, Step, Tick, BeginCreate, CheckObjects, BeginUpdate, LoadRows,
         CheckPair, CheckOverlap, Respond, Abort, Fail
    <3>2. CASE End(r)
      BY <3>2, EndRaces DEF IInv, Disciplined
    <3>3. CASE CommitCreate(r) \/ CommitUpdate(r)
      <4>1. PICK b \in Bookings : NoteRace(r, b)
        BY <3>3, CommitWrites DEF IInv
      <4> QED
        BY <4>1 DEF NoteRace, Disciplined
    <3> QED
      BY <3>1, <3>2, <3>3
  <2> QED
    BY <2>1, <2>2
<1>2. CASE Tick
    BY <1>1, <1>2 DEF Tick, proc, db, Disciplined, Unchecked, IsNew, DateChanged, StatusChanged
<1>3. CASE \E r \in Requests : Step(r) /\ (pc'[r] = "commit" => ~Unchecked(r)')
    BY <1>1, <1>3 DEF Disciplined
<1> QED
    BY <1>2, <1>3 DEF DisciplinedNext

LEMMA SerialInvariance ==
    ASSUME \A q, r \in Requests : q = r
    PROVE  DisciplinedSpec => []SerialInv
<1>1. Init => SerialInv
    BY InitInv DEF Init, SerialInv, Disciplined, NoDoubleBooking, NoUserOverlap, Clash,
       UserClash, Live, Exists
<1>2. SerialInv /\ [DisciplinedNext]_vars => SerialInv'
  <2> SUFFICES ASSUME SerialInv, [DisciplinedNext]_vars
               PROVE  SerialInv'
      OBVIOUS
  <2>1. CASE DisciplinedNext
    <3>1. IInv'
      BY <2>1, NextInv DEF SerialInv, DisciplinedNext, Next
    <3>2. Disciplined'
      BY <2>1, <3>1, DisciplinePreserved DEF SerialInv
    <3>3. ASSUME NEW b \in Bookings, NEW c \in Bookings
          PROVE  ~Clash(b, c)' /\ ~UserClash(b, c)'
      <4>1. ~Clash(b, c) /\ ~UserClash(b, c)
        BY DEF SerialInv, NoDoubleBooking, NoUserOverlap
      <4>2. \A r \in Requests :
              Commits(r, b) \/ Commits(r, c) => ~Unchecked(r) /\ raced[r] \cap {b, c} = {}
        BY DEF SerialInv, Disciplined, Commits
      <4> QED
        BY <2>1, <3>1, <4>1, <4>2, NewClashNeedsRace DEF SerialInv, DisciplinedNext, Next
    <3> QED
      BY <3>1, <3>2, <3>3 DEF SerialInv, NoDoubleBooking, NoUserOverlap
  <2>2. CASE UNCHANGED vars
    <3>1. IInv'
      BY <2>2, NextInv DEF SerialInv
    <3> QED
      BY <2>2, <3>1 DEF vars, SerialInv, Disciplined, Unchecked, IsNew, DateChanged,
         StatusChanged, NoDoubleBooking, NoUserOverlap, Clash, UserClash, Live, Exists, Holds
  <2> QED
    BY <2>1, <2>2
<1> QED
    BY <1>1, <1>2, PTL DEF DisciplinedSpec

\* With one request at a time and no unchecked update the service keeps the promise
\* of its README: no table is booked twice, and no user expected twice.
THEOREM SerialSafe ==
    ASSUME \A q, r \in Requests : q = r
    PROVE  DisciplinedSpec => [](NoDoubleBooking /\ NoUserOverlap)
<1>1. SerialInv => NoDoubleBooking /\ NoUserOverlap
    BY DEF SerialInv
<1> QED
    BY <1>1, SerialInvariance, PTL
=============================================================================
