------------------------ MODULE BookingServiceProofs ------------------------
(***************************************************************************)
(* What the commits of Booking may do to the tables, and that one request  *)
(* at a time implements the ledger of Reservations.                        *)
(***************************************************************************)
EXTENDS BookingProofs

\* A handler that reaches the end of its transaction has committed.
LEMMA CommitsAreCommits ==
    ASSUME TypeOK, Next, NEW r \in Requests, NEW b, Commits(r, b)
    PROVE  CommitCreate(r) \/ CommitUpdate(r)
<1>1. pc[r] = "commit" /\ pc'[r] = "respond"
    BY DEF Commits
<1>2. ASSUME Tick PROVE FALSE
    BY <1>1, <1>2 DEF Tick, proc
<1>3. ASSUME NEW q \in Requests, Step(q), q # r PROVE FALSE
    BY <1>1, <1>3 DEF Step, BeginCreate, CheckObjects, BeginUpdate, LoadRows, CheckPair, CheckOverlap,
       CommitCreate, CommitUpdate, Committed, Respond, Abort, Fail, End, TypeOK
<1>4. ASSUME Step(r), ~CommitCreate(r), ~CommitUpdate(r) PROVE FALSE
    BY <1>1, <1>4 DEF Step, BeginCreate, CheckObjects, BeginUpdate, LoadRows, CheckPair, CheckOverlap,
       Respond, Abort, Fail, End, TypeOK
<1> QED
    BY <1>2, <1>3, <1>4 DEF Next

-----------------------------------------------------------------------------
(* The booking a request works on.                                         *)

\* What check_can_modify has seen is what the request has loaded, and the day its
\* transaction began is not ahead of the calendar.
Modifiable ==
    \A q \in Requests :
        /\ pc[q] \in Reading => txDay[q] <= today
        /\ pc[q] \in {"checking", "commit"} /\ ~IsNew(q) =>
              snap[q].row.status # "ACTIVE" /\ txDay[q] <= snap[q].row.date

ModInv == IInv /\ Modifiable

LEMMA ModStep == ASSUME ModInv, IInv', Next PROVE Modifiable'
<1> USE DEF ModInv, IInv
<1>1. CASE Tick
  <2>1. today' = today + 1 /\ UNCHANGED proc /\ today \in Nat
    BY <1>1, ConstantsAssumption DEF Tick, TypeOK, Days
  <2>2. \A q \in Requests : pc[q] \in Reading => txDay[q] \in Nat
    BY DEF Control, ControlAt, Days
  <2> QED
    BY <2>1, <2>2 DEF proc, Modifiable, IsNew
<1>2. ASSUME NEW r \in Requests, Step(r) PROVE Modifiable'
  <2>1. \A q \in Requests \ {r} : pc'[q] = pc[q] /\ op'[q] = op[q] /\ snap'[q] = snap[q] /\ txDay'[q] = txDay[q]
    BY <1>2 DEF Step, BeginCreate, CheckObjects, BeginUpdate, LoadRows, CheckPair, CheckOverlap,
       CommitCreate, CommitUpdate, Committed, Respond, Abort, Fail, End, TypeOK, db
  <2>2. today' = today
    BY <1>2 DEF Step, BeginCreate, CheckObjects, BeginUpdate, LoadRows, CheckPair, CheckOverlap,
       CommitCreate, CommitUpdate, Respond, Abort, Fail
  <2>3. today \in Nat /\ (pc[r] \in Reading => txDay[r] \in Nat)
    BY ConstantsAssumption DEF TypeOK, Days, Control, ControlAt
  <2> DEFINE Good == /\ pc'[r] \in Reading => txDay'[r] <= today
                     /\ pc'[r] \in {"checking", "commit"} /\ ~IsNew(r)' =>
                           snap'[r].row.status # "ACTIVE" /\ txDay'[r] <= snap'[r].row.date
  <2>4. Good
    <3>1. CASE \E u \in Users, day \in Days, P \in PairSets : BeginCreate(r, u, day, P)
      BY <3>1 DEF BeginCreate, TypeOK, Reading
    <3>2. CASE CheckObjects(r)
      BY <2>3, <3>2 DEF CheckObjects, TypeOK, Reading, Control, ControlAt, IsNew
    <3>3. CASE \E b \in Bookings, patch \in Patches : BeginUpdate(r, b, patch)
      BY <2>3, <3>3 DEF BeginUpdate, TypeOK, Reading
    <3>4. CASE LoadRows(r)
      <4>1. /\ pc[r] = "loading" /\ txDay'[r] = txDay[r] /\ snap'[r].row = snap[r].row
            /\ snap[r].row.date >= today /\ snap[r].row.status # "ACTIVE"
        BY <3>4 DEF LoadRows, TypeOK, Snaps
      <4>2. txDay[r] <= today /\ txDay[r] \in Nat
        BY <2>3, <4>1 DEF Modifiable, Reading
      <4>3. snap[r].row.date \in Nat
        <5>1. snap[r].row \in BookingRow
          BY <4>1 DEF Control, ControlAt, Reading, TypeOK, Snaps, Optional
        <5> QED
          BY <5>1 DEF BookingRow, Days
      <4> QED
        BY <2>3, <4>1, <4>2, <4>3
    <3>5. CASE (\E p \in Pairs : CheckPair(r, p)) \/ CheckOverlap(r)
      <4>1. pc[r] = "checking" /\ pc'[r] \in {"checking", "commit"} /\ UNCHANGED <<op, snap, txDay>>
        BY <3>5 DEF CheckPair, CheckOverlap, TypeOK
      <4> QED
        BY <4>1 DEF Modifiable, Reading, IsNew
    <3>6. CASE CommitCreate(r) \/ CommitUpdate(r)
      BY <3>6 DEF CommitCreate, CommitUpdate, Committed, TypeOK, Reading
    <3>7. CASE (\E published \in BOOLEAN : Respond(r, published)) \/ Abort(r)
      BY <3>7 DEF Respond, Abort, Fail, End, TypeOK, Reading
    <3> QED
      BY <1>2, <3>1, <3>2, <3>3, <3>4, <3>5, <3>6, <3>7 DEF Step
  <2>5. ASSUME NEW q \in Requests, q # r
        PROVE  /\ pc'[q] \in Reading => txDay'[q] <= today'
               /\ pc'[q] \in {"checking", "commit"} /\ ~IsNew(q)' =>
                    snap'[q].row.status # "ACTIVE" /\ txDay'[q] <= snap'[q].row.date
    BY <2>1, <2>2, <2>5 DEF Modifiable, IsNew
  <2> QED
    BY <2>2, <2>4, <2>5 DEF Modifiable
<1> QED
    BY <1>1, <1>2 DEF Next

LEMMA ModInvariance == Spec => []ModInv
<1>1. Init => ModInv
    BY InitInv DEF Init, ModInv, Modifiable, Reading
<1>2. ModInv /\ [Next]_vars => ModInv'
  <2>1. ASSUME ModInv, UNCHANGED vars PROVE Modifiable'
    BY <2>1 DEF vars, ModInv, Modifiable, IsNew
  <2> QED
    BY <2>1, ModStep, NextInv DEF ModInv
<1> QED
    BY <1>1, <1>2, PTL DEF Spec

\* Who changes a booking.
LEMMA ChangedByCommit ==
    ASSUME IInv, IInv', Next, NEW b \in Bookings,
           bookings'[b] # bookings[b] \/ RowsOf(b)' # RowsOf(b)
    PROVE  \E r \in Requests : Commits(r, b) /\ (CommitCreate(r) \/ CommitUpdate(r))
<1> USE DEF IInv
<1>1. db' # db
  <2> SUFFICES ASSUME db' = db PROVE FALSE
    OBVIOUS
  <2>1. bookings' = bookings /\ rows' = rows
    BY DEF db
  <2>2. RowsOf(b)' = RowsOf(b)
    BY <2>1 DEF RowsOf
  <2> QED
    BY <2>1, <2>2
<1>2. PICK r \in Requests : CommitCreate(r) \/ CommitUpdate(r)
    BY <1>1, OnlyCommitsWrite
<1>3. PICK x \in Bookings :
        /\ Commits(r, x)
        /\ \A c \in Bookings \ {x} : bookings'[c] = bookings[c]
        /\ \A w \in PairRow : w.booking # x => (w \in rows' <=> w \in rows)
    BY <1>2, CommitWrites
<1>4. b = x
  <2> SUFFICES ASSUME b # x PROVE FALSE
    OBVIOUS
  <2>1. bookings'[b] = bookings[b]
    BY <1>3
  <2>2. RowsOf(b)' = RowsOf(b)
    BY <1>3, SameQueries
  <2> QED
    BY <2>1, <2>2
<1> QED
    BY <1>2, <1>3, <1>4

\* check_can_modify: whoever changes an active booking, or one of a day past, was overtaken
\* after it had loaded the booking.
THEOREM LockedStays == Spec => LockedNeedsRace
<1>1. ASSUME ModInv, IInv', Next, NEW b \in Bookings, Exists(b),
             <<bookings[b], RowsOf(b)>> # <<bookings[b], RowsOf(b)>>'
      PROVE  \E r \in Requests :
                /\ Commits(r, b)
                /\ bookings[b].status = "ACTIVE" \/ bookings[b].date < txDay[r] => b \in raced[r]
  <2> USE DEF ModInv, IInv
  <2>0. bookings'[b] # bookings[b] \/ RowsOf(b)' # RowsOf(b)
    BY <1>1
  <2>1. PICK r \in Requests : Commits(r, b) /\ (CommitCreate(r) \/ CommitUpdate(r))
    BY <1>1, <2>0, ChangedByCommit
  <2>2. pc[r] = "commit" /\ op'[r].booking = b /\ op[r] \in Ops
    BY <1>1, <2>1 DEF Commits, Control, ControlAt
  <2>3. CASE CommitCreate(r)
    <3>1. PICK x \in Bookings : ~Exists(x) /\ op' = [op EXCEPT ![r].booking = x]
      BY <2>3 DEF CommitCreate
    <3>2. x = b
      BY <1>1, <2>2, <3>1 DEF TypeOK, Ops
    <3> QED
      BY <1>1, <3>1, <3>2
  <2>4. CASE CommitUpdate(r)
    <3>1. op[r].booking = b /\ ~IsNew(r)
      BY <2>2, <2>4 DEF CommitUpdate
    <3>2. ASSUME b \notin raced[r]
          PROVE  bookings[b].status # "ACTIVE" /\ ~(bookings[b].date < txDay[r])
      <4>1. bookings[b] = snap[r].row
        BY <1>1, <2>2, <3>1, <3>2 DEF SnapshotFresh, Reading
      <4>2. snap[r].row.status # "ACTIVE" /\ txDay[r] <= snap[r].row.date
        BY <1>1, <2>2, <3>1 DEF Modifiable
      <4>3. bookings[b].date \in Nat /\ txDay[r] \in Nat
        BY <1>1, <2>2 DEF TypeOK, Exists, Optional, BookingRow, Days, Control, ControlAt, Reading
      <4> QED
        BY <4>1, <4>2, <4>3
    <3> QED
      BY <2>1, <3>2
  <2> QED
    BY <2>1, <2>3, <2>4
<1>2. ModInv /\ IInv' /\ [Next]_vars =>
        [\A b \in Bookings : Exists(b) /\ <<bookings[b], RowsOf(b)>> # <<bookings[b], RowsOf(b)>>' =>
            \E r \in Requests :
                /\ Commits(r, b)
                /\ bookings[b].status = "ACTIVE" \/ bookings[b].date < txDay[r] => b \in raced[r]]_vars
    BY <1>1
<1> QED
    BY <1>2, ModInvariance, Invariance, PTL DEF Spec, LockedNeedsRace

-----------------------------------------------------------------------------
(* What a commit writes.                                                   *)

\* An update nobody overtook leaves the pairs its body names; any update adds them.
LEMMA UpdatePairs ==
    ASSUME IInv, NEW r \in Requests, CommitUpdate(r), NEW b \in Bookings, b = op[r].booking, op[r].pairs # None
    PROVE  /\ op[r].pairs \subseteq {w.pair : w \in RowsOf(b)'}
           /\ b \notin raced[r] => {w.pair : w \in RowsOf(b)'} = op[r].pairs
<1> DEFINE g == CHOOSE g \in FreshBatches(r, b) : TRUE
<1>1. rows' = (rows \ snap[r].rows) \cup NewRows(b, op[r].pairs, g)
    BY DEF CommitUpdate
<1> HIDE DEF g
<1>2. \A w \in NewRows(b, op[r].pairs, g) : w.booking = b
    BY DEF NewRows
<1>3. NewRows(b, op[r].pairs, g) \subseteq RowsOf(b)'
    BY <1>1, <1>2 DEF RowsOf
<1>4. op[r].pairs \subseteq {w.pair : w \in RowsOf(b)'}
  <2>1. {w.pair : w \in NewRows(b, op[r].pairs, g)} \subseteq {w.pair : w \in RowsOf(b)'}
    BY <1>3
  <2> QED
    BY <2>1, NewRowsPairs
<1>5. ASSUME b \notin raced[r]
      PROVE  {w.pair : w \in RowsOf(b)'} = op[r].pairs
  <2>1. RowsOf(b) = snap[r].rows
    BY <1>5 DEF IInv, SnapshotFresh, CommitUpdate, Reading
  <2>2. RowsOf(b)' = NewRows(b, op[r].pairs, g)
    BY <1>1, <1>2, <2>1 DEF RowsOf
  <2> QED
    BY <2>2, NewRowsPairs
<1> QED
    BY <1>4, <1>5

\* crud.update: the pairs of a booking are those of the update that names them, or of both
\* requests if another wrote the booking meanwhile.
THEOREM PairsAreReplaced == Spec => PairsReplaced
<1>1. ASSUME IInv, IInv', Next, NEW r \in Requests, NEW b \in Bookings, Commits(r, b), op[r].pairs # None
      PROVE  /\ op[r].pairs \subseteq {w.pair : w \in RowsOf(b)'}
             /\ b \notin raced[r] => {w.pair : w \in RowsOf(b)'} = op[r].pairs
  <2>1. pc[r] = "commit" /\ op'[r].booking = b /\ op[r] \in Ops
    BY <1>1 DEF IInv, Commits, Control, ControlAt
  <2>2. CASE CommitCreate(r)
    <3>1. PICK x \in Bookings : /\ ~Exists(x) /\ op' = [op EXCEPT ![r].booking = x]
                               /\ rows' = rows \cup NewRows(x, op[r].pairs, CHOOSE g \in FreshBatches(r, x) : TRUE)
      BY <2>2 DEF CommitCreate
    <3>2. x = b
      BY <1>1, <2>1, <3>1 DEF IInv, TypeOK, Ops
    <3>3. \A w \in rows : w.booking # b
      BY <1>1, <3>1, <3>2 DEF IInv, OwnRows
    <3> DEFINE new == CHOOSE g \in FreshBatches(r, b) : TRUE
    <3>4. RowsOf(b)' = NewRows(b, op[r].pairs, new)
      BY <3>1, <3>2, <3>3 DEF RowsOf, NewRows
    <3> HIDE DEF new
    <3> QED
      BY <3>4, NewRowsPairs
  <2>3. CASE CommitUpdate(r)
    <3>1. b = op[r].booking
      BY <2>1, <2>3 DEF CommitUpdate
    <3> QED
      BY <1>1, <2>3, <3>1, UpdatePairs
  <2> QED
    BY <1>1, <2>2, <2>3, CommitsAreCommits DEF IInv
<1>2. IInv /\ IInv' /\ [Next]_vars =>
        [\A r \in Requests, b \in Bookings :
            Commits(r, b) /\ op[r].pairs # None =>
                /\ op[r].pairs \subseteq {w.pair : w \in RowsOf(b)'}
                /\ b \notin raced[r] => {w.pair : w \in RowsOf(b)'} = op[r].pairs]_vars
    BY <1>1
<1> QED
    BY <1>2, Invariance, PTL DEF Spec, PairsReplaced

-----------------------------------------------------------------------------
(* What a request mails.                                                   *)

\* A POST names no status, and until another request writes the booking, a request that
\* has committed finds it with the status it gave it.
OwnCommit ==
    \A q \in Requests :
        /\ pc[q] # "idle" /\ IsNew(q) => op[q].status = None
        /\ pc[q] = "respond" /\ op[q].booking \notin raced[q] =>
              /\ IsNew(q) => bookings[op[q].booking].status = "BOOKING"
              /\ op[q].status # None => bookings[op[q].booking].status = op[q].status

\* The request that commits.
LEMMA OwnCommitOfCommit ==
    ASSUME IInv, IInv', OwnCommit, NEW r \in Requests, CommitCreate(r) \/ CommitUpdate(r)
    PROVE  /\ IsNew(r)' => op'[r].status = None
           /\ op'[r].booking \notin raced'[r] =>
                 /\ IsNew(r)' => bookings'[op'[r].booking].status = "BOOKING"
                 /\ op'[r].status # None => bookings'[op'[r].booking].status = op'[r].status
<1> USE DEF IInv
<1>1. op[r] \in Ops /\ pc[r] = "commit"
    BY DEF CommitCreate, CommitUpdate, Control, ControlAt
<1>2. CASE CommitCreate(r)
  <2>1. PICK b \in Bookings :
            /\ bookings' = [bookings EXCEPT ![b] = [user |-> op[r].user, date |-> op[r].date, status |-> "BOOKING"]]
            /\ op' = [op EXCEPT ![r].booking = b]
    BY <1>2 DEF CommitCreate
  <2>2. op'[r].booking = b /\ op'[r].status = op[r].status /\ IsNew(r)
    BY <1>1, <1>2, <2>1 DEF CommitCreate, TypeOK, Ops
  <2>3. op[r].status = None
    BY <1>1, <2>2 DEF OwnCommit
  <2>4. bookings'[b].status = "BOOKING"
    BY <2>1 DEF TypeOK
  <2> QED
    BY <2>2, <2>3, <2>4
<1>3. CASE CommitUpdate(r)
  <2> DEFINE b == op[r].booking
  <2>1. ~IsNew(r) /\ op' = op /\ b \in Bookings /\ bookings' = [bookings EXCEPT ![b] = Merged(r)]
    BY <1>1, <1>3 DEF CommitUpdate, Control, ControlAt, Reading, Ops, Optional
  <2>2. raced'[r] = raced[r]
    BY <1>3 DEF CommitUpdate, NoteRace
  <2>3. b \notin raced[r] => bookings[b] = snap[r].row
    BY <1>1, <2>1 DEF SnapshotFresh, Reading
  <2>4. b \notin raced[r] /\ op[r].status # None => Merged(r).status = op[r].status
    BY <2>3 DEF Merged, StatusChanged
  <2>5. bookings'[b] = Merged(r)
    BY <2>1 DEF TypeOK
  <2> QED
    BY <2>1, <2>2, <2>4, <2>5 DEF IsNew
<1> QED
    BY <1>2, <1>3

LEMMA OwnCommitStep == ASSUME IInv, IInv', OwnCommit, Next PROVE OwnCommit'
<1> USE DEF IInv
<1>1. CASE Tick
    BY <1>1 DEF Tick, db, proc, OwnCommit, IsNew
<1>2. ASSUME NEW r \in Requests, Step(r) PROVE OwnCommit'
  <2> DEFINE Keeps(q) == /\ pc'[q] # "idle" /\ IsNew(q)' => op'[q].status = None
                         /\ pc'[q] = "respond" /\ op'[q].booking \notin raced'[q] =>
                               /\ IsNew(q)' => bookings'[op'[q].booking].status = "BOOKING"
                               /\ op'[q].status # None => bookings'[op'[q].booking].status = op'[q].status
  <2>1. ASSUME CommitCreate(r) \/ CommitUpdate(r) PROVE OwnCommit'
    <3>1. PICK b \in Bookings :
              /\ \A c \in Bookings \ {b} : bookings'[c] = bookings[c]
              /\ NoteRace(r, b)
              /\ \A q \in Requests \ {r} : pc'[q] = pc[q] /\ op'[q] = op[q]
      BY <2>1, CommitWrites
    <3>2. Keeps(r)
      BY <1>2, <2>1, OwnCommitOfCommit
    <3>3. ASSUME NEW q \in Requests, q # r PROVE Keeps(q)
      <4>1. pc'[q] = pc[q] /\ op'[q] = op[q] /\ (IsNew(q)' <=> IsNew(q))
        BY <3>1, <3>3 DEF IsNew
      <4>2. pc[q] = "respond" => op[q].booking \in Bookings /\ raced'[q] = raced[q] \cup {b}
        BY <3>1, <3>3 DEF NoteRace, Control, ControlAt, Ops, Optional
      <4> QED
        BY <3>1, <4>1, <4>2 DEF OwnCommit
    <3> QED
      BY <3>2, <3>3 DEF OwnCommit
  <2>2. ASSUME ~CommitCreate(r), ~CommitUpdate(r)
        PROVE  /\ bookings' = bookings
               /\ \A q \in Requests \ {r} : pc'[q] = pc[q] /\ op'[q] = op[q] /\ raced'[q] = raced[q]
               /\ pc'[r] # "respond"
               /\ pc'[r] # "idle" => \/ op'[r].kind = "update" \/ op'[r].status = None
                                     \/ pc[r] # "idle" /\ op'[r] = op[r]
    <3>1. CASE \E u \in Users, day \in Days, P \in PairSets : BeginCreate(r, u, day, P)
      BY <3>1 DEF BeginCreate, TypeOK, db
    <3>2. CASE CheckObjects(r)
      BY <3>2 DEF CheckObjects, TypeOK, db
    <3>3. CASE \E b \in Bookings, patch \in Patches : BeginUpdate(r, b, patch)
      BY <3>3 DEF BeginUpdate, TypeOK, db
    <3>4. CASE LoadRows(r)
      BY <3>4 DEF LoadRows, TypeOK, db
    <3>5. CASE (\E p \in Pairs : CheckPair(r, p)) \/ CheckOverlap(r)
      BY <3>5 DEF CheckPair, CheckOverlap, TypeOK, db
    <3>6. CASE (\E published \in BOOLEAN : Respond(r, published)) \/ Abort(r)
      BY <3>6 DEF Respond, Abort, Fail, End, TypeOK, db
    <3> QED
      BY <1>2, <2>2, <3>1, <3>2, <3>3, <3>4, <3>5, <3>6 DEF Step
  <2>3. ASSUME ~CommitCreate(r), ~CommitUpdate(r) PROVE OwnCommit'
    <3>1. Keeps(r)
      BY <2>2, <2>3 DEF OwnCommit, IsNew
    <3>2. ASSUME NEW q \in Requests, q # r PROVE Keeps(q)
      BY <2>2, <2>3, <3>2 DEF OwnCommit, IsNew
    <3> QED
      BY <3>1, <3>2 DEF OwnCommit
  <2> QED
    BY <2>1, <2>3
<1> QED
    BY <1>1, <1>2 DEF Next

\* notify_booking_status after the refresh: the mail of a request that nobody overtook tells
\* what the request itself committed.
THEOREM MailsTellOwnCommits == Spec => MailTellsOwnCommit
<1> DEFINE Telling(m, r) ==
        /\ pc[r] = "respond" /\ op[r].booking = m.booking
        /\ m.booking \in raced[r]
           \/ /\ m.kind = "booking"  <=> IsNew(r)
              /\ m.kind = "canceled" <=> bookings[m.booking].status = "CANCELED"
              /\ op[r].status # None => (m.kind = "canceled" <=> op[r].status = "CANCELED")
<1>1. ASSUME IInv, OwnCommit, Next, NEW m \in out'.mail
      PROVE  \E r \in Requests : Telling(m, r)
  <2>1. PICK r \in Requests : \E published \in BOOLEAN : Respond(r, published)
    <3>1. ~(out' = NoOut)
      BY <1>1 DEF NoOut
    <3> QED
      BY <1>1, <3>1 DEF Next, Tick, Step, BeginCreate, CheckObjects, BeginUpdate, LoadRows, CheckPair, CheckOverlap,
         CommitCreate, CommitUpdate, Committed, Abort, Fail
  <2> DEFINE b == op[r].booking
  <2>2. pc[r] = "respond" /\ m \in {[booking |-> b, kind |-> k] : k \in Notices(r, bookings[b].status)}
    BY <1>1, <2>1 DEF Respond
  <2>3. m.booking = b /\ m.kind \in Notices(r, bookings[b].status)
    BY <2>2
  <2>4. ASSUME b \notin raced[r]
        PROVE  /\ IsNew(r) => bookings[b].status = "BOOKING"
               /\ op[r].status # None => bookings[b].status = op[r].status
    BY <1>1, <2>2, <2>4 DEF OwnCommit
  <2>5. m.kind = "canceled" <=> bookings[b].status = "CANCELED"
    BY <2>3 DEF Notices
  <2>6. b \notin raced[r] => (m.kind = "booking" <=> IsNew(r))
    BY <2>3, <2>4 DEF Notices
  <2> QED
    BY <2>2, <2>3, <2>4, <2>5, <2>6
<1>2. IInv /\ IInv' /\ OwnCommit /\ [Next]_vars => OwnCommit'
  <2>1. ASSUME OwnCommit, UNCHANGED vars PROVE OwnCommit'
    BY <2>1 DEF vars, db, proc, OwnCommit, IsNew
  <2> QED
    BY <2>1, OwnCommitStep
<1>3. Init => OwnCommit
    BY DEF Init, OwnCommit
<1>4. IInv /\ OwnCommit /\ [Next]_vars => [\A m \in out'.mail : \E r \in Requests : Telling(m, r)]_vars
    BY <1>1
<1> QED
    BY <1>2, <1>3, <1>4, Invariance, PTL DEF Spec, MailTellsOwnCommit

-----------------------------------------------------------------------------
(* One request at a time implements the ledger.                            *)

LEMMA HoldingType ==
    ASSUME TypeOK, NEW b \in Bookings, Live(b)
    PROVE  Holding(b) \in Promise!Reservation
<1>1. bookings[b] \in BookingRow
    BY DEF TypeOK, Live, Exists, Optional
<1>2. {w.pair : w \in RowsOf(b)} \subseteq Tables \X Slots
    BY DEF TypeOK, RowsOf, PairRow, Pairs
<1>3. Holding(b) = [user |-> bookings[b].user, date |-> bookings[b].date, pairs |-> {w.pair : w \in RowsOf(b)}]
    BY DEF Holding
<1> HIDE DEF Holding
<1> QED
    BY <1>1, <1>2, <1>3 DEF Promise!Reservation, BookingRow, Days

\* What does not clash may stand side by side.
LEMMA NoClashCompatible ==
    ASSUME TypeOK, NEW b \in Bookings, NEW c \in Bookings, b # c, Live(b), Live(c), ~Clash(b, c), ~UserClash(b, c)
    PROVE  Promise!Compatible(Holding(b), Holding(c))
<1>1. /\ Holding(b).user = bookings[b].user /\ Holding(b).date = bookings[b].date
      /\ Holding(b).pairs = {w.pair : w \in RowsOf(b)}
    BY DEF Holding
<1>2. /\ Holding(c).user = bookings[c].user /\ Holding(c).date = bookings[c].date
      /\ Holding(c).pairs = {w.pair : w \in RowsOf(c)}
    BY DEF Holding
<1>3. ASSUME bookings[b].date = bookings[c].date
      PROVE  {w.pair : w \in RowsOf(b)} \cap {w.pair : w \in RowsOf(c)} = {}
  <2> SUFFICES ASSUME NEW v \in RowsOf(b), NEW w \in RowsOf(c), v.pair = w.pair PROVE FALSE
    OBVIOUS
  <2>1. v.pair \in Pairs /\ Holds(b, v.pair) /\ Holds(c, v.pair)
    BY DEF TypeOK, RowsOf, PairRow, Holds
  <2> QED
    BY <1>3, <2>1 DEF Clash
<1>4. ASSUME bookings[b].date = bookings[c].date, bookings[b].user = bookings[c].user,
             NEW p \in {w.pair : w \in RowsOf(b)}, NEW q \in {w.pair : w \in RowsOf(c)}
      PROVE  <<p[2], q[2]>> \notin {s \in Slots \X Slots : Overlap(s[1], s[2])}
  <2>1. PICK v \in RowsOf(b), w \in RowsOf(c) : v.pair = p /\ w.pair = q
    OBVIOUS
  <2>2. v \in rows /\ w \in rows /\ v.booking = b /\ w.booking = c
    BY DEF RowsOf
  <2>3. ~Overlap(p[2], q[2])
    BY <1>4, <2>1, <2>2 DEF UserClash
  <2> QED
    BY <2>3
<1> QED
    BY <1>1, <1>2, <1>3, <1>4 DEF Promise!Compatible

Ledger == [b \in Bookings |-> Holding(b)]

\* Bookings are reservations that stand side by side.
Standing ==
    \A b \in Bookings : Live(b) =>
        /\ Holding(b) \in Promise!Reservation
        /\ \A c \in Bookings \ {b} : Live(c) => Promise!Compatible(Holding(b), Holding(c))

LEMMA SerialStands == SerialInv => Standing
    BY HoldingType, NoClashCompatible DEF SerialInv, IInv, NoDoubleBooking, NoUserOverlap, Standing

LEMMA LedgerStep ==
    ASSUME SerialInv, SerialInv', Standing', Next
    PROVE  Promise!Next \/ Ledger' = Ledger
<1> USE DEF SerialInv, IInv
<1>1. CASE db' = db
  <2>1. bookings' = bookings /\ rows' = rows
    BY <1>1 DEF db
  <2>2. Ledger' = Ledger
    BY <2>1 DEF Ledger, Holding, Live, Exists, RowsOf
  <2> QED
    BY <2>2
<1>2. CASE db' # db
  <2>1. PICK r \in Requests : CommitCreate(r) \/ CommitUpdate(r)
    BY <1>2, OnlyCommitsWrite
  <2>2. PICK b \in Bookings :
          /\ \A c \in Bookings \ {b} : bookings'[c] = bookings[c]
          /\ \A w \in PairRow : w.booking # b => (w \in rows' <=> w \in rows)
    BY <2>1, CommitWrites
  <2>3. ASSUME NEW c \in Bookings \ {b}
        PROVE  Holding(c)' = Holding(c) /\ Live(c)' = Live(c)
    <3>1. bookings'[c] = bookings[c] /\ Live(c)' = Live(c) /\ RowsOf(c)' = RowsOf(c)
      BY <2>2, SameQueries
    <3> QED
      BY <3>1 DEF Holding
  <2>4. Ledger' = [Ledger EXCEPT ![b] = Holding(b)']
    BY <2>3 DEF Ledger
  <2>5. CASE ~Live(b)'
    <3>1. Holding(b)' = None
      BY <2>5 DEF Holding
    <3>2. Ledger' = [Ledger EXCEPT ![b] = None]
      BY <2>4, <3>1
    <3>3. Promise!Release(b)
      BY <3>2 DEF Promise!Release, Ledger
    <3> QED
      BY <3>3 DEF Promise!Next
  <2>6. CASE Live(b)'
    <3>1. Holding(b)' \in Promise!Reservation
      BY <2>6 DEF Standing
    <3>2. ASSUME NEW c \in Bookings \ {b}, Ledger[c] # None
          PROVE  Promise!Compatible(Holding(b)', Ledger[c])
      <4>1. Live(c) /\ Ledger[c] = Holding(c)
        BY <3>2 DEF Ledger, Holding
      <4>2. Live(c)' /\ Holding(c)' = Holding(c)
        BY <2>3, <4>1
      <4>3. Promise!Compatible(Holding(b)', Holding(c)')
        BY <2>6, <4>2 DEF Standing
      <4> QED
        BY <4>1, <4>2, <4>3
    <3>3. Promise!Reserve(b, Holding(b)')
      BY <2>4, <3>2 DEF Promise!Reserve, Ledger
    <3> QED
      BY <3>1, <3>3 DEF Promise!Next
  <2> QED
    BY <2>5, <2>6
<1> QED
    BY <1>1, <1>2

\* With one request at a time, and from clients that send no unchecked update, the committed
\* tables behave as the ledger of Reservations: each commit enters, exchanges or releases
\* one reservation, which no other stands in the way of.
THEOREM ImplementsLedger ==
    ASSUME \A q, r \in Requests : q = r
    PROVE  DisciplinedSpec => ImplementsReservations
<1>1. Init => Promise!Init
    BY DEF Init, Promise!Init, Holding, Live, Exists
<1>2. SerialInv /\ SerialInv' /\ Standing' /\ [DisciplinedNext]_vars => [Promise!Next]_Ledger
  <2>1. ASSUME UNCHANGED vars PROVE Ledger' = Ledger
    BY <2>1 DEF vars, db, Ledger, Holding, Live, Exists, RowsOf
  <2>2. DisciplinedNext => Next
    BY DEF DisciplinedNext, Next
  <2> QED
    BY <2>1, <2>2, LedgerStep
<1> QED
    BY <1>1, <1>2, SerialStands, SerialInvariance, PTL DEF DisciplinedSpec, ImplementsReservations, Promise!Spec, Ledger
=============================================================================
