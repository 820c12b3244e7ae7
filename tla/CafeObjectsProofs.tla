------------------------- MODULE CafeObjectsProofs -------------------------
(***************************************************************************)
(* Theorems about CafeObjects: what the keys, the check of uniqueness and  *)
(* the invalidations are worth for every value of the constants.           *)
(***************************************************************************)
EXTENDS CafeObjects, TLAPS

-----------------------------------------------------------------------------
(* The keys.                                                               *)

LEMMA CafeForms ==
    ASSUME NEW r \in CafeRequests
    PROVE  /\ r.kind = "cafe" /\ r.me \in Users /\ r.obj = None /\ r.user = None
           /\ (r.many = TRUE /\ r.cafe = None) \/ (r.many = FALSE /\ r.cafe # None)
  <1>0. None \notin Cafes
    BY KeysAssumption
  <1>1. \/ \E u \in Users, a \in Optional(BOOLEAN) : r = GetCafes(u, a)
        \/ \E u \in Users, c \in Cafes : r = GetCafe(u, c)
    BY DEF CafeRequests
  <1>2. CASE \E u \in Users, a \in Optional(BOOLEAN) : r = GetCafes(u, a)
    BY <1>2 DEF GetCafes, Get
  <1>3. CASE \E u \in Users, c \in Cafes : r = GetCafe(u, c)
    BY <1>0, <1>3 DEF GetCafe, Get
  <1> QED BY <1>1, <1>2, <1>3

LEMMA SlotForms ==
    ASSUME NEW r \in SlotRequests
    PROVE  /\ r.kind = "slot" /\ r.me \in Users /\ r.user = None
           /\ (r.many = TRUE /\ r.obj = None) \/ (r.many = FALSE /\ r.obj # None)
  <1>0. None \notin Slots
    BY KeysAssumption
  <1>1. \/ \E u \in Users, c \in Cafes, a \in Optional(BOOLEAN) : r = GetObjects("slot", u, c, a)
        \/ \E u \in Users, c \in Cafes, o \in Slots : r = GetObject("slot", u, c, o)
    BY DEF SlotRequests
  <1>2. CASE \E u \in Users, c \in Cafes, a \in Optional(BOOLEAN) : r = GetObjects("slot", u, c, a)
    BY <1>2 DEF GetObjects, Get
  <1>3. CASE \E u \in Users, c \in Cafes, o \in Slots : r = GetObject("slot", u, c, o)
    BY <1>0, <1>3 DEF GetObject, Get
  <1> QED BY <1>1, <1>2, <1>3

LEMMA TableForms ==
    ASSUME NEW r \in TableRequests
    PROVE  /\ r.kind = "table" /\ r.me \in Users /\ r.user = None
           /\ (r.many = TRUE /\ r.obj = None) \/ (r.many = FALSE /\ r.obj # None)
  <1>0. None \notin Tables
    BY KeysAssumption
  <1>1. \/ \E u \in Users, c \in Cafes, a \in Optional(BOOLEAN) : r = GetObjects("table", u, c, a)
        \/ \E u \in Users, c \in Cafes, o \in Tables : r = GetObject("table", u, c, o)
    BY DEF TableRequests
  <1>2. CASE \E u \in Users, c \in Cafes, a \in Optional(BOOLEAN) : r = GetObjects("table", u, c, a)
    BY <1>2 DEF GetObjects, Get
  <1>3. CASE \E u \in Users, c \in Cafes, o \in Tables : r = GetObject("table", u, c, o)
    BY <1>0, <1>3 DEF GetObject, Get
  <1> QED BY <1>1, <1>2, <1>3

LEMMA BookingForms ==
    ASSUME NEW r \in BookingRequests
    PROVE  /\ r.kind = "booking" /\ r.me \in Users
           /\ (r.many = TRUE /\ r.obj = None) \/ (r.many = FALSE /\ r.obj # None)
  <1>0. None \notin Bookings BY KeysAssumption
  <1>1. \/ \E u \in Users, c \in Optional(Cafes), v \in Optional(Users), a \in Optional(BOOLEAN) :
                r = GetBookings(u, c, v, a)
        \/ \E u \in Users, b \in Bookings : r = GetBooking(u, b)
    BY DEF BookingRequests
  <1>2. CASE \E u \in Users, c \in Optional(Cafes), v \in Optional(Users), a \in Optional(BOOLEAN) :
                r = GetBookings(u, c, v, a)
    BY <1>2 DEF GetBookings, Get
  <1>3. CASE \E u \in Users, b \in Bookings : r = GetBooking(u, b)
    BY <1>0, <1>3 DEF GetBooking, Get
  <1> QED BY <1>1, <1>2, <1>3 
LEMMA UserForms ==
    ASSUME NEW r \in UserRequests
    PROVE  /\ r.kind = "user" /\ r.me \in Users
           /\ (r.many = TRUE /\ r.user = None) \/ r.many = FALSE
  <1>0. \/ \E u \in Users : r = GetUsers(u)
        \/ \E u \in Users, v \in Users : r = GetUser(u, v)
        \/ \E u \in Users : r = GetMe(u)
    BY DEF UserRequests
  <1>1. CASE \E u \in Users : r = GetUsers(u)
    BY <1>1 DEF GetUsers, Get
  <1>2. CASE \E u \in Users, v \in Users : r = GetUser(u, v)
    BY <1>2 DEF GetUser, Get
  <1>3. CASE \E u \in Users : r = GetMe(u)
    BY <1>3 DEF GetMe, Get
  <1> QED BY <1>0, <1>1, <1>2, <1>3


LEMMA RolesAreRoles ==
    ASSUME NEW u \in Users
    PROVE  RoleOf[u] \in Roles /\ RoleOf[u] # None
  BY KeysAssumption DEF Roles

LEMMA SameKey ==
    ASSUME NEW k1, NEW k2, NEW u1, NEW u2, NEW c1, NEW c2, NEW o1, NEW o2, NEW v1, NEW v2, NEW a1, NEW a2,
           Key(k1, u1, c1, o1, v1, a1) = Key(k2, u2, c2, o2, v2, a2)
    PROVE  k1 = k2 /\ u1 = u2 /\ c1 = c2 /\ o1 = o2 /\ v1 = v2 /\ a1 = a2
  <1> DEFINE k == Key(k1, u1, c1, o1, v1, a1)
             l == Key(k2, u2, c2, o2, v2, a2)
  <1>1. /\ k.prefix = k1 /\ k.user_role = u1 /\ k.cafe_id = c1 /\ k.obj_id = o1 /\ k.user_id = v1
        /\ k.active = a1
    BY DEF Key
  <1>2. /\ l.prefix = k2 /\ l.user_role = u2 /\ l.cafe_id = c2 /\ l.obj_id = o2 /\ l.user_id = v2
        /\ l.active = a2
    BY DEF Key
  <1> QED BY <1>1, <1>2

\* What KeyOf is, endpoint by endpoint.
LEMMA KeyOfBookings ==
    ASSUME NEW r, r.kind = "booking", r.many = TRUE
    PROVE  KeyOf(r) = BookingsKey(r)
  BY DEF KeyOf

LEMMA KeyOfBooking ==
    ASSUME NEW r, r.kind = "booking", r.many = FALSE
    PROVE  KeyOf(r) = Key("booking", None, None, r.obj, r.me, None)
  BY DEF KeyOf

LEMMA KeyOfUsers ==
    ASSUME NEW r, r.kind = "user", r.many = TRUE
    PROVE  KeyOf(r) = Key("user", RoleOf[r.me], None, None, None, None)
  BY DEF KeyOf

LEMMA KeyOfMe ==
    ASSUME NEW r, r.kind = "user", r.many = FALSE, r.user = None
    PROVE  KeyOf(r) = Key("user", None, None, None, r.me, None)
  BY DEF KeyOf

LEMMA KeyOfOther ==
    ASSUME NEW r, r.kind # "booking", r.kind = "user" => r.many = FALSE /\ r.user # None
    PROVE  KeyOf(r) = Key(r.kind, RoleOf[r.me], r.cafe, r.obj, r.user, r.active)
  BY DEF KeyOf

LEMMA KeyPrefix ==
    ASSUME NEW k, NEW u, NEW c, NEW o, NEW v, NEW a
    PROVE  Key(k, u, c, o, v, a).prefix = k
  BY DEF Key

\* Keys of different endpoints have different prefixes.
LEMMA PrefixIsKind ==
    ASSUME NEW r \in Requests
    PROVE  KeyOf(r).prefix = r.kind
  <1>1. r.many = TRUE \/ r.many = FALSE
    BY CafeForms, SlotForms, TableForms, BookingForms, UserForms DEF Requests
  <1>2. CASE r.kind = "booking" /\ r.many = TRUE
    <2>1. KeyOf(r) = BookingsKey(r)
      BY <1>2, KeyOfBookings
    <2>2. \E u, c, v, a : BookingsKey(r) = Key("booking", u, c, None, v, a)
      BY DEF BookingsKey
    <2> QED BY <1>2, <2>1, <2>2, KeyPrefix
  <1>3. CASE r.kind = "booking" /\ r.many = FALSE
    <2>1. KeyOf(r) = Key("booking", None, None, r.obj, r.me, None)
      BY <1>3, KeyOfBooking
    <2> QED BY <1>3, <2>1, KeyPrefix
  <1>4. CASE r.kind = "user" /\ r.many = TRUE
    <2>1. KeyOf(r) = Key("user", RoleOf[r.me], None, None, None, None)
      BY <1>4, KeyOfUsers
    <2> QED BY <1>4, <2>1, KeyPrefix
  <1>5. CASE r.kind = "user" /\ r.many = FALSE /\ r.user = None
    <2>1. KeyOf(r) = Key("user", None, None, None, r.me, None)
      BY <1>5, KeyOfMe
    <2> QED BY <1>5, <2>1, KeyPrefix
  <1>6. CASE r.kind # "booking" /\ (r.kind = "user" => r.many = FALSE /\ r.user # None)
    <2>1. KeyOf(r) = Key(r.kind, RoleOf[r.me], r.cafe, r.obj, r.user, r.active)
      BY <1>6, KeyOfOther
    <2> QED BY <1>6, <2>1, KeyPrefix
  <1> QED BY <1>1, <1>2, <1>3, <1>4, <1>5, <1>6

LEMMA RoleOfBookingsKey ==
    ASSUME NEW r, RoleOf[r.me] \in Roles
    PROVE  BookingsKey(r) = Key("booking", RoleOf[r.me], r.cafe, None,
                                IF RoleOf[r.me] = "USER" THEN r.me ELSE r.user,
                                IF RoleOf[r.me] = "ADMIN" THEN r.active ELSE TRUE)
  <1>1. CASE RoleOf[r.me] = "USER"
    BY <1>1 DEF BookingsKey
  <1>2. CASE RoleOf[r.me] = "MANAGER"
    BY <1>2 DEF BookingsKey
  <1>3. CASE RoleOf[r.me] = "ADMIN"
    BY <1>3 DEF BookingsKey
  <1> QED BY <1>1, <1>2, <1>3 DEF Roles

LEMMA BookingsFaithful ==
    ASSUME NEW r \in BookingRequests, NEW s \in BookingRequests, KeyOf(r) = KeyOf(s),
           r.many = TRUE, s.many = TRUE
    PROVE  Exchangeable(r, s)
  <1>1. r.kind = "booking" /\ s.kind = "booking" /\ RoleOf[r.me] \in Roles /\ RoleOf[s.me] \in Roles
    BY BookingForms, RolesAreRoles
  <1>2. BookingsKey(r) = BookingsKey(s)
    BY <1>1, KeyOfBookings
  <1> DEFINE whom(q)   == IF RoleOf[q.me] = "USER" THEN q.me ELSE q.user
             active(q) == IF RoleOf[q.me] = "ADMIN" THEN q.active ELSE TRUE
  <1>3. Key("booking", RoleOf[r.me], r.cafe, None, whom(r), active(r))
        = Key("booking", RoleOf[s.me], s.cafe, None, whom(s), active(s))
    BY <1>1, <1>2, RoleOfBookingsKey
  <1>4. RoleOf[r.me] = RoleOf[s.me] /\ r.cafe = s.cafe /\ whom(r) = whom(s) /\ active(r) = active(s)
    <2> HIDE DEF whom, active
    <2> QED BY <1>3, SameKey
  <1>5. CASE RoleOf[r.me] = "USER"
    BY <1>1, <1>4, <1>5 DEF Exchangeable, Query, ActiveFilter
  <1>6. CASE RoleOf[r.me] = "MANAGER"
    BY <1>1, <1>4, <1>6 DEF Exchangeable, OfManager
  <1>7. CASE RoleOf[r.me] = "ADMIN"
    BY <1>1, <1>4, <1>7 DEF Exchangeable, Query, ActiveFilter
  <1> QED BY <1>1, <1>5, <1>6, <1>7 DEF Roles

LEMMA BookingFaithful ==
    ASSUME NEW r \in BookingRequests, NEW s \in BookingRequests, KeyOf(r) = KeyOf(s),
           r.many = FALSE
    PROVE  Query(r) = Query(s)
  <1>1. r.kind = "booking" /\ s.kind = "booking" /\ RoleOf[s.me] \in Roles /\ r.obj # None
    BY BookingForms, RolesAreRoles
  <1>2. KeyOf(r) = Key("booking", None, None, r.obj, r.me, None)
    BY <1>1, KeyOfBooking
  <1>3. s.many = FALSE
    <2>1. SUFFICES ASSUME s.many = TRUE PROVE FALSE
      BY BookingForms
    <2> DEFINE whom   == IF RoleOf[s.me] = "USER" THEN s.me ELSE s.user
               active == IF RoleOf[s.me] = "ADMIN" THEN s.active ELSE TRUE
    <2>2. KeyOf(s) = Key("booking", RoleOf[s.me], s.cafe, None, whom, active)
      BY <1>1, <2>1, KeyOfBookings, RoleOfBookingsKey
    <2>3. Key("booking", None, None, r.obj, r.me, None)
          = Key("booking", RoleOf[s.me], s.cafe, None, whom, active)
      BY <1>2, <2>2
    <2> HIDE DEF whom, active
    <2>4. r.obj = None
      BY <2>3, SameKey
    <2> QED BY <1>1, <2>4
  <1>4. KeyOf(s) = Key("booking", None, None, s.obj, s.me, None)
    BY <1>1, <1>3, KeyOfBooking
  <1>5. Key("booking", None, None, r.obj, r.me, None) = Key("booking", None, None, s.obj, s.me, None)
    BY <1>2, <1>4
  <1>6. r.obj = s.obj /\ r.me = s.me
    BY <1>5, SameKey
  <1> QED BY <1>1, <1>3, <1>6 DEF Query

LEMMA UserFaithful ==
    ASSUME NEW r \in UserRequests, NEW s \in UserRequests, KeyOf(r) = KeyOf(s)
    PROVE  Query(r) = Query(s)
  <1> DEFINE Three(q) ==
        \/ q.many = TRUE /\ KeyOf(q) = Key("user", RoleOf[q.me], None, None, None, None)
        \/ q.many = FALSE /\ q.user = None /\ KeyOf(q) = Key("user", None, None, None, q.me, None)
        \/ /\ q.many = FALSE /\ q.user # None
           /\ KeyOf(q) = Key("user", RoleOf[q.me], q.cafe, q.obj, q.user, q.active)
  <1>1. ASSUME NEW q \in UserRequests PROVE q.kind = "user" /\ RoleOf[q.me] # None /\ q.me # None /\ Three(q)
    <2>1. q.kind = "user" /\ q.me \in Users /\ (q.many = TRUE \/ q.many = FALSE)
      BY UserForms
    <2>2. RoleOf[q.me] # None /\ q.me # None
      BY <2>1, RolesAreRoles, KeysAssumption
    <2>3. CASE q.many = TRUE
      BY <2>1, <2>2, <2>3, KeyOfUsers
    <2>4. CASE q.many = FALSE /\ q.user = None
      BY <2>1, <2>2, <2>4, KeyOfMe
    <2>5. CASE q.many = FALSE /\ q.user # None
      <3>1. KeyOf(q) = Key(q.kind, RoleOf[q.me], q.cafe, q.obj, q.user, q.active)
        BY <2>1, <2>5, KeyOfOther
      <3> QED BY <2>1, <2>2, <2>5, <3>1
    <2> QED BY <2>1, <2>3, <2>4, <2>5
  <1>2. r.kind = "user" /\ RoleOf[r.me] # None /\ r.me # None /\ Three(r)
    BY <1>1
  <1>3. s.kind = "user" /\ RoleOf[s.me] # None /\ s.me # None /\ Three(s)
    BY <1>1
  <1>4. CASE r.many = TRUE
    <2>1. KeyOf(r) = Key("user", RoleOf[r.me], None, None, None, None)
      BY <1>2, <1>4
    <2>2. s.many = TRUE
      BY <1>2, <1>3, <2>1, SameKey
    <2> QED BY <1>2, <1>3, <1>4, <2>2 DEF Query
  <1>5. CASE r.many = FALSE /\ r.user = None
    <2>1. KeyOf(r) = Key("user", None, None, None, r.me, None)
      BY <1>2, <1>5
    <2>2. s.many = FALSE /\ s.user = None /\ s.me = r.me
      BY <1>2, <1>3, <2>1, SameKey
    <2> QED BY <1>2, <1>3, <1>5, <2>2 DEF Query
  <1>6. CASE r.many = FALSE /\ r.user # None
    <2>1. KeyOf(r) = Key("user", RoleOf[r.me], r.cafe, r.obj, r.user, r.active)
      BY <1>2, <1>6
    <2>2. s.many = FALSE /\ s.user = r.user
      BY <1>2, <1>3, <1>6, <2>1, SameKey
    <2> QED BY <1>2, <1>3, <1>6, <2>2 DEF Query
  <1> QED BY <1>2, <1>4, <1>5, <1>6

LEMMA ObjectFaithful ==
    ASSUME NEW r \in Reads, NEW s \in Reads, KeyOf(r) = KeyOf(s)
    PROVE  Query(r) = Query(s)
  <1>1. ASSUME NEW q \in Reads
        PROVE  /\ q.kind \in {"cafe", "slot", "table"}
               /\ \/ q.many = TRUE /\ (IF q.kind = "cafe" THEN q.cafe = None ELSE q.obj = None)
                  \/ q.many = FALSE /\ (IF q.kind = "cafe" THEN q.cafe # None ELSE q.obj # None)
    BY CafeForms, SlotForms, TableForms DEF Reads
  <1>2. ASSUME NEW q \in Reads
        PROVE  KeyOf(q) = Key(q.kind, RoleOf[q.me], q.cafe, q.obj, q.user, q.active)
    BY <1>1, KeyOfOther
  <1>3. Key(r.kind, RoleOf[r.me], r.cafe, r.obj, r.user, r.active)
        = Key(s.kind, RoleOf[s.me], s.cafe, s.obj, s.user, s.active)
    BY <1>2
  <1>4. r.kind = s.kind /\ RoleOf[r.me] = RoleOf[s.me] /\ r.cafe = s.cafe /\ r.obj = s.obj /\ r.active = s.active
    BY <1>3, SameKey
  <1>5. r.many = s.many
    BY <1>1, <1>4
  <1>6. r.kind # "booking" /\ r.kind # "user" /\ s.kind # "booking" /\ s.kind # "user"
    BY <1>1
  <1> QED BY <1>4, <1>5, <1>6 DEF Query

\* cache_key.py, bookings_key: requests with the same key have the same answer, but
\* for the managers' lists of bookings.
THEOREM KeysFaithful ==
    ASSUME NEW r \in Requests, NEW s \in Requests, KeyOf(r) = KeyOf(s)
    PROVE  Exchangeable(r, s)
  <1>1. r.kind = s.kind
    BY PrefixIsKind
  <1>2. CASE r \in Reads
    <2>1. r.kind \in {"cafe", "slot", "table"}
      BY <1>2, CafeForms, SlotForms, TableForms DEF Reads
    <2>2. s \in Reads
      BY <1>1, <2>1, BookingForms, UserForms DEF Requests, Reads
    <2> QED BY <1>2, <2>2, ObjectFaithful DEF Exchangeable
  <1>3. CASE r \in UserRequests
    <2>1. s \in UserRequests
      BY <1>1, <1>3, CafeForms, SlotForms, TableForms, BookingForms, UserForms DEF Requests
    <2> QED BY <1>3, <2>1, UserFaithful DEF Exchangeable
  <1>4. CASE r \in BookingRequests
    <2>1. s \in BookingRequests
      BY <1>1, <1>4, CafeForms, SlotForms, TableForms, BookingForms, UserForms DEF Requests
    <2>2. CASE r.many = FALSE
      BY <1>4, <2>1, <2>2, BookingFaithful DEF Exchangeable
    <2>3. CASE s.many = FALSE
      <3>1. Query(s) = Query(r)
        BY <1>4, <2>1, <2>3, BookingFaithful
      <3> QED BY <3>1 DEF Exchangeable
    <2>4. CASE r.many = TRUE /\ s.many = TRUE
      BY <1>4, <2>1, <2>4, BookingsFaithful
    <2> QED BY <1>4, <2>1, <2>2, <2>3, <2>4, BookingForms
  <1> QED BY <1>2, <1>3, <1>4 DEF Requests, Reads

-----------------------------------------------------------------------------
(* Types.                                                                  *)

InFlight == {"check", "clean", "write"}

\* What a handler knows of its request before it has written.
Ready(h) ==
    /\ pc[h] # "idle" => req[h] \in Write
    /\ pc[h] \in InFlight =>
          /\ req[h].obj \in OfKind(req[h].kind) /\ Valid(req[h])
          /\ req[h].create = FALSE => rows[req[h].obj] \in Row /\ loaded[h] \in Row

TypeInv == TypeOK /\ \A h \in Handlers : Ready(h)

LEMMA ObjectsOfKind ==
    ASSUME NEW kind \in Kinds, NEW o \in OfKind(kind)
    PROVE  o \in Objects
  BY DEF Kinds, OfKind, Objects

LEMMA NewRowType ==
    ASSUME TypeInv, NEW h \in Handlers, pc[h] = "write"
    PROVE  /\ NewRow(h) \in Row
           /\ req[h].obj \in Objects
           /\ req[h].create = TRUE =>
                 /\ NewRow(h).cafe = req[h].cafe
                 /\ NewRow(h).x = req[h].body.x /\ NewRow(h).y = req[h].body.y
           /\ req[h].create = FALSE =>
                 /\ NewRow(h).cafe = rows[req[h].obj].cafe
                 /\ NewRow(h).x = Column(req[h].body.x, loaded[h].x, rows[req[h].obj].x)
                 /\ NewRow(h).y = Column(req[h].body.y, loaded[h].y, rows[req[h].obj].y)
  <1> DEFINE w == req[h]  now == rows[w.obj]  old == loaded[h]
  <1>1. /\ w \in Write /\ w.obj \in OfKind(w.kind) /\ Valid(w)
        /\ w.create = FALSE => now \in Row /\ old \in Row
    BY DEF TypeInv, Ready, InFlight
  <1>2. w.kind \in Kinds /\ w.cafe \in Cafes /\ w.obj \in Objects /\ w.body \in Body /\ w.create \in BOOLEAN
    BY <1>1 DEF Write
  <1>3. w.body.x \in Optional(Values) /\ w.body.y \in Optional(Values) /\ w.body.active \in Optional(BOOLEAN)
    BY <1>2 DEF Body
  <1>4. CASE w.create = TRUE
    <2>1. w.body.x # None /\ w.body.y # None
      BY <1>1, <1>4 DEF Valid
    <2>2. w.body.x \in Values /\ w.body.y \in Values
      BY <1>3, <2>1 DEF Optional
    <2>3. NewRow(h) = [cafe |-> w.cafe, x |-> w.body.x, y |-> w.body.y, active |-> TRUE]
      BY <1>4 DEF NewRow
    <2> QED BY <1>2, <1>4, <2>2, <2>3 DEF Row
  <1>5. CASE w.create = FALSE
    <2> DEFINE x == Column(w.body.x, old.x, now.x)
               y == Column(w.body.y, old.y, now.y)
               active == Column(w.body.active, old.active, now.active)
    <2>1. now \in Row
      BY <1>1, <1>5
    <2>2. now.cafe \in Cafes /\ now.x \in Values /\ now.y \in Values /\ now.active \in BOOLEAN
          /\ now = [cafe |-> now.cafe, x |-> now.x, y |-> now.y, active |-> now.active]
      BY <2>1 DEF Row
    <2>3. x \in Values /\ y \in Values
      BY <1>3, <2>2 DEF Column, Optional
    <2>4. active \in BOOLEAN
      BY <1>3, <2>2, Zenon DEF Column, Optional
    <2>5. NewRow(h) = [now EXCEPT !.x = x, !.y = y, !.active = active]
      BY <1>5 DEF NewRow
    <2>6. NewRow(h) = [cafe |-> now.cafe, x |-> x, y |-> y, active |-> active]
      <3> HIDE DEF x, y, active
      <3> QED BY <2>1, <2>5 DEF Row
    <2> HIDE DEF x, y, active
    <2>7. NewRow(h) \in Row /\ NewRow(h).cafe = now.cafe /\ NewRow(h).x = x /\ NewRow(h).y = y
      BY <2>2, <2>3, <2>4, <2>6 DEF Row
    <2> QED BY <1>2, <1>5, <2>7 DEF x, y
  <1> QED BY <1>2, <1>4, <1>5

LEMMA TypeInit == Init => TypeInv
  <1> SUFFICES ASSUME Init PROVE TypeInv
    OBVIOUS
  <1>1. rows \in [Objects -> Optional(Row)] /\ requests \in 0..MaxRequests
    BY CafeAssumption DEF Init
  <1>2. TypeOK
    BY <1>1 DEF Init, TypeOK, Places, Optional
  <1> QED BY <1>2 DEF Init, TypeInv, Ready, InFlight

\* What a request that begins looks like.
Asks(w) ==
    /\ w \in Write /\ w.obj \in OfKind(w.kind) /\ w.obj \in Objects
    /\ w.kind = "cafe" => w.obj = w.cafe
    /\ Valid(w) /\ \E me \in Editors : Permitted(w, me)

LEMMA BeginAsks ==
    ASSUME NEW h \in Handlers, Begin(h)
    PROVE  \E w : Asks(w) /\ Serve(h, w)
  <1>1. PICK kind \in Kinds, create \in BOOLEAN, c \in Cafes :
        \E o \in OfKind(kind), body \in Bodies[kind] :
          LET w == [kind |-> kind, create |-> create, cafe |-> c, obj |-> o, body |-> body]
          IN  /\ kind = "cafe" => o = c
              /\ Valid(w) /\ \E me \in Editors : Permitted(w, me)
              /\ Serve(h, w)
    BY DEF Begin
  <1>2. PICK o \in OfKind(kind), body \in Bodies[kind] :
          LET w == [kind |-> kind, create |-> create, cafe |-> c, obj |-> o, body |-> body]
          IN  /\ kind = "cafe" => o = c
              /\ Valid(w) /\ \E me \in Editors : Permitted(w, me)
              /\ Serve(h, w)
    BY <1>1
  <1> DEFINE w == [kind |-> kind, create |-> create, cafe |-> c, obj |-> o, body |-> body]
  <1>3. o \in Objects /\ body \in Body
    BY CafeAssumption, ObjectsOfKind
  <1>4. w \in Write
    BY <1>3, Zenon DEF Write
  <1>5. w.obj = o /\ w.kind = kind /\ w.cafe = c
    OBVIOUS
  <1>6. (w.kind = "cafe" => w.obj = w.cafe) /\ Valid(w) /\ (\E me \in Editors : Permitted(w, me)) /\ Serve(h, w)
    BY <1>2
  <1> HIDE DEF w
  <1> QED BY <1>3, <1>4, <1>5, <1>6 DEF Asks

LEMMA TypeBegin == ASSUME TypeInv, NEW h \in Handlers, Begin(h) PROVE TypeInv'
  <1> USE DEF TypeInv
  <1>1. PICK w : Asks(w) /\ Serve(h, w)
    BY BeginAsks
  <1> DEFINE place == IF w.kind = "table" THEN "write" ELSE "check"
             row == IF w.create THEN None ELSE rows[w.obj]
  <1>2. w \in Write
    BY <1>1 DEF Asks
  <1>3. w.obj \in Objects /\ rows[w.obj] \in Optional(Row) /\ w.create \in BOOLEAN
    BY <1>1, <1>2 DEF TypeOK, Asks, Write
  <1>4. w.create = FALSE => rows[w.obj] \in Row
    BY <1>1, <1>3 DEF Asks, Permitted, Exists, Optional
  <1>5. row \in Optional(Row) /\ place \in Places
    BY <1>3, <1>4, Zenon DEF Optional, Places
  <1>6. req' = [req EXCEPT ![h] = w] /\ loaded' = [loaded EXCEPT ![h] = row] /\ pc' = [pc EXCEPT ![h] = place]
    BY <1>1 DEF Serve
  <1>7. requests' \in 0..MaxRequests
    BY CafeAssumption DEF Begin, TypeOK
  <1>8. /\ rows' = rows /\ unsure' = unsure /\ entry' = entry /\ pending' = pending
        /\ overtaken' = [overtaken EXCEPT ![h] = FALSE]
    BY <1>1 DEF Begin, Serve
  <1>9. TypeOK'
    <2> HIDE DEF row, place
    <2> QED BY <1>2, <1>5, <1>6, <1>7, <1>8 DEF TypeOK, Optional
  <1>10. ASSUME NEW g \in Handlers PROVE Ready(g)'
    <2>1. CASE g = h
      <3>1. req'[g] = w /\ loaded'[g] = row
        <4> HIDE DEF row
        <4> QED BY <1>6, <2>1 DEF TypeOK
      <3>2. Valid(w) /\ w.obj \in OfKind(w.kind)
        BY <1>1 DEF Asks
      <3>3. (w.create = FALSE) => row \in Row /\ rows[w.obj] \in Row
        BY <1>4
      <3> HIDE DEF row
      <3> QED BY <1>2, <1>8, <3>1, <3>2, <3>3 DEF Ready
    <2>2. CASE g # h
      <3>1. req'[g] = req[g] /\ loaded'[g] = loaded[g] /\ pc'[g] = pc[g]
        <4> HIDE DEF row, place
        <4> QED BY <1>6, <2>2 DEF TypeOK
      <3> QED BY <1>8, <3>1 DEF Ready
    <2> QED BY <2>1, <2>2
  <1> QED BY <1>9, <1>10

LEMMA TypeCheck == ASSUME TypeInv, NEW h \in Handlers, Check(h) PROVE TypeInv'
  <1>1. UNCHANGED <<rows, req, loaded, overtaken, unsure, entry, pending, requests>> /\ pc[h] = "check"
    BY DEF Check
  <1>2. \E place \in {"clean", "idle"} : pc' = [pc EXCEPT ![h] = place]
    BY DEF Check
  <1>3. TypeOK'
    BY <1>1, <1>2 DEF TypeInv, TypeOK, Places
  <1>4. ASSUME NEW g \in Handlers PROVE Ready(g)'
    <2>1. pc'[g] = "idle" \/ pc'[g] = pc[g] \/ pc[g] \in InFlight
      BY <1>1, <1>2 DEF TypeInv, TypeOK, InFlight
    <2> QED BY <1>1, <2>1 DEF TypeInv, Ready, InFlight
  <1> QED BY <1>3, <1>4 DEF TypeInv

LEMMA CleanTagType ==
    ASSUME NEW w \in Write
    PROVE  CleanTag(w) \in Tags \cup {NoTag}
  BY DEF CleanTag, Write, Tags, Kinds

LEMMA TypeClean == ASSUME TypeInv, NEW h \in Handlers, Clean(h) PROVE TypeInv'
  <1>1. UNCHANGED <<rows, req, loaded, overtaken, unsure, entry, requests>> /\ pc[h] \in {"clean", "cleanAfter"}
    BY DEF Clean
  <1>2. pc' = [pc EXCEPT ![h] = IF pc[h] = "clean" THEN "write" ELSE "idle"]
    BY DEF Clean
  <1>3. req[h] \in Write
    BY <1>1 DEF TypeInv, Ready
  <1>4. pending' \subseteq Tags
    BY <1>3, CleanTagType DEF Clean, TypeInv, TypeOK
  <1>5. TypeOK'
    BY <1>1, <1>2, <1>4 DEF TypeInv, TypeOK, Places
  <1>6. ASSUME NEW g \in Handlers PROVE Ready(g)'
    <2>1. pc'[g] = "idle" \/ pc'[g] = pc[g] \/ (pc[g] \in InFlight /\ pc'[g] = "write")
      BY <1>1, <1>2 DEF TypeInv, TypeOK, InFlight
    <2> QED BY <1>1, <2>1 DEF TypeInv, Ready, InFlight
  <1> QED BY <1>5, <1>6 DEF TypeInv

LEMMA ReadsAreRequests == Reads \subseteq Requests
  BY DEF Reads, Requests

LEMMA OutdatedType ==
    ASSUME TypeInv, NEW h \in Handlers, pc[h] = "write", NEW db
    PROVE  Outdated(h, db) \in Optional(Entry)
  <1>1. req[h] \in Write /\ entry \in Optional(Entry)
    BY DEF TypeInv, Ready, TypeOK
  <1>2. CASE entry = None \/ Answer(rows, entry.req) = Answer(db, entry.req)
    BY <1>1, <1>2 DEF Outdated, Optional
  <1>3. CASE ~(entry = None \/ Answer(rows, entry.req) = Answer(db, entry.req))
    <2> DEFINE w == [kind |-> req[h].kind, create |-> req[h].create, obj |-> req[h].obj,
                     late |-> h \in entry.during]
    <2>1. entry \in Entry
      BY <1>1, <1>3 DEF Optional
    <2>2. w \in Missed
      <3>1. (h \in entry.during) \in BOOLEAN
        OBVIOUS
      <3> QED BY <1>1, <3>1, Zenon DEF Write, Missed
    <2>3. Outdated(h, db) = [entry EXCEPT !.missed = @ \cup {w}]
      BY <1>3 DEF Outdated
    <2> HIDE DEF w
    <2>4. Outdated(h, db) \in Entry
      BY <2>1, <2>2, <2>3 DEF Entry
    <2> QED BY <2>4 DEF Optional
  <1> QED BY <1>2, <1>3

LEMMA TypeCommit == ASSUME TypeInv, NEW h \in Handlers, Commit(h) PROVE TypeInv'
  <1> DEFINE place == IF req[h].kind = "table" THEN "cleanAfter" ELSE "idle"
  <1>1. /\ pc[h] = "write" /\ UNCHANGED <<req, loaded, pending, requests>>
        /\ rows' = [rows EXCEPT ![req[h].obj] = NewRow(h)]
        /\ pc' = [pc EXCEPT ![h] = place]
        /\ entry' = Outdated(h, rows')
    BY DEF Commit
  <1>2. NewRow(h) \in Row /\ req[h].obj \in Objects
    BY <1>1, NewRowType
  <1>3. entry' \in Optional(Entry)
    BY <1>1, OutdatedType
  <1>4. overtaken' \in [Handlers -> BOOLEAN]
    BY DEF Commit, TypeInv, TypeOK
  <1>5. unsure' \in [Objects -> BOOLEAN]
    <2>1. \E b \in BOOLEAN : unsure' = [unsure EXCEPT ![req[h].obj] = b]
      BY <1>2, Zenon DEF Commit, TypeInv, TypeOK
    <2> QED BY <2>1 DEF TypeInv, TypeOK
  <1>6. rows' \in [Objects -> Optional(Row)]
    BY <1>1, <1>2 DEF TypeInv, TypeOK, Optional
  <1>7. place \in Places
    BY DEF Places
  <1>8. TypeOK'
    <2> HIDE DEF place
    <2> QED BY <1>1, <1>3, <1>4, <1>5, <1>6, <1>7 DEF TypeInv, TypeOK
  <1>9. ASSUME NEW g \in Handlers PROVE Ready(g)'
    <2>1. pc'[g] = "idle" \/ pc'[g] = pc[g] \/ (pc[g] = "write" /\ pc'[g] = "cleanAfter")
      BY <1>1 DEF TypeInv, TypeOK
    <2>2. \A o \in Objects : rows[o] \in Row => rows'[o] \in Row
      BY <1>1, <1>2 DEF TypeInv, TypeOK
    <2>3. pc[g] # "idle" => req[g].obj \in Objects
      BY DEF TypeInv, Ready, Write
    <2> QED BY <1>1, <2>1, <2>2, <2>3 DEF TypeInv, Ready, InFlight
  <1> QED BY <1>8, <1>9 DEF TypeInv

LEMMA TypeRefused == ASSUME TypeInv, NEW h \in Handlers, Refused(h) PROVE TypeInv'
  <1>1. UNCHANGED <<rows, req, loaded, overtaken, unsure, entry, pending, requests>>
        /\ pc' = [pc EXCEPT ![h] = "idle"]
    BY DEF Refused
  <1>2. TypeOK'
    BY <1>1 DEF TypeInv, TypeOK, Places
  <1> QED BY <1>1, <1>2 DEF TypeInv, Ready, TypeOK, InFlight

\* The steps of the cache.
CacheStep ==
    \/ \E r \in Reads : Fill(r)
    \/ \E r \in Requests : FillOther(r)
    \/ Expire
    \/ \E tag \in pending : Invalidate(tag)

LEMMA CacheStepFrame ==
    ASSUME CacheStep
    PROVE  UNCHANGED <<rows, pc, req, loaded, overtaken, unsure, requests>>
  BY DEF CacheStep, Fill, FillOther, Expire, Invalidate

LEMMA TypeCache == ASSUME TypeInv, CacheStep PROVE TypeInv'
  <1>1. UNCHANGED <<rows, pc, req, loaded, overtaken, unsure, requests>>
    BY CacheStepFrame
  <1>2. entry' \in Optional(Entry) /\ pending' \in SUBSET Tags
    <2>1. CASE \E r \in Reads : Fill(r)
      <3>1. PICK r \in Requests : Fill(r)
        BY <2>1, ReadsAreRequests
      <3> DEFINE during == {h \in Handlers : pc[h] = "write" /\ req[h].kind # "table"}
      <3>2. entry' = [req |-> r, missed |-> {}, during |-> during] /\ pending' = pending
        BY <3>1 DEF Fill
      <3> HIDE DEF during
      <3>3. during \in SUBSET Handlers
        BY DEF during
      <3> QED BY <3>2, <3>3 DEF Entry, Optional, TypeInv, TypeOK
    <2>2. CASE \E r \in Requests : FillOther(r)
      BY <2>2 DEF FillOther, Entry, Optional, TypeInv, TypeOK
    <2>3. CASE Expire \/ \E tag \in pending : Invalidate(tag)
      BY <2>3 DEF Expire, Invalidate, Optional, TypeInv, TypeOK
    <2> QED BY <2>1, <2>2, <2>3 DEF CacheStep
  <1> QED BY <1>1, <1>2 DEF TypeInv, TypeOK, Ready, InFlight, Optional

LEMMA TypeStep == ASSUME TypeInv, [Next]_vars PROVE TypeInv'
  <1>1. CASE UNCHANGED vars
    BY <1>1 DEF vars, TypeInv, TypeOK, Ready, InFlight, Optional
  <1>2. CASE \E h \in Handlers : Begin(h) \/ Check(h) \/ Clean(h) \/ Commit(h) \/ Refused(h)
    BY <1>2, TypeBegin, TypeCheck, TypeClean, TypeCommit, TypeRefused
  <1>3. CASE CacheStep
    BY <1>3, TypeCache
  <1> QED BY <1>1, <1>2, <1>3 DEF Next, CacheStep

LEMMA TypeInvariance == Spec => []TypeInv
  <1> QED BY TypeInit, TypeStep, PTL DEF Spec

\* The tables, the handlers and the cached entry keep their types: nothing makes a
\* row of something that is not one.
THEOREM TypeCorrect == Spec => []TypeOK
  <1>1. TypeInv => TypeOK
    BY DEF TypeInv
  <1> QED BY <1>1, TypeInvariance, PTL

\* A cached answer is only found by requests that may be given it.
THEOREM AnswersInterchangeable == Spec => []ServedOwnQuery
  <1>1. TypeInv => ServedOwnQuery
    <2> SUFFICES ASSUME TypeInv, entry # None, NEW r \in Sharing[entry.req]
                 PROVE  Exchangeable(r, entry.req)
      BY DEF ServedOwnQuery
    <2>1. entry.req \in Requests
      BY DEF TypeInv, TypeOK, Optional, Entry
    <2>2. r \in Requests /\ KeyOf(r) = KeyOf(entry.req)
      BY <2>1 DEF Sharing
    <2> QED BY <2>1, <2>2, KeysFaithful
  <1> QED BY <1>1, TypeInvariance, PTL

-----------------------------------------------------------------------------
(* Equal slots.                                                            *)

\* A request that nobody has overtaken works with the row as it is, and finds no
\* slot that is equal to the one it wants.
Current(h) ==
    pc[h] \in InFlight /\ overtaken[h] = FALSE /\ req[h].create = FALSE =>
        loaded[h] = rows[req[h].obj] /\ rows[req[h].obj].cafe = req[h].cafe
Checked(h) ==
    pc[h] \in {"clean", "write"} /\ req[h].kind = "slot" /\ overtaken[h] = FALSE => Clashes(h) = {}

RaceInv ==
    /\ TypeInv
    /\ \A h \in Handlers : Current(h) /\ Checked(h)
    /\ DuplicatesNeedRaces

LEMMA RaceInit == Init => RaceInv
  <1> SUFFICES ASSUME Init PROVE RaceInv
    OBVIOUS
  <1>1. DuplicatesNeedRaces
    BY CafeAssumption DEF Init, DuplicatesNeedRaces, Exists
  <1> QED BY <1>1, TypeInit DEF Init, RaceInv, Current, Checked, InFlight

LEMMA SlotIsSlot ==
    ASSUME NEW kind \in Kinds, NEW o \in OfKind(kind), o \in Slots
    PROVE  kind = "slot"
  BY CafeAssumption DEF Kinds, OfKind

\* With the row as it is, what is written is what was checked.
LEMMA WantedIsWritten ==
    ASSUME TypeInv, NEW h \in Handlers, pc[h] = "write", overtaken[h] = FALSE, Current(h)
    PROVE  /\ NewRow(h).x = WantedX(h) /\ NewRow(h).y = WantedY(h)
           /\ NewRow(h).cafe = req[h].cafe
  <1>1. req[h].create = TRUE \/ req[h].create = FALSE
    BY DEF TypeInv, Ready, Write
  <1>2. CASE req[h].create = TRUE
    BY <1>2, NewRowType DEF WantedX, WantedY
  <1>3. CASE req[h].create = FALSE
    <2>1. loaded[h] = rows[req[h].obj] /\ rows[req[h].obj].cafe = req[h].cafe
      BY <1>3 DEF Current, InFlight
    <2> DEFINE old == loaded[h]  body == req[h].body
    <2>2. /\ NewRow(h).x = Column(body.x, old.x, old.x)
          /\ NewRow(h).y = Column(body.y, old.y, old.y)
          /\ NewRow(h).cafe = req[h].cafe
      BY <1>3, <2>1, NewRowType
    <2>3. WantedX(h) = Merge(body.x, old.x) /\ WantedY(h) = Merge(body.y, old.y)
      BY <1>3 DEF WantedX, WantedY
    <2>4. Column(body.x, old.x, old.x) = Merge(body.x, old.x) /\ Column(body.y, old.y, old.y) = Merge(body.y, old.y)
      BY DEF Column, Merge
    <2> QED BY <2>2, <2>3, <2>4
  <1> QED BY <1>1, <1>2, <1>3

LEMMA DuplicatesCommit ==
    ASSUME RaceInv, NEW h \in Handlers, Commit(h)
    PROVE  DuplicatesNeedRaces'
  <1> DEFINE w == req[h]  new == NewRow(h)
  <1>1. /\ pc[h] = "write" /\ rows' = [rows EXCEPT ![w.obj] = new]
        /\ unsure' = [unsure EXCEPT ![w.obj] =
                         IF ~w.create /\ new.x = rows[w.obj].x /\ new.y = rows[w.obj].y
                         THEN @ ELSE overtaken[h]]
    BY DEF Commit
  <1>2. TypeInv
    BY DEF RaceInv
  <1>3. new \in Row /\ w.obj \in Objects /\ w \in Write /\ w.obj \in OfKind(w.kind)
    BY <1>1, <1>2, NewRowType DEF TypeInv, Ready, InFlight
  <1>4. /\ \A o \in Objects \ {w.obj} : rows'[o] = rows[o] /\ unsure'[o] = unsure[o]
        /\ rows'[w.obj] = new
    <2> HIDE DEF new
    <2> QED BY <1>1, <1>2, <1>3 DEF TypeInv, TypeOK
  <1>5. ASSUME NEW s \in Slots, NEW t \in Slots, s # t, Exists(t), s = w.obj,
               new.cafe = rows[t].cafe, new.x = rows[t].x, new.y = rows[t].y
        PROVE  unsure'[s] \/ unsure[t]
    <2>1. w.kind = "slot"
      BY <1>3, <1>5, SlotIsSlot DEF Write
    <2>2. CASE ~w.create /\ new.x = rows[w.obj].x /\ new.y = rows[w.obj].y
      <3>1. unsure' = [unsure EXCEPT ![w.obj] = unsure[w.obj]]
        BY <1>1, <2>2
      <3>2. unsure'[s] = unsure[s]
        BY <1>2, <1>3, <1>5, <3>1 DEF TypeInv, TypeOK
      <3>3. w.create = FALSE
        BY <1>3, <2>2 DEF Write
      <3>4. new.cafe = rows[s].cafe
        BY <1>1, <1>2, <1>5, <3>3, NewRowType
      <3>5. Exists(s)
        BY <1>1, <1>2, <1>5, <3>3, CafeAssumption DEF TypeInv, Ready, InFlight, Exists
      <3> QED BY <1>5, <2>2, <3>2, <3>4, <3>5 DEF RaceInv, DuplicatesNeedRaces
    <2>3. CASE ~(~w.create /\ new.x = rows[w.obj].x /\ new.y = rows[w.obj].y)
      <3>1. unsure' = [unsure EXCEPT ![w.obj] = overtaken[h]]
        BY <1>1, <2>3
      <3>2. unsure'[s] = overtaken[h]
        BY <1>2, <1>3, <1>5, <3>1 DEF TypeInv, TypeOK
      <3>3. ASSUME overtaken[h] = FALSE PROVE FALSE
        <4>1. new.x = WantedX(h) /\ new.y = WantedY(h) /\ new.cafe = w.cafe
          BY <1>1, <1>2, <3>3, WantedIsWritten DEF RaceInv
        <4>2. Clashes(h) = {}
          BY <1>1, <2>1, <3>3 DEF RaceInv, Checked
        <4>3. t \in Clashes(h)
          BY <1>5, <2>1, <4>1 DEF Clashes, OfKind
        <4> QED BY <4>2, <4>3
      <3>4. overtaken[h] = TRUE
        BY <1>2, <3>3 DEF TypeInv, TypeOK
      <3> QED BY <3>2, <3>4
    <2> QED BY <2>2, <2>3
  <1>6. SUFFICES ASSUME NEW s \in Slots, NEW t \in Slots, s # t, Exists(s)', Exists(t)',
                        rows'[s].cafe = rows'[t].cafe, rows'[s].x = rows'[t].x, rows'[s].y = rows'[t].y
                 PROVE  unsure'[s] \/ unsure'[t]
    BY DEF DuplicatesNeedRaces
  <1>7. s \in Objects /\ t \in Objects
    BY DEF Objects
  <1> HIDE DEF new
  <1>8. CASE s = w.obj
    <2>1. rows'[t] = rows[t] /\ unsure'[t] = unsure[t] /\ rows'[s] = new
      BY <1>4, <1>7, <1>6, <1>8
    <2> QED BY <1>5, <1>6, <1>8, <2>1 DEF Exists
  <1>9. CASE t = w.obj
    <2>1. rows'[s] = rows[s] /\ unsure'[s] = unsure[s] /\ rows'[t] = new
      BY <1>4, <1>7, <1>6, <1>9
    <2> QED BY <1>5, <1>6, <1>9, <2>1 DEF Exists
  <1>10. CASE s # w.obj /\ t # w.obj
    <2>1. rows'[s] = rows[s] /\ unsure'[s] = unsure[s] /\ rows'[t] = rows[t] /\ unsure'[t] = unsure[t]
      BY <1>4, <1>7, <1>10
    <2> QED BY <1>6, <2>1 DEF Exists, RaceInv, DuplicatesNeedRaces
  <1> QED BY <1>8, <1>9, <1>10

LEMMA RaceHandler ==
    ASSUME RaceInv, NEW h \in Handlers, Begin(h) \/ Check(h) \/ Clean(h) \/ Commit(h) \/ Refused(h)
    PROVE  RaceInv'
  <1>1. TypeInv /\ TypeInv'
    BY TypeBegin, TypeCheck, TypeClean, TypeCommit, TypeRefused DEF RaceInv
  <1>2. CASE Begin(h)
    <2>1. PICK w : Asks(w) /\ Serve(h, w)
      BY <1>2, BeginAsks
    <2>2. UNCHANGED <<rows, unsure>>
      BY <1>2 DEF Begin
    <2>3. ASSUME NEW g \in Handlers PROVE Current(g)' /\ Checked(g)'
      <3>1. CASE g # h
        <4>1. req'[g] = req[g] /\ loaded'[g] = loaded[g] /\ pc'[g] = pc[g] /\ overtaken'[g] = overtaken[g]
          BY <1>1, <2>1, <3>1 DEF Serve, TypeInv, TypeOK
        <4> QED BY <2>2, <4>1 DEF RaceInv, Current, Checked, Clashes, WantedX, WantedY, Exists
      <3>2. CASE g = h
        <4>1. /\ req'[h] = w /\ loaded'[h] = (IF w.create THEN None ELSE rows[w.obj])
              /\ pc'[h] = (IF w.kind = "table" THEN "write" ELSE "check")
          BY <1>1, <2>1 DEF Serve, TypeInv, TypeOK
        <4>2. w.create = FALSE => rows[w.obj].cafe = w.cafe
          BY <2>1 DEF Asks, Permitted
        <4>3. Current(g)'
          BY <2>2, <3>2, <4>1, <4>2 DEF Current
        <4>4. Checked(g)'
          BY <3>2, <4>1 DEF Checked
        <4> QED BY <4>3, <4>4
      <3> QED BY <3>1, <3>2
    <2> QED BY <1>1, <2>2, <2>3 DEF RaceInv, DuplicatesNeedRaces, Exists
  <1>3. CASE Check(h)
    <2>1. UNCHANGED <<rows, req, loaded, overtaken, unsure>>
          /\ pc' = [pc EXCEPT ![h] = IF Clashes(h) = {} THEN "clean" ELSE "idle"] /\ pc[h] = "check"
      BY <1>3 DEF Check
    <2>2. ASSUME NEW g \in Handlers PROVE Current(g)' /\ Checked(g)'
      <3>1. Clashes(g)' = Clashes(g)
        BY <2>1 DEF Clashes, WantedX, WantedY, Exists
      <3>2. pc'[g] = pc[g] \/ (g = h /\ (pc'[g] = "idle" \/ (pc'[g] = "clean" /\ Clashes(g) = {})))
        BY <1>1, <2>1 DEF TypeInv, TypeOK
      <3> QED BY <2>1, <3>1, <3>2 DEF RaceInv, Current, Checked, InFlight
    <2> QED BY <1>1, <2>1, <2>2 DEF RaceInv, DuplicatesNeedRaces, Exists
  <1>4. CASE Clean(h) \/ Refused(h)
    <2>1. UNCHANGED <<rows, req, loaded, overtaken, unsure>>
      BY <1>4 DEF Clean, Refused
    <2>2. ASSUME NEW g \in Handlers PROVE Current(g)' /\ Checked(g)'
      <3>1. Clashes(g)' = Clashes(g)
        BY <2>1 DEF Clashes, WantedX, WantedY, Exists
      <3>2. pc'[g] = pc[g] \/ pc'[g] = "idle" \/ (pc[g] = "clean" /\ pc'[g] = "write")
        BY <1>1, <1>4 DEF Clean, Refused, TypeInv, TypeOK
      <3> QED BY <2>1, <3>1, <3>2 DEF RaceInv, Current, Checked, InFlight
    <2> QED BY <1>1, <2>1, <2>2 DEF RaceInv, DuplicatesNeedRaces, Exists
  <1>5. CASE Commit(h)
    <2>1. /\ pc' = [pc EXCEPT ![h] = IF req[h].kind = "table" THEN "cleanAfter" ELSE "idle"]
          /\ overtaken' = [g \in Handlers |-> overtaken[g] \/ (g # h /\ pc[g] # "idle")]
      BY <1>5 DEF Commit
    <2>2. ASSUME NEW g \in Handlers PROVE Current(g)' /\ Checked(g)'
      <3>1. pc'[g] \notin InFlight \/ overtaken'[g] = TRUE
        BY <1>1, <2>1 DEF TypeInv, TypeOK, InFlight
      <3> QED BY <3>1 DEF Current, Checked, InFlight
    <2>3. DuplicatesNeedRaces'
      BY <1>5, DuplicatesCommit
    <2> QED BY <1>1, <2>2, <2>3 DEF RaceInv
  <1> QED BY <1>2, <1>3, <1>4, <1>5

LEMMA RaceStep == ASSUME RaceInv, [Next]_vars PROVE RaceInv'
  <1>1. TypeInv'
    BY TypeStep DEF RaceInv
  <1>2. CASE UNCHANGED <<rows, pc, req, loaded, overtaken, unsure>>
    BY <1>1, <1>2 DEF RaceInv, Current, Checked, Clashes, WantedX, WantedY, Exists, DuplicatesNeedRaces
  <1>3. CASE \E h \in Handlers : Begin(h) \/ Check(h) \/ Clean(h) \/ Commit(h) \/ Refused(h)
    BY <1>3, RaceHandler
  <1>4. CASE CacheStep
    BY <1>2, <1>4, CacheStepFrame
  <1>5. CASE UNCHANGED vars
    BY <1>2, <1>5 DEF vars
  <1> QED BY <1>3, <1>4, <1>5 DEF Next, CacheStep

\* check_unique_slot: equal slots of one cafe come only from a request that another
\* one overtook between its check and its commit.
THEOREM SlotsUnique == Spec => []DuplicatesNeedRaces
  <1>1. RaceInv => DuplicatesNeedRaces
    BY DEF RaceInv
  <1> QED BY <1>1, RaceInit, RaceStep, PTL DEF Spec

-----------------------------------------------------------------------------
(* Stale answers.                                                          *)

\* The object that a read of one object asks for.
Target(r) == IF r.kind = "cafe" THEN r.cafe ELSE r.obj

LEMMA ReadForms ==
    ASSUME NEW r \in Reads
    PROVE  /\ r.kind \in Kinds /\ r.many \in BOOLEAN
           /\ r.many = FALSE => r.cafe \in Cafes /\ Target(r) \in OfKind(r.kind)
  <1>1. CASE r \in CafeRequests
    <2>0. \/ \E u \in Users, a \in Optional(BOOLEAN) : r = GetCafes(u, a)
          \/ \E u \in Users, c \in Cafes : r = GetCafe(u, c)
      BY <1>1 DEF CafeRequests
    <2>1. CASE \E u \in Users, a \in Optional(BOOLEAN) : r = GetCafes(u, a)
      BY <2>1 DEF GetCafes, Get, Kinds
    <2>2. CASE \E u \in Users, c \in Cafes : r = GetCafe(u, c)
      BY <2>2 DEF GetCafe, Get, Kinds, Target, OfKind
    <2> QED BY <2>0, <2>1, <2>2
  <1>2. CASE r \in SlotRequests
    <2>0. \/ \E u \in Users, c \in Cafes, a \in Optional(BOOLEAN) : r = GetObjects("slot", u, c, a)
          \/ \E u \in Users, c \in Cafes, o \in Slots : r = GetObject("slot", u, c, o)
      BY <1>2 DEF SlotRequests
    <2>1. CASE \E u \in Users, c \in Cafes, a \in Optional(BOOLEAN) : r = GetObjects("slot", u, c, a)
      BY <2>1 DEF GetObjects, Get, Kinds
    <2>2. CASE \E u \in Users, c \in Cafes, o \in Slots : r = GetObject("slot", u, c, o)
      BY <2>2 DEF GetObject, Get, Kinds, Target, OfKind
    <2> QED BY <2>0, <2>1, <2>2
  <1>3. CASE r \in TableRequests
    <2>0. \/ \E u \in Users, c \in Cafes, a \in Optional(BOOLEAN) : r = GetObjects("table", u, c, a)
          \/ \E u \in Users, c \in Cafes, o \in Tables : r = GetObject("table", u, c, o)
      BY <1>3 DEF TableRequests
    <2>1. CASE \E u \in Users, c \in Cafes, a \in Optional(BOOLEAN) : r = GetObjects("table", u, c, a)
      BY <2>1 DEF GetObjects, Get, Kinds
    <2>2. CASE \E u \in Users, c \in Cafes, o \in Tables : r = GetObject("table", u, c, o)
      BY <2>2 DEF GetObject, Get, Kinds, Target, OfKind
    <2> QED BY <2>0, <2>1, <2>2
  <1> QED BY <1>1, <1>2, <1>3 DEF Reads

\* Which tag a cached read has.
LEMMA TagOfRead ==
    ASSUME NEW r \in Reads
    PROVE  /\ r.many = TRUE => TagOf(r) = <<r.kind, "list">>
           /\ r.many = FALSE => TagOf(r) = <<r.kind, Target(r)>>
           /\ TagOf(r) # NoTag
  <1>1. r.kind \in Kinds /\ r.kind # "user"
    BY ReadForms DEF Kinds
  <1>2. ASSUME r.many = TRUE PROVE TagOf(r) = <<r.kind, "list">>
    BY <1>2 DEF TagOf
  <1>3. ASSUME r.many = FALSE PROVE TagOf(r) = <<r.kind, Target(r)>>
    <2>1. CASE r.kind = "cafe"
      BY <1>3, <2>1 DEF TagOf, Target
    <2>2. CASE r.kind # "cafe"
      BY <1>1, <1>3, <2>2 DEF TagOf, Target
    <2> QED BY <2>1, <2>2
  <1>4. TagOf(r) \in Kinds \X (Objects \cup {"list"})
    <2>1. CASE r.many = TRUE
      <3>1. <<r.kind, "list">> \in Kinds \X (Objects \cup {"list"})
        BY <1>1
      <3> QED BY <1>2, <2>1, <3>1, Zenon
    <2>2. CASE r.many # TRUE
      <3>1. r.many = FALSE
        BY <2>2, ReadForms
      <3>2. Target(r) \in Objects
        BY <1>1, <3>1, ReadForms, ObjectsOfKind
      <3>3. <<r.kind, Target(r)>> \in Kinds \X (Objects \cup {"list"})
        BY <1>1, <3>2
      <3> QED BY <1>3, <3>1, <3>3, Zenon
    <2> QED BY <2>1, <2>2
  <1> QED BY <1>2, <1>3, <1>4, CafeAssumption DEF NoTag

\* A read of one object depends on its row and on its cafe's, and on no other.
LEMMA AnswerLocal ==
    ASSUME NEW r \in Reads, r.many = FALSE, NEW old, NEW new,
           new[Target(r)] = old[Target(r)], new[r.cafe] = old[r.cafe],
           r.kind = "cafe" => old[r.cafe].cafe = r.cafe
    PROVE  Answer(new, r) = Answer(old, r)
  <1> DEFINE role == RoleOf[r.me]
  <1>1. \A o : o = Target(r) \/ o = r.cafe => (Visible(new, o, role) <=> Visible(old, o, role))
    BY Zenon DEF Visible
  <1>2. CASE r.kind = "cafe"
    <2>1. \A db : Found(db, r) = {o \in {r.cafe} : Visible(db, o, role)}
      BY <1>2 DEF Found
    <2>2. Found(new, r) = Found(old, r)
      BY <1>1, <2>1
    <2>3. \A o \in Found(old, r) : Shown(new, o) = Shown(old, o)
      BY <1>2, <2>1 DEF Shown, Target
    <2> QED BY <2>2, <2>3 DEF Answer
  <1>3. CASE r.kind # "cafe"
    <2>1. \A db : Found(db, r) = {o \in {r.obj} : /\ Visible(db, r.cafe, role)
                                                  /\ Visible(db, o, role)
                                                  /\ db[o].cafe = r.cafe}
      BY <1>3 DEF Found
    <2>2. Found(new, r) = Found(old, r)
      BY <1>1, <1>3, <2>1 DEF Target
    <2>3. \A o \in Found(old, r) : Shown(new, o) = Shown(old, o)
      BY <1>3, <2>1 DEF Shown, Target
    <2> QED BY <2>2, <2>3 DEF Answer
  <1> QED BY <1>2, <1>3

\* An answer that is not empty is about objects that exist.
LEMMA FoundExists ==
    ASSUME NEW r \in Reads, r.many = FALSE, Answer(rows, r) # {}
    PROVE  Exists(Target(r)) /\ Exists(r.cafe)
  <1>1. PICK o \in Found(rows, r) : TRUE
    BY DEF Answer
  <1>2. CASE r.kind = "cafe"
    BY <1>1, <1>2 DEF Found, Visible, Exists, Target
  <1>3. CASE r.kind # "cafe"
    BY <1>1, <1>3 DEF Found, Visible, Exists, Target
  <1> QED BY <1>2, <1>3

\* A write is out of reach of the services' invalidation, or they delete the tag of
\* the read; of a read of one object, if the write changes its row or its cafe's.
LEMMA ListReached ==
    ASSUME NEW r \in Reads, r.many = TRUE, NEW w, w.kind \in Kinds, w.create \in BOOLEAN
    PROVE  Unreached(r, w) \/ CleanTag(w) = TagOf(r)
  <1>1. CASE w.create = FALSE \/ w.kind # r.kind \/ w.kind = "table"
    BY <1>1 DEF Unreached
  <1>2. CASE w.create = TRUE /\ w.kind = r.kind /\ w.kind # "table"
    BY <1>2, TagOfRead DEF CleanTag
  <1> QED BY <1>1, <1>2

LEMMA SingleReached ==
    ASSUME NEW r \in Reads, r.many = FALSE, NEW w, w.kind \in Kinds, w.create = FALSE,
           w.obj \in OfKind(w.kind), w.obj \in {Target(r), r.cafe}
    PROVE  Unreached(r, w) \/ CleanTag(w) = TagOf(r)
  <1>1. r.kind \in Kinds /\ r.cafe \in Cafes /\ Target(r) \in OfKind(r.kind)
    BY ReadForms
  <1>2. CASE w.kind = "cafe" /\ r.kind # "cafe"
    BY <1>2 DEF Unreached
  <1>3. CASE w.kind # "cafe" \/ r.kind = "cafe"
    <2>1. w.obj = Target(r) /\ w.kind = r.kind
      BY <1>1, <1>3, CafeAssumption DEF Kinds, OfKind, Target
    <2> QED BY <2>1, TagOfRead DEF CleanTag
  <1> QED BY <1>2, <1>3

\* The object of a POST is nobody else's until it is there; a cafe is its own cafe.
Fresh(h) ==
    pc[h] \in InFlight /\ req[h].create = TRUE =>
        /\ ~Exists(req[h].obj)
        /\ \A g \in Handlers : g # h /\ pc[g] \in InFlight => req[g].obj # req[h].obj
OwnCafe(h) == pc[h] \in InFlight /\ req[h].kind = "cafe" => req[h].obj = req[h].cafe

WriteInv ==
    /\ TypeInv
    /\ \A c \in Cafes : Exists(c) => rows[c].cafe = c
    /\ requests = 0 => \A h \in Handlers : pc[h] = "idle"
    /\ \A h \in Handlers : Fresh(h) /\ OwnCafe(h)

LEMMA WriteInit == Init => WriteInv
  BY TypeInit, CafeAssumption DEF Init, WriteInv, Fresh, OwnCafe, InFlight, Exists

LEMMA WriteBegin == ASSUME WriteInv, NEW h \in Handlers, Begin(h) PROVE WriteInv'
  <1>1. TypeInv /\ TypeInv'
    BY TypeBegin DEF WriteInv
  <1>2. PICK w : Asks(w) /\ Serve(h, w)
    BY BeginAsks
  <1>3. /\ pc' = [pc EXCEPT ![h] = IF w.kind = "table" THEN "write" ELSE "check"]
        /\ req' = [req EXCEPT ![h] = w] /\ rows' = rows /\ requests' = requests + 1
    BY <1>2 DEF Serve, Begin
  <1>4. requests' # 0
    BY <1>1, <1>3, CafeAssumption DEF TypeInv, TypeOK
  <1>5. w.create = FALSE => Exists(w.obj)
    BY <1>2 DEF Asks, Permitted
  <1>6. w.create = TRUE => Unused(w.obj)
    BY <1>2 DEF Asks, Permitted
  <1>7. w.create \in BOOLEAN /\ (w.kind = "cafe" => w.obj = w.cafe)
    BY <1>2 DEF Asks, Write
  <1>8. ASSUME NEW g \in Handlers PROVE Fresh(g)' /\ OwnCafe(g)'
    <2>1. req'[h] = w /\ \A k \in Handlers : k # h => req'[k] = req[k] /\ pc'[k] = pc[k]
      BY <1>1, <1>3 DEF TypeInv, TypeOK
    <2>2. CASE g = h
      <3>1. Fresh(h)'
        BY <1>3, <1>6, <2>1 DEF Fresh, Unused, Exists, InFlight
      <3> QED BY <1>7, <2>1, <2>2, <3>1 DEF OwnCafe
    <2>3. CASE g # h
      <3>1. ASSUME pc[g] \in InFlight, req[g].create = TRUE PROVE w.obj # req[g].obj
        <4>1. CASE w.create = FALSE
          BY <1>5, <3>1, <4>1 DEF WriteInv, Fresh
        <4>2. CASE w.create = TRUE
          BY <1>6, <3>1, <4>2 DEF Unused, InFlight
        <4> QED BY <1>7, <4>1, <4>2
      <3>2. Fresh(g)'
        <4>1. SUFFICES ASSUME pc[g] \in InFlight, req[g].create = TRUE
                       PROVE  /\ rows[req[g].obj] = None
                              /\ \A k \in Handlers : k # g /\ pc'[k] \in InFlight => req'[k].obj # req[g].obj
          BY <1>3, <2>1, <2>3 DEF Fresh, Exists
        <4>2. rows[req[g].obj] = None /\ \A k \in Handlers : k # g /\ pc[k] \in InFlight => req[k].obj # req[g].obj
          BY <4>1 DEF WriteInv, Fresh, Exists
        <4>3. w.obj # req[g].obj
          BY <3>1, <4>1
        <4> QED BY <2>1, <4>2, <4>3
      <3> QED BY <2>1, <2>3, <3>2 DEF OwnCafe, WriteInv
    <2> QED BY <2>2, <2>3
  <1> QED BY <1>1, <1>3, <1>4, <1>8 DEF WriteInv, Exists

LEMMA WriteGoesOn ==
    ASSUME WriteInv, NEW h \in Handlers, Check(h) \/ Clean(h) \/ Refused(h)
    PROVE  WriteInv'
  <1>1. TypeInv'
    BY TypeCheck, TypeClean, TypeRefused DEF WriteInv
  <1>2. UNCHANGED <<rows, req, requests>> /\ pc[h] # "idle"
    BY DEF Check, Clean, Refused
  <1>3. \A g \in Handlers : pc'[g] \in InFlight => pc[g] \in InFlight
    BY DEF Check, Clean, Refused, InFlight, WriteInv, TypeInv, TypeOK
  <1> QED BY <1>1, <1>2, <1>3 DEF WriteInv, Fresh, OwnCafe, Exists

LEMMA WriteCommit == ASSUME WriteInv, NEW h \in Handlers, Commit(h) PROVE WriteInv'
  <1>1. TypeInv /\ TypeInv'
    BY TypeCommit DEF WriteInv
  <1>2. /\ pc[h] = "write" /\ rows' = [rows EXCEPT ![req[h].obj] = NewRow(h)]
        /\ pc' = [pc EXCEPT ![h] = IF req[h].kind = "table" THEN "cleanAfter" ELSE "idle"]
        /\ UNCHANGED <<req, requests>>
    BY DEF Commit
  <1>3. req[h].obj \in Objects /\ req[h].obj \in OfKind(req[h].kind) /\ req[h].create \in BOOLEAN
        /\ req[h].kind \in Kinds
    BY <1>1, <1>2, NewRowType DEF TypeInv, Ready, InFlight, Write
  <1>4. rows'[req[h].obj] = NewRow(h) /\ \A o \in Objects : o # req[h].obj => rows'[o] = rows[o]
    BY <1>1, <1>2, <1>3 DEF TypeInv, TypeOK
  <1>5. ASSUME NEW c \in Cafes, Exists(c)' PROVE rows'[c].cafe = c
    <2>1. CASE c = req[h].obj
      <3>1. req[h].kind = "cafe"
        BY <1>3, <2>1, CafeAssumption DEF OfKind, Kinds
      <3>2. req[h].cafe = c
        BY <1>2, <2>1, <3>1 DEF WriteInv, OwnCafe, InFlight
      <3>3. CASE req[h].create = TRUE
        <4>1. NewRow(h).cafe = c
          BY <1>1, <1>2, <3>2, <3>3, NewRowType
        <4> QED BY <1>4, <2>1, <4>1
      <3>4. CASE req[h].create = FALSE
        <4>1. rows[c] \in Row
          BY <1>1, <1>2, <2>1, <3>4 DEF TypeInv, Ready, InFlight
        <4>2. rows[c].cafe = c
          BY <4>1, CafeAssumption DEF WriteInv, Exists
        <4>3. NewRow(h).cafe = c
          BY <1>1, <1>2, <2>1, <3>4, <4>2, NewRowType
        <4> QED BY <1>4, <2>1, <4>3
      <3> QED BY <1>3, <3>3, <3>4
    <2>2. CASE c # req[h].obj
      BY <1>4, <1>5, <2>2 DEF WriteInv, Exists, Objects
    <2> QED BY <2>1, <2>2
  <1>6. ASSUME NEW g \in Handlers PROVE Fresh(g)' /\ OwnCafe(g)'
    <2>1. \A k \in Handlers : pc'[k] \in InFlight => pc[k] \in InFlight /\ k # h
      BY <1>1, <1>2 DEF InFlight, TypeInv, TypeOK
    <2>2. pc[g] \in InFlight => req[g].obj \in Objects
      BY <1>1 DEF TypeInv, Ready, Write, InFlight
    <2>3. Fresh(g)'
      BY <1>2, <1>4, <2>1, <2>2 DEF WriteInv, Fresh, Exists, InFlight
    <2> QED BY <1>2, <2>1, <2>3 DEF WriteInv, OwnCafe
  <1>7. requests # 0
    BY <1>2 DEF WriteInv
  <1> QED BY <1>1, <1>2, <1>5, <1>6, <1>7 DEF WriteInv

LEMMA WriteCache == ASSUME WriteInv, CacheStep PROVE WriteInv'
  BY CacheStepFrame, TypeCache DEF WriteInv, Fresh, OwnCafe, Exists

\* What is cached: an answer about objects that exist, or one whose objects are not
\* written here.
Cached ==
    entry # None =>
        /\ entry.req \in Reads /\ entry.req.many = FALSE => Exists(Target(entry.req)) /\ Exists(entry.req.cafe)
        /\ entry.req \notin Reads => entry.missed = {} /\ \A h \in Handlers : pc[h] = "idle"

\* A service that cleans before it writes has cleaned since the entry was filled.
Cleaned(h) ==
    /\ entry # None /\ pc[h] = "write" /\ req[h].kind # "table"
    /\ h \notin entry.during /\ CleanTag(req[h]) = TagOf(entry.req)
    => CleanTag(req[h]) \in pending

\* What an entry has missed and the services' invalidation reaches, has its tag.
Excused(w) == Unreached(entry.req, w) \/ w.late
MissedTag == entry # None => \A w \in entry.missed : Excused(w) \/ CleanTag(w) = TagOf(entry.req)

\* StaleHasCause, for one write.
Going(h, w) == pc[h] \in {"clean", "cleanAfter"} /\ CleanTag(req[h]) = CleanTag(w)
Caused(w) == Excused(w) \/ CleanTag(w) \in pending \/ \E h \in Handlers : Going(h, w)
AllCaused == entry # None => \A w \in entry.missed : Caused(w)

StaleInv == WriteInv /\ Cached /\ (\A h \in Handlers : Cleaned(h)) /\ MissedTag /\ AllCaused

LEMMA AllCausedMeans == AllCaused => StaleHasCause
  <1> SUFFICES ASSUME AllCaused, entry # None, NEW w \in entry.missed
               PROVE  \/ Unreached(entry.req, w)
                      \/ w.late
                      \/ CleanTag(w) \in pending
                      \/ \E h \in Handlers : pc[h] \in {"clean", "cleanAfter"} /\ CleanTag(req[h]) = CleanTag(w)
    BY DEF StaleHasCause
  <1>1. Caused(w)
    BY DEF AllCaused
  <1> QED BY <1>1, Zenon DEF Caused, Excused, Going

LEMMA StaleInit == Init => StaleInv
  BY WriteInit DEF Init, StaleInv, Cached, Cleaned, MissedTag, AllCaused

LEMMA StaleBegin == ASSUME StaleInv, NEW h \in Handlers, Begin(h) PROVE StaleInv'
  <1>1. PICK w : Asks(w) /\ Serve(h, w)
    BY BeginAsks
  <1>2. /\ UNCHANGED <<rows, entry, pending>> /\ pc[h] = "idle" /\ (entry # None => entry.req \in Reads)
        /\ \A g \in Handlers : g # h => pc'[g] = pc[g] /\ req'[g] = req[g]
        /\ pc'[h] = "write" => req'[h].kind = "table"
    BY <1>1 DEF Begin, Serve, StaleInv, WriteInv, TypeInv, TypeOK
  <1>3. WriteInv'
    BY WriteBegin DEF StaleInv
  <1>4. Cached'
    BY <1>2 DEF StaleInv, Cached, Exists
  <1>5. ASSUME NEW g \in Handlers PROVE Cleaned(g)'
    BY <1>2 DEF StaleInv, Cleaned
  <1>6. MissedTag'
    BY <1>2 DEF StaleInv, MissedTag, Excused
  <1>7. \A g \in Handlers : \A m : Going(g, m) => Going(g, m)'
    BY <1>2 DEF Going
  <1>8. AllCaused'
    BY <1>2, <1>7 DEF StaleInv, AllCaused, Caused, Excused
  <1> QED BY <1>3, <1>4, <1>5, <1>6, <1>8 DEF StaleInv

LEMMA StaleCheck == ASSUME StaleInv, NEW h \in Handlers, Check(h) \/ Refused(h) PROVE StaleInv'
  <1>1. /\ UNCHANGED <<rows, req, entry, pending>> /\ pc[h] \in {"check", "write"}
        /\ \A g \in Handlers : pc'[g] = pc[g] \/ (g = h /\ pc'[g] \in {"clean", "idle"})
    BY DEF Check, Refused, StaleInv, WriteInv, TypeInv, TypeOK
  <1>2. WriteInv'
    BY WriteGoesOn DEF StaleInv
  <1>3. Cached'
    BY <1>1 DEF StaleInv, Cached, Exists
  <1>4. ASSUME NEW g \in Handlers PROVE Cleaned(g)'
    BY <1>1 DEF StaleInv, Cleaned
  <1>5. MissedTag'
    BY <1>1 DEF StaleInv, MissedTag, Excused
  <1>6. \A g \in Handlers : \A m : Going(g, m) => Going(g, m)'
    BY <1>1 DEF Going
  <1>7. AllCaused'
    BY <1>1, <1>6 DEF StaleInv, AllCaused, Caused, Excused
  <1> QED BY <1>2, <1>3, <1>4, <1>5, <1>7 DEF StaleInv

LEMMA StaleClean == ASSUME StaleInv, NEW h \in Handlers, Clean(h) PROVE StaleInv'
  <1>1. /\ UNCHANGED <<rows, req, entry>> /\ pc[h] \in {"clean", "cleanAfter"}
        /\ pending' = pending \cup ({CleanTag(req[h])} \ {NoTag})
        /\ \A g \in Handlers : g # h => pc'[g] = pc[g]
        /\ pc'[h] \in {"write", "idle"}
    BY DEF Clean, StaleInv, WriteInv, TypeInv, TypeOK
  <1>2. WriteInv'
    BY WriteGoesOn DEF StaleInv
  <1>3. Cached'
    BY <1>1 DEF StaleInv, Cached, Exists
  <1>4. entry # None => entry.req \in Reads /\ TagOf(entry.req) # NoTag
    BY <1>1, TagOfRead DEF StaleInv, Cached
  <1>5. ASSUME NEW g \in Handlers PROVE Cleaned(g)'
    <2>1. CASE g = h
      BY <1>1, <1>4, <2>1 DEF Cleaned
    <2>2. CASE g # h
      BY <1>1, <2>2 DEF StaleInv, Cleaned
    <2> QED BY <2>1, <2>2
  <1>6. MissedTag'
    BY <1>1 DEF StaleInv, MissedTag, Excused
  <1>7. AllCaused'
    <2> SUFFICES ASSUME entry # None, NEW m \in entry.missed PROVE Caused(m)'
      BY <1>1 DEF AllCaused
    <2>1. Caused(m) /\ (Excused(m) \/ CleanTag(m) # NoTag)
      BY <1>4 DEF StaleInv, AllCaused, MissedTag
    <2>2. CASE Excused(m)
      BY <1>1, <2>2 DEF Caused, Excused
    <2>3. CASE CleanTag(m) \in pending
      BY <1>1, <2>3 DEF Caused
    <2>4. CASE CleanTag(m) # NoTag /\ \E g \in Handlers : Going(g, m)
      <3>1. PICK g \in Handlers : Going(g, m)
        BY <2>4
      <3>2. CASE g = h
        BY <1>1, <2>4, <3>1, <3>2 DEF Caused, Going
      <3>3. CASE g # h
        <4>1. Going(g, m)'
          BY <1>1, <3>1, <3>3 DEF Going
        <4> QED BY <4>1 DEF Caused
      <3> QED BY <3>2, <3>3
    <2> QED BY <2>1, <2>2, <2>3, <2>4 DEF Caused
  <1> QED BY <1>2, <1>3, <1>5, <1>6, <1>7 DEF StaleInv

\* The write of this handler, as an entry remembers it.
MissedBy(h) == [kind |-> req[h].kind, create |-> req[h].create, obj |-> req[h].obj,
                late |-> h \in entry.during]

LEMMA OutdatedForms ==
    ASSUME NEW h \in Handlers, NEW db, entry \in Entry
    PROVE  \/ Outdated(h, db) = entry
           \/ /\ Answer(rows, entry.req) # Answer(db, entry.req)
              /\ Outdated(h, db) # None => /\ Outdated(h, db).req = entry.req
                                           /\ Outdated(h, db).during = entry.during
                                           /\ Outdated(h, db).missed = entry.missed \cup {MissedBy(h)}
  <1>1. CASE Answer(rows, entry.req) = Answer(db, entry.req)
    BY <1>1 DEF Outdated
  <1>2. CASE Answer(rows, entry.req) # Answer(db, entry.req) /\ entry # None
    <2>1. Outdated(h, db) = [entry EXCEPT !.missed = @ \cup {MissedBy(h)}]
      BY <1>2 DEF Outdated, MissedBy
    <2> QED BY <1>2, <2>1 DEF Entry
  <1>3. CASE entry = None
    BY <1>3 DEF Outdated
  <1> QED BY <1>1, <1>2, <1>3

\* A commit that changes a cached answer is out of reach, or its service cleans the
\* answer's tag.
LEMMA CommitReached ==
    ASSUME StaleInv, NEW h \in Handlers, Commit(h), entry # None,
           Answer(rows, entry.req) # Answer(rows', entry.req)
    PROVE  Unreached(entry.req, MissedBy(h)) \/ CleanTag(MissedBy(h)) = TagOf(entry.req)
  <1> DEFINE r == entry.req  w == MissedBy(h)
  <1>1. TypeInv /\ pc[h] = "write"
    BY DEF StaleInv, WriteInv, Commit
  <1>2. r \in Reads
    BY <1>1 DEF StaleInv, Cached
  <1>3. /\ req[h].kind \in Kinds /\ req[h].create \in BOOLEAN /\ req[h].obj \in Objects
        /\ req[h].obj \in OfKind(req[h].kind)
    BY <1>1, NewRowType DEF TypeInv, Ready, Write, InFlight
  <1>4. w.kind = req[h].kind /\ w.create = req[h].create /\ w.obj = req[h].obj
    BY DEF MissedBy
  <1>5. CASE r.many = TRUE
    BY <1>2, <1>3, <1>4, <1>5, ListReached
  <1>6. CASE r.many = FALSE
    <2>1. Exists(Target(r)) /\ Exists(r.cafe)
      BY <1>2, <1>6 DEF StaleInv, Cached
    <2>2. r.cafe \in Cafes /\ Target(r) \in Objects
      BY <1>2, <1>6, ReadForms, ObjectsOfKind
    <2>3. req[h].obj \in {Target(r), r.cafe}
      <3> SUFFICES ASSUME req[h].obj \notin {Target(r), r.cafe} PROVE FALSE
        OBVIOUS
      <3>1. \A o \in Objects : o # req[h].obj => rows'[o] = rows[o]
        BY <1>1, <1>3 DEF Commit, TypeInv, TypeOK
      <3>2. rows'[Target(r)] = rows[Target(r)] /\ rows'[r.cafe] = rows[r.cafe]
        BY <2>2, <3>1 DEF Objects
      <3>3. rows[r.cafe].cafe = r.cafe
        BY <2>1, <2>2 DEF StaleInv, WriteInv
      <3> QED BY <1>2, <1>6, <3>2, <3>3, AnswerLocal
    <2>4. req[h].create = FALSE
      <3>1. Exists(req[h].obj)
        BY <2>1, <2>3
      <3> QED BY <1>1, <1>3, <3>1 DEF StaleInv, WriteInv, Fresh, InFlight
    <2> QED BY <1>2, <1>3, <1>4, <1>6, <2>3, <2>4, SingleReached
  <1> QED BY <1>2, <1>5, <1>6, ReadForms

LEMMA StaleCommit == ASSUME StaleInv, NEW h \in Handlers, Commit(h) PROVE StaleInv'
  <1>1. TypeInv /\ WriteInv'
    BY WriteCommit DEF StaleInv, WriteInv
  <1>2. /\ pc[h] = "write" /\ UNCHANGED <<req, pending>> /\ entry' = Outdated(h, rows')
        /\ \A g \in Handlers : g # h => pc'[g] = pc[g]
        /\ pc'[h] = IF req[h].kind = "table" THEN "cleanAfter" ELSE "idle"
    BY <1>1 DEF Commit, TypeInv, TypeOK
  <1>3. CASE entry = None
    <2>1. entry' = None
      BY <1>2, <1>3 DEF Outdated
    <2> QED BY <1>1, <2>1 DEF StaleInv, Cached, Cleaned, MissedTag, AllCaused
  <1>4. CASE entry \in Entry /\ entry # None
    <2>1. entry.req \in Reads
      BY <1>2, <1>4 DEF StaleInv, Cached
    <2> DEFINE same == entry'.req = entry.req /\ entry'.during = entry.during
               w == MissedBy(h)
               Reached == Unreached(entry.req, w) \/ CleanTag(w) = TagOf(entry.req)
    <2>2. entry' # None => same /\ (entry'.missed = entry.missed \/ (entry'.missed = entry.missed \cup {w} /\ Reached))
      BY <1>2, <1>4, OutdatedForms, CommitReached
    <2>3. \A o \in Objects : Exists(o) => Exists(o)'
      <3>1. NewRow(h) # None
        BY <1>1, <1>2, NewRowType, CafeAssumption
      <3> QED BY <1>1, <1>2, <3>1, NewRowType DEF Commit, TypeInv, TypeOK, Exists
    <2>4. Cached'
      <3>1. entry.req.many = FALSE => Target(entry.req) \in Objects /\ entry.req.cafe \in Objects
        BY <2>1, ReadForms, ObjectsOfKind DEF Objects
      <3> QED BY <1>4, <2>1, <2>2, <2>3, <3>1 DEF StaleInv, Cached
    <2>5. ASSUME NEW g \in Handlers PROVE Cleaned(g)'
      <3>1. pc'[g] = "write" => pc[g] = "write"
        BY <1>2
      <3> QED BY <1>2, <1>4, <2>2, <3>1 DEF StaleInv, Cleaned
    <2>6. Reached => Excused(w) \/ CleanTag(w) = TagOf(entry.req)
      BY DEF Excused
    <2>7. MissedTag'
      <3> SUFFICES ASSUME entry' # None, NEW m \in entry'.missed
                   PROVE  Excused(m)' \/ CleanTag(m) = TagOf(entry'.req)
        BY DEF MissedTag
      <3>1. Excused(m) \/ CleanTag(m) = TagOf(entry.req)
        BY <1>4, <2>2, <2>6 DEF StaleInv, MissedTag
      <3> QED BY <2>2, <3>1 DEF Excused
    <2>8. AllCaused'
      <3> SUFFICES ASSUME entry' # None, NEW m \in entry'.missed PROVE Caused(m)'
        BY DEF AllCaused
      <3>1. CASE m \in entry.missed
        <4>1. Caused(m)
          BY <1>4, <3>1 DEF StaleInv, AllCaused
        <4>2. \A g \in Handlers : Going(g, m) => Going(g, m)'
          BY <1>2 DEF Going
        <4> QED BY <1>2, <2>2, <4>1, <4>2 DEF Caused, Excused
      <3>2. CASE m = w /\ Reached
        <4>1. CASE Unreached(entry.req, w) \/ h \in entry.during
          <5>1. Excused(w)
            BY <4>1, Zenon DEF Excused, MissedBy
          <5> QED BY <2>2, <3>2, <5>1 DEF Caused, Excused
        <4>2. CASE CleanTag(w) = TagOf(entry.req) /\ h \notin entry.during
          <5>1. CleanTag(w) = CleanTag(req[h])
            BY DEF CleanTag, MissedBy
          <5>2. CASE req[h].kind = "table"
            <6>1. Going(h, m)'
              BY <1>2, <3>2, <5>1, <5>2 DEF Going
            <6> QED BY <6>1 DEF Caused
          <5>3. CASE req[h].kind # "table"
            <6>1. CleanTag(m) \in pending
              BY <1>2, <1>4, <3>2, <4>2, <5>1, <5>3 DEF StaleInv, Cleaned
            <6> QED BY <1>2, <6>1 DEF Caused
          <5> QED BY <5>2, <5>3
        <4> QED BY <3>2, <4>1, <4>2
      <3> QED BY <2>2, <3>1, <3>2
    <2> QED BY <1>1, <2>4, <2>5, <2>7, <2>8 DEF StaleInv
  <1> QED BY <1>1, <1>3, <1>4 DEF TypeInv, TypeOK, Optional

LEMMA StaleCache == ASSUME StaleInv, CacheStep PROVE StaleInv'
  <1>1. WriteInv' /\ UNCHANGED <<rows, pc, req>>
    BY WriteCache, CacheStepFrame DEF StaleInv
  <1>2. CASE entry' = None
    BY <1>1, <1>2 DEF StaleInv, Cached, Cleaned, MissedTag, AllCaused
  <1>3. CASE \E r \in Reads : Fill(r)
    <2>1. PICK r \in Reads : Fill(r)
      BY <1>3
    <2> DEFINE during == {h \in Handlers : pc[h] = "write" /\ req[h].kind # "table"}
    <2>2. entry' = [req |-> r, missed |-> {}, during |-> during] /\ Answer(rows, r) # {}
      BY <2>1 DEF Fill
    <2>3. \A h \in Handlers : pc'[h] = "write" /\ req'[h].kind # "table" => h \in during
      BY <1>1
    <2> HIDE DEF during
    <2>4. entry'.req = r /\ entry'.missed = {} /\ entry'.during = during
      BY <2>2
    <2>5. Cached'
      BY <1>1, <2>2, <2>4, FoundExists DEF Cached, Exists
    <2> QED BY <1>1, <2>3, <2>4, <2>5 DEF StaleInv, Cleaned, MissedTag, AllCaused
  <1>4. CASE \E r \in Requests : FillOther(r)
    <2>1. PICK r \in Requests : FillOther(r)
      BY <1>4
    <2>2. entry'.req = r /\ entry'.missed = {} /\ r \notin Reads /\ requests = 0
      BY <2>1 DEF FillOther
    <2>3. \A h \in Handlers : pc'[h] = "idle"
      BY <1>1, <2>2 DEF StaleInv, WriteInv
    <2> QED BY <1>1, <2>2, <2>3 DEF StaleInv, Cached, Cleaned, MissedTag, AllCaused
  <1>5. CASE \E tag \in pending : Invalidate(tag) /\ entry' # None
    <2>1. PICK tag \in pending : Invalidate(tag) /\ entry' # None
      BY <1>5
    <2>2. entry' = entry /\ entry # None /\ TagOf(entry.req) # tag /\ pending' = pending \ {tag}
      BY <2>1 DEF Invalidate
    <2>3. Cached' /\ \A h \in Handlers : Cleaned(h)'
      BY <1>1, <2>2 DEF StaleInv, Cached, Cleaned, Exists
    <2>4. MissedTag'
      BY <2>2 DEF StaleInv, MissedTag, Excused
    <2>5. AllCaused'
      <3> SUFFICES ASSUME NEW m \in entry.missed PROVE Caused(m)'
        BY <2>2 DEF AllCaused
      <3>1. Caused(m) /\ (Excused(m) \/ CleanTag(m) # tag)
        BY <2>2 DEF StaleInv, AllCaused, MissedTag
      <3>2. (Excused(m) => Excused(m)') /\ \A h \in Handlers : Going(h, m) => Going(h, m)'
        BY <1>1, <2>2 DEF Excused, Going
      <3> QED BY <2>2, <3>1, <3>2 DEF Caused
    <2> QED BY <1>1, <2>3, <2>4, <2>5 DEF StaleInv
  <1> QED BY <1>2, <1>3, <1>4, <1>5 DEF CacheStep, Expire

LEMMA StaleStep == ASSUME StaleInv, [Next]_vars PROVE StaleInv'
  <1>1. CASE \E h \in Handlers : Begin(h) \/ Check(h) \/ Clean(h) \/ Commit(h) \/ Refused(h)
    BY <1>1, StaleBegin, StaleCheck, StaleClean, StaleCommit
  <1>2. CASE CacheStep
    BY <1>2, StaleCache
  <1>3. CASE UNCHANGED vars
    <2>1. TypeInv'
      BY <1>3, TypeStep DEF StaleInv, WriteInv
    <2> QED BY <1>3, <2>1 DEF vars, StaleInv, WriteInv, Fresh, OwnCafe, Exists, Cached, Cleaned,
                              MissedTag, AllCaused, Caused, Excused, Going
  <1> QED BY <1>1, <1>2, <1>3 DEF Next, CacheStep

\* clean_cache: a cached answer that has missed a write will be deleted, or the
\* services never invalidate it for such a write, or it was filled between their
\* invalidation and their write.
THEOREM StaleExplained == Spec => []StaleHasCause
  <1>1. StaleInv => StaleHasCause
    BY AllCausedMeans DEF StaleInv
  <1> QED BY <1>1, StaleInit, StaleStep, PTL DEF Spec
=============================================================================
