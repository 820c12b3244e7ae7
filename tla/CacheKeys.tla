----------------------------- MODULE CacheKeys -----------------------------
(***************************************************************************)
(* The keys and tags of the cached GET endpoints (cache/cache_key.py,      *)
(* core/cache_conf.py and the swr_cache decorators of api/endpoints), and  *)
(* the queries their handlers make.                                        *)
(*                                                                         *)
(* A key is the record of the fields its endpoint names; a field whose     *)
(* value is None is left out of the string, here it has the value None.    *)
(* Values hold no colon (identifiers, roles, booleans), so two strings are *)
(* equal exactly when the records are.                                     *)
(***************************************************************************)
CONSTANTS
    Users, Cafes, Slots, Tables, Bookings,  \* identifiers
    RoleOf,     \* the role of each user
    None        \* an argument that is not given, an absent row or entry

Roles == {"USER", "MANAGER", "ADMIN"}

ASSUME KeysAssumption ==
    /\ RoleOf \in [Users -> Roles]
    /\ None \notin Users \cup Cafes \cup Slots \cup Tables \cup Bookings
    /\ None \notin BOOLEAN /\ None \notin Roles

Optional(S) == {None} \cup S

(***************************************************************************)
(* The requests.  One record serves all endpoints: what an endpoint does   *)
(* not take is None.                                                       *)
(***************************************************************************)
Request == [kind : {"cafe", "slot", "table", "booking", "user"}, many : BOOLEAN, me : Users,
            cafe : Optional(Cafes), obj : Optional(Cafes \cup Slots \cup Tables \cup Bookings \cup Users),
            user : Optional(Users), active : Optional(BOOLEAN)]

Get(kind, many, me, cafe, obj, user, active) ==
    [kind |-> kind, many |-> many, me |-> me, cafe |-> cafe, obj |-> obj, user |-> user,
     active |-> active]

GetCafes(me, active)            == Get("cafe", TRUE, me, None, None, None, active)
GetCafe(me, c)                  == Get("cafe", FALSE, me, c, None, None, None)
GetObjects(kind, me, c, active) == Get(kind, TRUE, me, c, None, None, active)
GetObject(kind, me, c, o)       == Get(kind, FALSE, me, c, o, None, None)
GetBookings(me, c, user, active) == Get("booking", TRUE, me, c, None, user, active)
GetBooking(me, b)               == Get("booking", FALSE, me, None, b, None, None)
GetUsers(me)                    == Get("user", TRUE, me, None, None, None, None)
GetMe(me)                       == Get("user", FALSE, me, None, None, None, None)
GetUser(me, user)               == Get("user", FALSE, me, None, None, user, None)

CafeRequests    == {GetCafes(u, a) : u \in Users, a \in Optional(BOOLEAN)}
                   \cup {GetCafe(u, c) : u \in Users, c \in Cafes}
SlotRequests    == {GetObjects("slot", u, c, a) : u \in Users, c \in Cafes, a \in Optional(BOOLEAN)}
                   \cup {GetObject("slot", u, c, o) : u \in Users, c \in Cafes, o \in Slots}
TableRequests   == {GetObjects("table", u, c, a) : u \in Users, c \in Cafes, a \in Optional(BOOLEAN)}
                   \cup {GetObject("table", u, c, o) : u \in Users, c \in Cafes, o \in Tables}
BookingRequests == {GetBookings(u, c, v, a) : u \in Users, c \in Optional(Cafes),
                                              v \in Optional(Users), a \in Optional(BOOLEAN)}
                   \cup {GetBooking(u, b) : u \in Users, b \in Bookings}
UserRequests    == {r \in {GetUsers(u) : u \in Users} \cup {GetUser(u, v) : u \in Users, v \in Users} :
                        RoleOf[r.me] # "USER"}
                   \cup {GetMe(u) : u \in Users}
Requests == CafeRequests \cup SlotRequests \cup TableRequests \cup BookingRequests \cup UserRequests

(***************************************************************************)
(* The keys.                                                               *)
(***************************************************************************)
Key(kind, user_role, cafe_id, obj_id, user_id, active) ==
    [prefix |-> kind, user_role |-> user_role, cafe_id |-> cafe_id, obj_id |-> obj_id,
     user_id |-> user_id, active |-> active]

\* `show_active or True`, which is True whatever the manager asks.
BookingsKey(r) ==
    CASE RoleOf[r.me] = "USER"    -> Key("booking", "USER", r.cafe, None, r.me, TRUE)
      [] RoleOf[r.me] = "MANAGER" -> Key("booking", "MANAGER", r.cafe, None, r.user, TRUE)
      [] OTHER                    -> Key("booking", "ADMIN", r.cafe, None, r.user, r.active)

\* The mistake of a key that leaves show_active out.
KeyWithoutActive(r) ==
    IF r.kind = "booking" /\ r.many THEN BookingsKey(r)
    ELSE Key(r.kind, RoleOf[r.me], r.cafe, r.obj, r.user, None)

KeyOf(r) ==
    CASE r.kind = "booking" /\ r.many  -> BookingsKey(r)
      [] r.kind = "booking" /\ ~r.many -> Key("booking", None, None, r.obj, r.me, None)
      [] r.kind = "user" /\ r.many     -> Key("user", RoleOf[r.me], None, None, None, None)
      [] r.kind = "user" /\ ~r.many /\ r.user = None -> Key("user", None, None, None, r.me, None)
      [] OTHER -> Key(r.kind, RoleOf[r.me], r.cafe, r.obj, r.user, r.active)

\* The tag of a key: the list's, or the one that names the object.
TagOf(r) == <<r.kind, CASE r.many                            -> "list"
                        [] r.kind = "cafe" /\ ~r.many        -> r.cafe
                        [] r.kind = "user" /\ ~r.many /\ r.user = None -> r.me
                        [] r.kind = "user" /\ ~r.many /\ r.user # None -> r.user
                        [] OTHER                             -> r.obj>>

(***************************************************************************)
(* The queries: everything the answer of a handler depends on, besides the *)
(* rows of the database.                                                   *)
(***************************************************************************)
\* get_all_by_role; None: rows of either status.
ActiveFilter(role, active) ==
    CASE role = "USER"    -> TRUE
      [] role = "MANAGER" -> IF active = None THEN TRUE ELSE active
      [] role = "ADMIN"   -> active

\* get_object_by_role_or_404.
OnlyActive(role) == role = "USER"

Query(r) ==
    LET role == RoleOf[r.me] IN
    CASE r.kind = "booking" /\ r.many ->
           [of |-> "bookings", cafe |-> r.cafe, user |-> IF role = "USER" THEN r.me ELSE r.user,
            active |-> ActiveFilter(role, r.active),
            manager |-> IF role = "MANAGER" /\ r.cafe # None THEN r.me ELSE None]
      [] r.kind = "booking" /\ ~r.many -> [of |-> "booking", obj |-> r.obj, me |-> r.me]
      [] r.kind = "user" /\ r.many     -> [of |-> "users"]
      [] r.kind = "user" /\ ~r.many    -> [of |-> "user", user |-> IF r.user = None THEN r.me ELSE r.user]
      [] OTHER ->
           [of |-> r.kind, many |-> r.many, cafe |-> r.cafe, obj |-> r.obj,
            onlyActive |-> OnlyActive(role),
            active |-> IF r.many THEN ActiveFilter(role, r.active) ELSE None]

\* Lists of bookings asked for by a manager: the key names neither the manager,
\* whose cafes check_manager_access_to_cafe looks at, nor show_active.
OfManager(r) == r.kind = "booking" /\ r.many /\ RoleOf[r.me] = "MANAGER"

\* Who finds the answer that r has left in the cache.
Sharing == [r \in Requests |-> {s \in Requests : KeyOf(s) = KeyOf(r)}]

\* Either request may be given the other's answer.
Exchangeable(r, s) ==
    \/ Query(r) = Query(s)
    \/ OfManager(r) /\ OfManager(s) /\ r.cafe = s.cafe /\ r.user = s.user
=============================================================================
