---------------------------- MODULE CafeObjects ----------------------------
(***************************************************************************)
(* Cafes with their slots and tables: the POST and PATCH handlers of       *)
(* api/endpoints/{cafe,slot,table}.py with their services, and what their  *)
(* invalidation does to the cached answers of the GET handlers.            *)
(*                                                                         *)
(* A row has two values x and y: the times of a slot, the name and the     *)
(* address (with the phone) of a cafe, the seats of a table (x alone).     *)
(* The cache is one entry, any of them, for entries do not interact: the   *)
(* commands behind a read and an invalidation are those of SwrCache, here  *)
(* a read and a deletion by tag are one step each.                         *)
(***************************************************************************)
EXTENDS CacheKeys, Integers

CONSTANTS
    Handlers,   \* bound: POSTs and PATCHes running at a time
    Values,     \* the values x and y take, integers (times compare)
    Stock,      \* the rows there are at the beginning
    Bodies,     \* bound: for each kind, the bodies that are sent
    MaxRequests \* bound: POSTs and PATCHes in all

Kinds   == {"cafe", "slot", "table"}
Objects == Cafes \cup Slots \cup Tables
Body    == [x : Optional(Values), y : Optional(Values), active : Optional(BOOLEAN)]
Row     == [cafe : Cafes, x : Values, y : Values, active : BOOLEAN]
Editors == {u \in Users : RoleOf[u] # "USER"}      \* AdminOrManagerDep
Write   == [kind : Kinds, create : BOOLEAN, cafe : Cafes, obj : Objects, body : Body]
Reads   == CafeRequests \cup SlotRequests \cup TableRequests

OfKind(kind) == CASE kind = "cafe" -> Cafes [] kind = "slot" -> Slots [] kind = "table" -> Tables

ASSUME CafeAssumption ==
    /\ Values \subseteq Int /\ MaxRequests \in Nat
    /\ Stock \in [Objects -> Optional(Row)]
    /\ \A o \in Objects : Stock[o] # None => Stock[Stock[o].cafe] # None
    /\ \A c \in Cafes : Stock[c] # None => Stock[c].cafe = c
    /\ \A s, t \in Slots : s # t /\ Stock[s] # None /\ Stock[t] # None =>
          <<Stock[s].cafe, Stock[s].x, Stock[s].y>> # <<Stock[t].cafe, Stock[t].x, Stock[t].y>>
    /\ Bodies \in [Kinds -> SUBSET Body]
    /\ Cafes \cap Slots = {} /\ Cafes \cap Tables = {} /\ Slots \cap Tables = {}
    /\ "list" \notin Objects
    /\ None \notin Row \cup (Kinds \X (Objects \cup {"list"}))

VARIABLES
    rows,       \* the tables cafes, slots and tables
    pc, req,    \* each handler: where it is, and the request it serves
    loaded,     \* the row an update has loaded
    overtaken,  \* history: another request has committed since this one began
    unsure,     \* history: the x and y of an object were written by an overtaken request
    entry,      \* the cached answer: its request and its history, see Fill
    pending,    \* tags whose deletion runs as a background task
    requests    \* requests begun

vars == <<rows, pc, req, loaded, overtaken, unsure, entry, pending, requests>>

Missed == [kind : Kinds, create : BOOLEAN, obj : Objects, late : BOOLEAN]
Entry  == [req : Requests, missed : SUBSET Missed, during : SUBSET Handlers]
Places == {"idle", "check", "clean", "write", "cleanAfter"}
Tags   == Kinds \X (Objects \cup {"list"})

Exists(o) == rows[o] # None

Init ==
    /\ rows = Stock
    /\ pc = [h \in Handlers |-> "idle"]
    /\ req = [h \in Handlers |-> None]
    /\ loaded = [h \in Handlers |-> None]
    /\ overtaken = [h \in Handlers |-> FALSE]
    /\ unsure = [o \in Objects |-> FALSE]
    /\ entry = None /\ pending = {} /\ requests = 0

(***************************************************************************)
(* Reading.                                                                *)
(***************************************************************************)
\* get_object_by_role_or_404, in the tables db.
Visible(db, o, role) == db[o] # None /\ (OnlyActive(role) => db[o].active)

\* The answer: the rows of the list, or the row; of a slot or a table also the
\* short form of its cafe.  Empty: an empty list or a 404, which are not cached.
Shown(db, o) == [id |-> o, row |-> db[o], cafe |-> <<db[db[o].cafe].x, db[db[o].cafe].y>>]
Matching(db, r) ==
    {o \in OfKind(r.kind) :
        /\ db[o] # None
        /\ r.kind # "cafe" => db[o].cafe = r.cafe
        /\ LET wanted == ActiveFilter(RoleOf[r.me], r.active)
           IN  wanted # None => db[o].active = wanted}
Found(db, r) ==
    LET Sees(o) == Visible(db, o, RoleOf[r.me]) IN
    CASE r.kind = "cafe" /\ r.many  -> Matching(db, r)
      [] r.kind = "cafe" /\ ~r.many -> {o \in {r.cafe} : Sees(o)}
      [] r.kind # "cafe" /\ r.many  -> {o \in Matching(db, r) : Sees(r.cafe)}
      [] r.kind # "cafe" /\ ~r.many -> {o \in {r.obj} : Sees(r.cafe) /\ Sees(o) /\ db[o].cafe = r.cafe}
Answer(db, r) == {Shown(db, o) : o \in Found(db, r)}

\* A read that finds nothing cached leaves its answer.  `missed` will hold the
\* writes that changed the answer since, `during` has the handlers that have
\* already cleaned the cache and not yet written.
Fill(r) ==
    /\ entry = None /\ Answer(rows, r) # {}
    /\ entry' = [req |-> r, missed |-> {}, during |-> {h \in Handlers : pc[h] = "write" /\ req[h].kind # "table"}]
    /\ UNCHANGED <<rows, pc, req, loaded, overtaken, unsure, pending, requests>>

\* Bookings and users are not written here: their answers are cached only at the
\* beginning, for what their keys are worth.
FillOther(r) ==
    /\ entry = None /\ requests = 0 /\ r \notin Reads
    /\ entry' = [req |-> r, missed |-> {}, during |-> {}]
    /\ UNCHANGED <<rows, pc, req, loaded, overtaken, unsure, pending, requests>>

Expire ==
    /\ entry # None /\ entry' = None
    /\ UNCHANGED <<rows, pc, req, loaded, overtaken, unsure, pending, requests>>

(***************************************************************************)
(* Invalidation.                                                           *)
(***************************************************************************)
NoTag == None

\* The mistake of a branch that invalidates the lists after an update.
CleanTagList(w) == <<w.kind, "list">>

\* clean_cache(new=True), clean_cache(<id>); TableService's returns before it
\* deletes anything when it is not given an id.
CleanTag(w) ==
    CASE ~w.create                        -> <<w.kind, w.obj>>
      [] w.create /\ w.kind # "table"     -> <<w.kind, "list">>
      [] w.create /\ w.kind = "table"     -> NoTag

\* delete_key_by_tag, in a task that delete_key_by_tag_background has started.
Invalidate(tag) ==
    /\ tag \in pending
    /\ pending' = pending \ {tag}
    /\ entry' = IF entry # None /\ TagOf(entry.req) = tag THEN None ELSE entry
    /\ UNCHANGED <<rows, pc, req, loaded, overtaken, unsure, requests>>

-----------------------------------------------------------------------------
(* Writing.                                                                *)

Merge(given, old) == IF given = None THEN old ELSE given

\* What the request wants the object to hold, from the row as it was loaded.
WantedX(h) == IF req[h].create THEN req[h].body.x ELSE Merge(req[h].body.x, loaded[h].x)
WantedY(h) == IF req[h].create THEN req[h].body.y ELSE Merge(req[h].body.y, loaded[h].y)

\* The schemas: a POST gives x and y and no is_active; the times of a slot must be
\* in order where both are given.
Valid(w) ==
    /\ w.create => w.body.x # None /\ w.body.y # None /\ w.body.active = None
    /\ w.kind = "slot" /\ w.body.x # None /\ w.body.y # None => w.body.x < w.body.y

\* The id of a new object is drawn by the model (uuid4), and seen by nobody yet.
Unused(o) == ~Exists(o) /\ \A h \in Handlers : pc[h] # "idle" => req[h].obj # o

\* get_object_by_role_or_404 of an editor's POST or PATCH, check_update_permission,
\* and check_object_belongs_to_cafe.
Permitted(w, me) ==
    IF w.create THEN /\ Unused(w.obj)
                     /\ w.kind # "cafe" => Exists(w.cafe)
    ELSE /\ Exists(w.cafe) /\ Exists(w.obj) /\ rows[w.obj].cafe = w.cafe
         /\ w.kind = "cafe" /\ w.body.active # None => RoleOf[me] = "ADMIN"

Serve(h, w) ==
    /\ req' = [req EXCEPT ![h] = w]
    /\ loaded' = [loaded EXCEPT ![h] = IF w.create THEN None ELSE rows[w.obj]]
    /\ pc' = [pc EXCEPT ![h] = IF w.kind = "table" THEN "write" ELSE "check"]
    /\ overtaken' = [overtaken EXCEPT ![h] = FALSE]

Begin(h) ==
    /\ pc[h] = "idle" /\ requests < MaxRequests
    /\ entry # None => entry.req \in Reads
    /\ \E kind \in Kinds, create \in BOOLEAN, c \in Cafes :
       \E o \in OfKind(kind), body \in Bodies[kind] :
          LET w == [kind |-> kind, create |-> create, cafe |-> c, obj |-> o, body |-> body]
          IN  /\ kind = "cafe" => o = c
              /\ Valid(w) /\ \E me \in Editors : Permitted(w, me)
              /\ Serve(h, w)
    /\ requests' = requests + 1
    /\ UNCHANGED <<rows, unsure, entry, pending>>

\* The mistake of a check that an update of one field escapes.
ClashesGiven(h) ==
    {o \in OfKind(req[h].kind) \ {req[h].obj} :
        /\ Exists(o) /\ req[h].body.x # None /\ req[h].body.y # None
        /\ rows[o].x = WantedX(h) /\ rows[o].y = WantedY(h)
        /\ req[h].kind = "slot" => rows[o].cafe = req[h].cafe}

\* get_slot_by_time and get_unique_cafe, with exclude_id.
Clashes(h) ==
    {o \in OfKind(req[h].kind) \ {req[h].obj} :
        /\ Exists(o) /\ rows[o].x = WantedX(h) /\ rows[o].y = WantedY(h)
        /\ req[h].kind = "slot" => rows[o].cafe = req[h].cafe}

\* check_unique_slot, check_unique_constraint: 400, or on.
Check(h) ==
    /\ pc[h] = "check"
    /\ pc' = [pc EXCEPT ![h] = IF Clashes(h) = {} THEN "clean" ELSE "idle"]
    /\ UNCHANGED <<rows, req, loaded, overtaken, unsure, entry, pending, requests>>

Clean(h) ==
    /\ pc[h] \in {"clean", "cleanAfter"}
    /\ pending' = pending \cup ({CleanTag(req[h])} \ {NoTag})
    /\ pc' = [pc EXCEPT ![h] = IF pc[h] = "clean" THEN "write" ELSE "idle"]
    /\ UNCHANGED <<rows, req, loaded, overtaken, unsure, entry, requests>>

\* The mistake of an update that sets the fields the body does not have.
ColumnUnset(given, old, now) == given

\* The UPDATE sets the columns that differ from the loaded row.
Column(given, old, now) == IF given = None \/ given = old THEN now ELSE given
NewRow(h) ==
    LET w == req[h] IN
    IF w.create THEN [cafe |-> w.cafe, x |-> w.body.x, y |-> w.body.y, active |-> TRUE]
    ELSE [rows[w.obj] EXCEPT
            !.x = Column(w.body.x, loaded[h].x, rows[w.obj].x),
            !.y = Column(w.body.y, loaded[h].y, rows[w.obj].y),
            !.active = Column(w.body.active, loaded[h].active, rows[w.obj].active)]

\* CHECK (start_time < end_time) of slots, UNIQUE (name, address, phone) of cafes.
Accepted(w, row) ==
    /\ w.kind = "slot" => row.x < row.y
    /\ w.kind = "cafe" => \A c \in Cafes \ {w.obj} :
                            Exists(c) => rows[c].x # row.x \/ rows[c].y # row.y

\* The entry's answer has changed: it has missed this write, and too late for this
\* handler's invalidation if the handler cleaned before the entry was filled.
Outdated(h, db) ==
    IF entry = None THEN None
    ELSE IF Answer(rows, entry.req) = Answer(db, entry.req) THEN entry
    ELSE [entry EXCEPT !.missed = @ \cup
            {[kind |-> req[h].kind, create |-> req[h].create, obj |-> req[h].obj,
              late |-> h \in entry.during]}]

Commit(h) ==
    /\ pc[h] = "write"
    /\ LET w == req[h] IN
       /\ Accepted(w, NewRow(h))
       /\ rows' = [rows EXCEPT ![w.obj] = NewRow(h)]
       /\ pc' = [pc EXCEPT ![h] = IF w.kind = "table" THEN "cleanAfter" ELSE "idle"]
       /\ unsure' = [unsure EXCEPT ![w.obj] =
                        IF ~w.create /\ NewRow(h).x = rows[w.obj].x /\ NewRow(h).y = rows[w.obj].y
                        THEN @ ELSE overtaken[h]]
       /\ overtaken' = [g \in Handlers |-> overtaken[g] \/ (g # h /\ pc[g] # "idle")]
       /\ entry' = Outdated(h, rows')
    /\ UNCHANGED <<req, loaded, pending, requests>>

\* IntegrityError: a 500, after the cache was cleaned for nothing.
Refused(h) ==
    /\ pc[h] = "write" /\ ~Accepted(req[h], NewRow(h))
    /\ pc' = [pc EXCEPT ![h] = "idle"]
    /\ UNCHANGED <<rows, req, loaded, overtaken, unsure, entry, pending, requests>>

Next ==
    \/ \E h \in Handlers : Begin(h) \/ Check(h) \/ Clean(h) \/ Commit(h) \/ Refused(h)
    \/ \E r \in Reads : Fill(r)
    \/ \E r \in Requests : FillOther(r)
    \/ Expire
    \/ \E tag \in pending : Invalidate(tag)

Spec == Init /\ [][Next]_vars

-----------------------------------------------------------------------------
TypeOK ==
    /\ rows \in [Objects -> Optional(Row)]
    /\ pc \in [Handlers -> Places]
    /\ req \in [Handlers -> Optional(Write)]
    /\ loaded \in [Handlers -> Optional(Row)]
    /\ overtaken \in [Handlers -> BOOLEAN]
    /\ unsure \in [Objects -> BOOLEAN]
    /\ entry \in Optional(Entry)
    /\ pending \in SUBSET Tags
    /\ requests \in 0..MaxRequests

\* check_unique_slot: two slots of a cafe with the same times, which the database
\* would take, come only from a request that another one overtook.
DuplicatesNeedRaces ==
    \A s, t \in Slots :
        s # t /\ Exists(s) /\ Exists(t) /\ rows[s].cafe = rows[t].cafe
        /\ rows[s].x = rows[t].x /\ rows[s].y = rows[t].y => unsure[s] \/ unsure[t]

\* What the services never invalidate: lists when an object changes, the list of
\* tables when one is added, slots and tables when their cafe changes.
Unreached(r, w) ==
    IF r.many THEN ~w.create \/ w.kind # r.kind \/ w.kind = "table"
    ELSE w.kind = "cafe" /\ r.kind # "cafe"

\* clean_cache: a cached answer that is no longer true will be deleted, unless the
\* services never invalidate it for that write, or it was filled in the gap between
\* the invalidation and the write of the service.
StaleHasCause ==
    entry # None => \A w \in entry.missed :
        \/ Unreached(entry.req, w)
        \/ w.late
        \/ CleanTag(w) \in pending
        \/ \E h \in Handlers : pc[h] \in {"clean", "cleanAfter"} /\ CleanTag(req[h]) = CleanTag(w)

\* cache_key.py, bookings_key: whoever finds an answer under the key of its own
\* request gets the answer of its own query.  The exception are the managers' lists
\* of bookings, which share a key for one cafe and customer whatever show_active is.
ServedOwnQuery ==
    entry # None => \A r \in Sharing[entry.req] : Exchangeable(r, entry.req)
=============================================================================
