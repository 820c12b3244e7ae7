------------------------- MODULE UserAccountsProofs -------------------------
(* Theorems about UserAccounts, for any users, columns' values, requests    *)
(* and calls.                                                               *)
EXTENDS UserAccounts, TLAPS

\* The rows are unique, and had knows what they hold.
RowsOK == \A u \in Users :
    /\ ~Clash(row, Users \ {u}, row[u])
    /\ \A f \in USER_UPDATE_RULES : row[u][f] \in had[u][f]

\* A copy is of an earlier row, and of the present one if nothing was written since.
CopyOK(c, u) ==
    /\ c.at <= commits
    /\ c.at = commits => c.row = row[u]
    /\ \A f \in USER_UPDATE_RULES : c.row[f] \in had[u][f]

CopiesOK == \A u \in Users :
    /\ cache[u] # NoCopy => CopyOK(cache[u], u)
    /\ refresh[u].stage = "loaded" => CopyOK(refresh[u].copy, u)

\* What a request has in hand, by the place it is at.
Authenticated(q) ==
    /\ q.pc \in {"auth", "store"} => q.call.kind # "create"
    /\ q.call.kind # "create" /\ q.pc \in {"store", "check", "unique", "write"} =>
        /\ CopyOK(q.copy, q.call.actor)
        /\ q.call.kind = "me" => q.since = q.copy.at

\* What the checks have established.  The fields looked up were free, and still
\* are if nothing was written since.
Validated(q) == q.pc \in {"unique", "write"} =>
    /\ q.call.kind = "create" => LoginLeft(NoRow, q.call.patch)
    /\ q.call.kind = "me" =>
        Permitted(q.call, q.copy.row) /\ LoginLeft(q.copy.row, q.call.patch)
    /\ q.call.kind = "id" =>
        /\ Permitted(q.call, q.copy.row)
        /\ LoginLeft(q.loaded, q.call.patch)
        /\ q.loaded # NoRow
    /\ q.since = commits => \A f \in Uniques \ q.todo, v \in Others(q.call) :
        Given(f, q.call.patch) => row[v][f] # q.call.patch[f]

\* The target's row in the session, once it is there.
HasLoaded(q) == q.call.kind # "create" /\ (q.pc = "write" \/ (q.pc = "unique" /\ q.loaded # NoRow))
Session(q) ==
    /\ HasLoaded(q) =>
        /\ q.since = commits => q.loaded = row[q.call.target]
        /\ \A f \in USER_UPDATE_RULES : q.loaded[f] \in had[q.call.target][f]
    /\ q.pc = "write" => q.todo = {}

RequestOK(q) ==
    /\ q.since <= commits
    /\ q.call \in Calls
    /\ Authenticated(q)
    /\ Validated(q)
    /\ Session(q)

IInv == TypeOK /\ RowsOK /\ CopiesOK /\ \A r \in Requests : RequestOK(req[r])

-----------------------------------------------------------------------------
(* Typing.                                                                 *)

LEMMA FieldFacts ==
    /\ Uniques = {"username", "email", "phone", "tg_id"}
    /\ Uniques \subseteq Fields /\ Contacts \subseteq Uniques
    /\ USER_UPDATE_RULES \subseteq Required /\ Required \subseteq Fields
    /\ USER_UPDATE_RULES \subseteq Fields /\ "role" \in USER_UPDATE_RULES
    /\ USER_UPDATE_RULES \cap Uniques = {} /\ "password" \notin Uniques \cup USER_UPDATE_RULES
<1>1. Uniques = {"username", "email", "phone", "tg_id"}
    BY DEF Uniques, UNIQUE_USER_FIELDS
<1> QED
    BY <1>1 DEF Fields, Contacts, Required, USER_UPDATE_RULES

LEMMA ConstTypes ==
    /\ NoRow \in Row /\ NoCopy \in Copy /\ NoCopy \in Cached
    /\ Defaults \in Row
    /\ \A c \in Calls : c \in Call
    /\ (CHOOSE c \in Calls : TRUE) \in Calls
<1>1. NoRow \in Row
    BY DEF NoRow, Row
<1>2. Defaults \in Row
    BY UserAssumption DEF Defaults, Row
<1> QED
    BY <1>1, <1>2, UserAssumption DEF NoCopy, Copy, Cached

LEMMA BlankType == \A place \in Places :
    /\ Blank(place) \in Request /\ Blank(place).pc = place /\ Blank(place).since = 0
    /\ Blank(place).call \in Calls
    BY ConstTypes DEF Blank, Request, Call

LEMMA FreshType == ASSUME TypeOK, NEW u \in Users PROVE Fresh(u) \in Copy /\ Serialized(Fresh(u)) \in Cached
    BY DEF TypeOK, Fresh, Copy, Serialized, Cached

LEMMA SerializedType == ASSUME NEW c \in Copy PROVE
    Serialized(c) \in Cached /\ Serialized(c).row = c.row /\ Serialized(c).at = c.at
    BY DEF Copy, Cached, Serialized

LEMMA CachedCopies == Cached \subseteq Copy
    BY DEF Cached, Copy

LEMMA PatchedType ==
    ASSUME NEW base \in Row, NEW patch \in Patch
    PROVE  Patched(base, patch) \in Row
    BY DEF Patched, Set, Row, Patch

LEMMA WrittenType ==
    ASSUME TypeOK, NEW r \in Requests
    PROVE  Written(req[r]) \in Row /\ Merged(req[r]) \in Row
<1> DEFINE q == req[r]
<1>1. q \in Request /\ q.call \in Call /\ q.call.patch \in Patch /\ q.call.target \in Users
      /\ q.loaded \in Row /\ q.copy \in Copy /\ q.copy.row \in Row
    BY DEF TypeOK, Request, Call, Copy
<1>2. [f \in Fields |-> IF q.call.kind = "me" /\ f \in Held(q.copy) THEN q.copy.row[f]
                              ELSE q.loaded[f]] \in Row
    BY <1>1 DEF Row
<1>3. Merged(q) \in Row
    BY <1>1, <1>2, PatchedType DEF Merged
<1>4. Patched(Defaults, q.call.patch) \in Row
    BY <1>1, ConstTypes, PatchedType
<1>5. row[q.call.target] \in Row
    BY <1>1 DEF TypeOK
<1>6. Written(q) \in Row
    BY <1>3, <1>4, <1>5 DEF Written, Row
<1> QED
    BY <1>3, <1>6

LEMMA BecomesType ==
    ASSUME TypeOK, NEW r \in Requests, NEW q \in Request, Becomes(r, q)
    PROVE  /\ req' \in [Requests -> Request] /\ req'[r] = q
           /\ \A p \in Requests \ {r} : req'[p] = req[p]
    BY DEF TypeOK, Becomes

LEMMA EndType ==
    ASSUME TypeOK, NEW r \in Requests, NEW outcome \in Places, End(r, outcome)
    PROVE  /\ req' \in [Requests -> Request] /\ req'[r] = Blank(outcome)
           /\ \A p \in Requests \ {r} : req'[p] = req[p]
    BY BlankType, BecomesType DEF End

LEMMA TypeInit == Init => TypeOK
<1> SUFFICES ASSUME Init PROVE TypeOK
    OBVIOUS
<1>1. Blank("idle") \in Request
    BY BlankType DEF Places
<1>2. Initial \in [Users -> Row]
    BY UserAssumption
<1>3. had \in [Users -> [USER_UPDATE_RULES -> SUBSET (Values \cup {Null})]]
    BY <1>2, FieldFacts DEF Init, Row
<1> QED
    BY <1>1, <1>2, <1>3, ConstTypes DEF Init, TypeOK

\* What the request is after a step of its own.
Started(r, c) == [req[r] EXCEPT !.call = c, !.since = commits,
                                !.pc = IF c.kind = "create" THEN "check" ELSE "auth"]
WithCopy(r, place, c) == [req[r] EXCEPT !.pc = place, !.copy = c, !.since = c.at]
Checked(r) == LET q == req[r] IN
    [q EXCEPT !.pc = "unique",
              !.loaded = IF q.call.kind = "id" THEN row[q.call.target] ELSE NoRow,
              !.since = IF q.call.kind = "id" THEN commits ELSE q.since,
              !.todo = {f \in Uniques : Given(f, q.call.patch)}]
LookedUp(r, f, kept) == [req[r] EXCEPT !.todo = @ \ {f}, !.loaded = kept]
MayKeep(r, kept) == LET q == req[r] IN
    \/ kept = q.loaded
    \/ q.loaded = NoRow /\ q.call.kind # "create" /\ kept = row[q.call.target]
    \/ q.call.kind = "me" /\ kept = NoRow
Proceeded(r) == LET q == req[r] IN
    [q EXCEPT !.pc = "write",
              !.loaded = IF q.call.kind = "me" /\ @ = NoRow THEN row[q.call.target] ELSE @]

LEMMA RequestParts ==
    ASSUME TypeOK, NEW r \in Requests
    PROVE  LET q == req[r] IN
           /\ q \in Request /\ q.call \in Call /\ q.call.actor \in Users /\ q.call.target \in Users
           /\ q.call.kind \in Kinds /\ q.call.patch \in Patch
           /\ q.copy \in Copy /\ q.copy.row \in Row /\ q.copy.at \in Nat /\ q.loaded \in Row
           /\ q.since \in Nat /\ q.todo \in SUBSET Uniques /\ q.pc \in Places
           /\ row[q.call.target] \in Row
    BY DEF TypeOK, Request, Call, Copy

LEMMA StartedType ==
    ASSUME TypeOK, NEW r \in Requests, NEW c \in Calls
    PROVE  /\ Started(r, c) \in Request
           /\ Started(r, c).call = c /\ Started(r, c).since = commits
           /\ Started(r, c).pc = IF c.kind = "create" THEN "check" ELSE "auth"
    BY RequestParts, ConstTypes DEF TypeOK, Started, Request, Places

LEMMA WithCopyType ==
    ASSUME TypeOK, NEW r \in Requests, NEW place \in Places, NEW c \in Copy
    PROVE  LET q == WithCopy(r, place, c) IN
           /\ q \in Request
           /\ q.call = req[r].call /\ q.since = c.at /\ q.pc = place /\ q.copy = c
           /\ q.loaded = req[r].loaded /\ q.todo = req[r].todo
    BY RequestParts DEF WithCopy, Request, Copy

LEMMA CheckedType ==
    ASSUME TypeOK, NEW r \in Requests
    PROVE  LET q == Checked(r) IN
           /\ q \in Request
           /\ q.call = req[r].call /\ q.copy = req[r].copy /\ q.pc = "unique"
           /\ q.loaded = IF q.call.kind = "id" THEN row[q.call.target] ELSE NoRow
           /\ q.since = IF q.call.kind = "id" THEN commits ELSE req[r].since
           /\ q.todo = {f \in Uniques : Given(f, q.call.patch)}
    BY RequestParts, ConstTypes DEF TypeOK, Checked, Request, Places

LEMMA LookedUpType ==
    ASSUME TypeOK, NEW r \in Requests, NEW f, NEW kept, MayKeep(r, kept)
    PROVE  LET q == LookedUp(r, f, kept) IN
           /\ q \in Request
           /\ q.call = req[r].call /\ q.copy = req[r].copy /\ q.pc = req[r].pc
           /\ q.since = req[r].since /\ q.todo = req[r].todo \ {f} /\ q.loaded = kept
<1>1. kept \in Row
    BY RequestParts, ConstTypes DEF MayKeep
<1> QED
    BY <1>1, RequestParts DEF LookedUp, Request

\* What a lookup that finds nobody else does.
LEMMA LooksUp ==
    ASSUME NEW r \in Requests, CheckUnique(r), ~End(r, "refused")
    PROVE  \E f \in Uniques : \E kept :
             /\ MayKeep(r, kept) /\ Becomes(r, LookedUp(r, f, kept)) /\ At(r, "unique")
             /\ \A v \in Others(req[r].call) : row[v][f] # req[r].call.patch[f]
<1> DEFINE c == req[r].call
           found(f) == c.kind # "create" /\ row[c.target][f] = c.patch[f]
           first(f) == IF req[r].loaded = NoRow /\ found(f) THEN row[c.target] ELSE req[r].loaded
<1>1. PICK i \in 1..4 : LET f == UNIQUE_USER_FIELDS[i] IN
        /\ At(r, "unique")
        /\ \A v \in Others(c) : row[v][f] # c.patch[f]
        /\ \E kept \in IF c.kind = "me" THEN {first(f), NoRow} ELSE {first(f)} :
             Becomes(r, [req[r] EXCEPT !.todo = @ \ {f}, !.loaded = kept])
    BY DEF CheckUnique
<1> DEFINE f == UNIQUE_USER_FIELDS[i]
<1>2. PICK kept \in IF c.kind = "me" THEN {first(f), NoRow} ELSE {first(f)} :
        Becomes(r, [req[r] EXCEPT !.todo = @ \ {f}, !.loaded = kept])
    BY <1>1
<1>3. MayKeep(r, kept)
    BY <1>2 DEF MayKeep
<1>4. Becomes(r, LookedUp(r, f, kept))
    BY <1>2 DEF LookedUp
<1>5. f \in Uniques
    BY DEF Uniques
<1> QED
    BY <1>1, <1>3, <1>4, <1>5

LEMMA ProceededType ==
    ASSUME TypeOK, NEW r \in Requests
    PROVE  LET q == Proceeded(r) IN
           /\ q \in Request
           /\ q.call = req[r].call /\ q.copy = req[r].copy /\ q.pc = "write"
           /\ q.since = req[r].since /\ q.todo = req[r].todo
           /\ q.loaded = IF q.call.kind = "me" /\ req[r].loaded = NoRow THEN row[q.call.target]
                         ELSE req[r].loaded
    BY RequestParts DEF Proceeded, Request, Places

\* The steps of the authentication.
LEMMA AuthType ==
    ASSUME TypeOK, NEW r \in Requests,
           Start(r) \/ Hit(r) \/ AuthLoad(r) \/ AuthStore(r)
    PROVE  TypeOK'
<1> DEFINE q == req[r]
<1>1. q \in Request /\ q.call.actor \in Users /\ q.copy \in Copy
    BY RequestParts
<1>2. CASE Start(r)
  <2>1. PICK c \in Calls : Becomes(r, Started(r, c))
    BY <1>2 DEF Start, Started
  <2>2. req' \in [Requests -> Request]
    BY <2>1, StartedType, BecomesType
  <2> QED
    BY <1>2, <2>2 DEF Start, Table, TypeOK
<1>3. CASE Hit(r)
  <2>1. cache[q.call.actor] \in Copy
    BY <1>1, CachedCopies DEF TypeOK
  <2>2. req' \in [Requests -> Request]
    <3>1. Becomes(r, WithCopy(r, "check", cache[q.call.actor]))
      BY <1>3 DEF Hit, WithCopy
    <3> QED
      BY <2>1, <3>1, WithCopyType, BecomesType DEF Places
  <2>3. refresh' \in [Users -> [stage : {"idle", "asked", "loaded"}, copy : Copy]]
    <3>1. refresh[q.call.actor] \in [stage : {"idle", "asked", "loaded"}, copy : Copy]
      BY <1>1 DEF TypeOK
    <3>2. [refresh[q.call.actor] EXCEPT !.stage = "asked"]
            \in [stage : {"idle", "asked", "loaded"}, copy : Copy]
      BY <3>1
    <3>3. \/ refresh' = refresh
          \/ refresh' = [refresh EXCEPT ![q.call.actor] =
                            [refresh[q.call.actor] EXCEPT !.stage = "asked"]]
      BY <1>1, <1>3 DEF Hit, TypeOK
    <3> QED
      BY <3>2, <3>3 DEF TypeOK
  <2> QED
    BY <1>3, <2>2, <2>3 DEF Hit, Table, TypeOK
<1>4. CASE AuthLoad(r)
  <2>1. req' \in [Requests -> Request]
    <3>1. Becomes(r, WithCopy(r, "store", Fresh(q.call.actor)))
      BY <1>4 DEF AuthLoad, WithCopy, Fresh
    <3> QED
      BY <1>1, <3>1, FreshType, WithCopyType, BecomesType DEF Places
  <2> QED
    BY <1>4, <2>1 DEF AuthLoad, Table, TypeOK
<1>5. CASE AuthStore(r)
  <2>1. req' \in [Requests -> Request]
    <3>1. [q EXCEPT !.pc = "check"] \in Request
      BY <1>1 DEF Request, Places
    <3> QED
      BY <1>5, <3>1, BecomesType DEF AuthStore
  <2>2. cache' \in [Users -> Cached]
    BY <1>1, <1>5, SerializedType DEF AuthStore, TypeOK
  <2> QED
    BY <1>5, <2>1, <2>2 DEF AuthStore, Table, TypeOK
<1> QED
    BY <1>2, <1>3, <1>4, <1>5

\* The checks.
LEMMA CheckType ==
    ASSUME TypeOK, NEW r \in Requests,
           Check(r) \/ CheckUnique(r) \/ Proceed(r)
    PROVE  TypeOK'
<1>1. "refused" \in Places
    BY DEF Places
<1>2. CASE Check(r)
  <2>1. End(r, "refused") \/ Becomes(r, Checked(r))
    BY <1>2 DEF Check, Checked
  <2>2. req' \in [Requests -> Request]
    BY <1>1, <2>1, EndType, CheckedType, BecomesType
  <2> QED
    BY <1>2, <2>2 DEF Check, Table, TypeOK
<1>3. CASE CheckUnique(r)
  <2>1. \/ End(r, "refused")
        \/ \E f \in Uniques : \E kept : MayKeep(r, kept) /\ Becomes(r, LookedUp(r, f, kept))
    BY <1>3, LooksUp
  <2>2. req' \in [Requests -> Request]
    BY <1>1, <2>1, EndType, LookedUpType, BecomesType
  <2> QED
    BY <1>3, <2>2 DEF CheckUnique, Table, TypeOK
<1>4. CASE Proceed(r)
  <2>1. req' \in [Requests -> Request]
    BY <1>4, ProceededType, BecomesType DEF Proceed, Proceeded
  <2>2. cleaning' \in [Users -> Nat]
    BY <1>4, RequestParts DEF Proceed, TypeOK
  <2> QED
    BY <1>4, <2>1, <2>2 DEF Proceed, Table, TypeOK
<1> QED
    BY <1>2, <1>3, <1>4

\* The writes.
LEMMA WriteType ==
    ASSUME TypeOK, NEW r \in Requests, WriteFails(r) \/ Write(r)
    PROVE  TypeOK'
<1>1. CASE WriteFails(r)
  <2>1. req' \in [Requests -> Request]
    BY <1>1, EndType DEF WriteFails, Places
  <2> QED
    BY <1>1, <2>1 DEF WriteFails, Table, TypeOK
<1>2. CASE Write(r)
  <2> DEFINE new == Written(req[r])
  <2>1. PICK u \in Users :
        /\ row' = [row EXCEPT ![u] = new]
        /\ had' = [had EXCEPT ![u] = [f \in USER_UPDATE_RULES |-> @[f] \cup {new[f]}]]
        /\ cleaning' = IF req[r].call.kind = "me" THEN [cleaning EXCEPT ![u] = @ + 1] ELSE cleaning
    BY <1>2 DEF Write
  <2>2. new \in Row
    BY WrittenType
  <2>3. row' \in [Users -> Row]
    BY <2>1, <2>2 DEF TypeOK
  <2>4. cleaning' \in [Users -> Nat]
    BY <2>1 DEF TypeOK
  <2>5. had' \in [Users -> [USER_UPDATE_RULES -> SUBSET (Values \cup {Null})]]
    <3>1. \A f \in USER_UPDATE_RULES : new[f] \in Values \cup {Null}
      BY <2>2, FieldFacts DEF Row
    <3>2. had[u] \in [USER_UPDATE_RULES -> SUBSET (Values \cup {Null})]
      BY DEF TypeOK
    <3>3. [f \in USER_UPDATE_RULES |-> had[u][f] \cup {new[f]}]
            \in [USER_UPDATE_RULES -> SUBSET (Values \cup {Null})]
      BY <3>1, <3>2
    <3>4. had' = [had EXCEPT ![u] = [f \in USER_UPDATE_RULES |-> had[u][f] \cup {new[f]}]]
      BY <2>1
    <3> QED
      BY <3>3, <3>4 DEF TypeOK
  <2>6. req' \in [Requests -> Request]
    BY <1>2, EndType DEF Write, Places
  <2> QED
    BY <1>2, <2>3, <2>4, <2>5, <2>6 DEF Write, TypeOK
<1> QED
    BY <1>1, <1>2

\* The background tasks and time.
LEMMA TaskType ==
    ASSUME TypeOK, NEW u \in Users, RefreshLoad(u) \/ RefreshStore(u) \/ Expire(u) \/ Clean(u)
    PROVE  TypeOK'
<1>1. CASE RefreshLoad(u)
    BY <1>1, FreshType DEF RefreshLoad, Table, TypeOK
<1>2. CASE RefreshStore(u)
  <2>1. refresh[u].copy \in Copy
    BY DEF TypeOK
  <2>2. cache' \in [Users -> Cached]
    BY <1>2, <2>1, SerializedType DEF RefreshStore, TypeOK
  <2>3. refresh' \in [Users -> [stage : {"idle", "asked", "loaded"}, copy : Copy]]
    BY <1>2, ConstTypes DEF RefreshStore, TypeOK
  <2> QED
    BY <1>2, <2>2, <2>3 DEF RefreshStore, Table, TypeOK
<1>3. CASE Expire(u)
    BY <1>3, ConstTypes DEF Expire, Table, TypeOK
<1>4. CASE Clean(u)
    BY <1>4, ConstTypes DEF Clean, Table, TypeOK
<1> QED
    BY <1>1, <1>2, <1>3, <1>4

LEMMA TypeStep == TypeOK /\ [Next]_vars => TypeOK'
<1> SUFFICES ASSUME TypeOK, [Next]_vars PROVE TypeOK'
    OBVIOUS
<1>1. CASE UNCHANGED vars
    BY <1>1 DEF vars, TypeOK
<1>2. CASE Next
    BY <1>1, <1>2, AuthType, CheckType, WriteType, TaskType DEF Next, Quiet
<1> QED
    BY <1>1, <1>2

\* Everything keeps its type, and the cache never holds a password.
THEOREM TypeCorrect == Spec => []TypeOK
    BY TypeInit, TypeStep, PTL DEF Spec
-----------------------------------------------------------------------------
(* The inductive invariant.                                                *)

LEMMA BlankOK ==
    ASSUME TypeOK, NEW place \in Places \ {"auth", "store", "check", "unique", "write"}
    PROVE  RequestOK(Blank(place))
    BY BlankType DEF TypeOK, RequestOK, Authenticated, Validated, Session, HasLoaded

\* While the table is not written, what was known of a request stays known.
LEMMA Steady ==
    ASSUME UNCHANGED Table, NEW p \in Requests, req'[p] = req[p], RequestOK(req[p])
    PROVE  RequestOK(req[p])'
    BY DEF Table, RequestOK, Authenticated, Validated, Session, HasLoaded, CopyOK

LEMMA SteadyCopies ==
    ASSUME UNCHANGED Table, RowsOK, NEW c, NEW u, CopyOK(c, u)
    PROVE  RowsOK' /\ (commits' = commits /\ row' = row /\ had' = had)
    BY DEF Table, RowsOK, Clash

\* A step of one request that does not write the table: only what it becomes matters.
LEMMA OneMoves ==
    ASSUME IInv, UNCHANGED Table, NEW r \in Requests, NEW q \in Request, Becomes(r, q), RequestOK(q)
    PROVE  /\ RowsOK'
           /\ \A p \in Requests : RequestOK(req[p])'
<1>1. RowsOK'
    BY DEF IInv, Table, RowsOK, Clash
<1>2. req'[r] = q /\ \A p \in Requests \ {r} : req'[p] = req[p]
    BY BecomesType DEF IInv
<1>3. RequestOK(req[r])'
    BY <1>2 DEF Table, RequestOK, Authenticated, Validated, Session, HasLoaded, CopyOK
<1>4. \A p \in Requests \ {r} : RequestOK(req[p])'
    BY <1>2, Steady DEF IInv
<1> QED
    BY <1>1, <1>3, <1>4

\* A step that leaves the table, the cache and the refreshes alone.
LEMMA SteadyCache ==
    ASSUME CopiesOK, UNCHANGED Table, UNCHANGED cache, UNCHANGED refresh
    PROVE  CopiesOK'
    BY DEF CopiesOK, CopyOK, Table

LEMMA FreshOK ==
    ASSUME IInv, NEW u \in Users
    PROVE  CopyOK(Fresh(u), u) /\ Fresh(u).at = commits
<1>1. Fresh(u).row = row[u] /\ Fresh(u).at = commits
    BY DEF Fresh
<1>2. commits \in Nat /\ \A f \in USER_UPDATE_RULES : row[u][f] \in had[u][f]
    BY DEF IInv, TypeOK, RowsOK
<1> QED
    BY <1>1, <1>2 DEF CopyOK

\* A request that has just got its user.
LEMMA NewCopyOK ==
    ASSUME NEW q, q.pc \in {"store", "check"}, q.call \in Calls, q.since <= commits,
           CopyOK(q.copy, q.call.actor), q.since = q.copy.at, q.call.kind # "create"
    PROVE  RequestOK(q)
    BY DEF RequestOK, Authenticated, Validated, Session, HasLoaded

LEMMA SerializedOK ==
    ASSUME NEW u \in Users, NEW c \in Copy, CopyOK(c, u)
    PROVE  CopyOK(Serialized(c), u)
    BY SerializedType DEF CopyOK

LEMMA InvInit == Init => IInv
<1> SUFFICES ASSUME Init PROVE IInv
    OBVIOUS
<1>1. TypeOK
    BY TypeInit
<1>2. RowsOK
  <2> SUFFICES ASSUME NEW u \in Users
               PROVE  /\ ~Clash(row, Users \ {u}, row[u])
                      /\ \A f \in USER_UPDATE_RULES : row[u][f] \in had[u][f]
      BY DEF RowsOK
  <2>1. ~Clash(row, Users \ {u}, row[u])
    <3>1. CASE row[u] = NoRow
      BY <3>1, FieldFacts DEF Clash, NoRow
    <3>2. CASE row[u] # NoRow
      BY <3>2, UserAssumption DEF Init
    <3> QED
      BY <3>1, <3>2
  <2>2. \A f \in USER_UPDATE_RULES : row[u][f] \in had[u][f]
    BY DEF Init
  <2> QED
    BY <2>1, <2>2
<1>3. CopiesOK
    BY DEF Init, CopiesOK
<1>4. \A r \in Requests : RequestOK(req[r])
    BY <1>1, BlankOK DEF Init, Places
<1> QED
    BY <1>1, <1>2, <1>3, <1>4 DEF IInv

LEMMA InvAuth ==
    ASSUME IInv, NEW r \in Requests, Start(r) \/ Hit(r) \/ AuthLoad(r) \/ AuthStore(r)
    PROVE  IInv'
<1> DEFINE q == req[r]
<1>1. TypeOK'
    BY AuthType DEF IInv
<1>2. TypeOK /\ q \in Request /\ q.call \in Calls /\ q.call.actor \in Users /\ q.copy \in Copy
      /\ q.copy.at \in Nat /\ RequestOK(q)
    BY RequestParts DEF IInv, RequestOK
<1>3. CASE Start(r)
  <2>1. PICK c \in Calls : Becomes(r, Started(r, c))
    BY <1>3 DEF Start, Started
  <2>2. Started(r, c) \in Request /\ RequestOK(Started(r, c))
    BY <1>2, StartedType DEF TypeOK, RequestOK, Authenticated, Validated, Session, HasLoaded
  <2>3. RowsOK' /\ \A p \in Requests : RequestOK(req[p])'
    BY <1>3, <2>1, <2>2, OneMoves DEF Start
  <2>4. CopiesOK'
    BY <1>3, SteadyCache DEF Start, IInv
  <2> QED
    BY <1>1, <2>3, <2>4 DEF IInv
<1>4. CASE Hit(r)
  <2> DEFINE c == cache[q.call.actor]
  <2>1. Becomes(r, WithCopy(r, "check", c))
    BY <1>4 DEF Hit, WithCopy
  <2>2. CopyOK(c, q.call.actor) /\ c \in Copy
    BY <1>2, <1>4, CachedCopies DEF Hit, IInv, CopiesOK, TypeOK
  <2>3. WithCopy(r, "check", c) \in Request /\ RequestOK(WithCopy(r, "check", c))
    <3> DEFINE new == WithCopy(r, "check", c)
    <3>1. "check" \in Places /\ c.at <= commits /\ q.call.kind # "create"
      BY <1>2, <1>4, <2>2 DEF Places, CopyOK, Hit, At, RequestOK, Authenticated
    <3>2. new \in Request /\ new.call = q.call /\ new.since = c.at /\ new.pc = "check" /\ new.copy = c
      BY <2>2, <3>1, <1>2, WithCopyType
    <3> HIDE DEF new, c
    <3>3. RequestOK(new)
      BY <1>2, <2>2, <3>1, <3>2, NewCopyOK
    <3> QED
      BY <3>2, <3>3 DEF new
  <2>4. RowsOK' /\ \A p \in Requests : RequestOK(req[p])'
    BY <1>4, <2>1, <2>3, OneMoves DEF Hit
  <2>5. CopiesOK'
    <3> SUFFICES ASSUME NEW u \in Users
                 PROVE  /\ cache'[u] # NoCopy => CopyOK(cache[u], u)'
                        /\ refresh'[u].stage = "loaded" => CopyOK(refresh[u].copy, u)'
        BY DEF CopiesOK
    <3>1. cache' = cache /\ commits' = commits /\ row' = row /\ had' = had
      BY <1>4 DEF Hit, Table
    <3>2. refresh'[u].stage = "loaded" => refresh'[u] = refresh[u]
      BY <1>2, <1>4 DEF Hit, TypeOK
    <3> QED
      BY <3>1, <3>2 DEF IInv, CopiesOK, CopyOK
  <2> QED
    BY <1>1, <2>4, <2>5 DEF IInv
<1>5. CASE AuthLoad(r)
  <2> DEFINE c == Fresh(q.call.actor)
  <2>1. Becomes(r, WithCopy(r, "store", c))
    BY <1>5 DEF AuthLoad, WithCopy, Fresh
  <2>2. CopyOK(c, q.call.actor) /\ c \in Copy
    BY <1>2, FreshOK, FreshType
  <2>3. WithCopy(r, "store", c) \in Request /\ RequestOK(WithCopy(r, "store", c))
    <3> DEFINE new == WithCopy(r, "store", c)
    <3>1. "store" \in Places /\ c.at <= commits /\ q.call.kind # "create"
      BY <1>2, <1>5, <2>2 DEF Places, CopyOK, AuthLoad, At, RequestOK, Authenticated
    <3>2. new \in Request /\ new.call = q.call /\ new.since = c.at /\ new.pc = "store" /\ new.copy = c
      BY <2>2, <3>1, <1>2, WithCopyType
    <3> HIDE DEF new, c
    <3>3. RequestOK(new)
      BY <1>2, <2>2, <3>1, <3>2, NewCopyOK
    <3> QED
      BY <3>2, <3>3 DEF new
  <2>4. RowsOK' /\ \A p \in Requests : RequestOK(req[p])'
    BY <1>5, <2>1, <2>3, OneMoves DEF AuthLoad
  <2>5. CopiesOK'
    BY <1>5, SteadyCache DEF AuthLoad, IInv
  <2> QED
    BY <1>1, <2>4, <2>5 DEF IInv
<1>6. CASE AuthStore(r)
  <2> DEFINE new == [q EXCEPT !.pc = "check"]
  <2>1. Becomes(r, new) /\ q.pc = "store" /\ UNCHANGED Table
    BY <1>6 DEF AuthStore, At
  <2>2. new \in Request /\ new.pc = "check" /\ new.call = q.call /\ new.copy = q.copy /\ new.since = q.since
    BY <1>2 DEF Request, Places
  <2>3. RequestOK(new)
    BY <1>2, <2>1, <2>2 DEF RequestOK, Authenticated, Validated, Session, HasLoaded
  <2>4. RowsOK' /\ \A p \in Requests : RequestOK(req[p])'
    BY <2>1, <2>2, <2>3, OneMoves
  <2>5. CopyOK(Serialized(q.copy), q.call.actor)
    BY <1>2, <2>1, SerializedOK DEF RequestOK, Authenticated
  <2>6. CopiesOK'
    <3> SUFFICES ASSUME NEW u \in Users
                 PROVE  /\ cache'[u] # NoCopy => CopyOK(cache[u], u)'
                        /\ refresh'[u].stage = "loaded" => CopyOK(refresh[u].copy, u)'
        BY DEF CopiesOK
    <3>1. refresh' = refresh /\ commits' = commits /\ row' = row /\ had' = had
      BY <1>6 DEF AuthStore, Table
    <3>2. cache'[u] = cache[u] \/ (u = q.call.actor /\ cache'[u] = Serialized(q.copy))
      BY <1>2, <1>6 DEF AuthStore, TypeOK
    <3> QED
      BY <2>5, <3>1, <3>2 DEF IInv, CopiesOK, CopyOK
  <2> QED
    BY <1>1, <2>4, <2>6 DEF IInv
<1> QED
    BY <1>3, <1>4, <1>5, <1>6

\* A request that a step leaves with an answer.
LEMMA Ends ==
    ASSUME IInv, UNCHANGED Table, NEW r \in Requests,
           NEW outcome \in {"refused", "invalid", "conflict"}, End(r, outcome)
    PROVE  RowsOK' /\ \A p \in Requests : RequestOK(req[p])'
<1>1. outcome \in Places /\ outcome \in Places \ {"auth", "store", "check", "unique", "write"}
    BY DEF Places
<1>2. Blank(outcome) \in Request /\ RequestOK(Blank(outcome))
    BY <1>1, BlankType, BlankOK DEF IInv
<1> QED
    BY <1>2, OneMoves DEF End

LEMMA CheckedOK ==
    ASSUME IInv, NEW r \in Requests, At(r, "check"), Admits(r)
    PROVE  RequestOK(Checked(r))
<1> DEFINE q == req[r]
           new == Checked(r)
           c == q.call
<1>1. TypeOK /\ RequestOK(q) /\ q.pc = "check" /\ commits \in Nat /\ RowsOK
    BY DEF IInv, At, TypeOK
<1>2. /\ new.call = c /\ new.copy = q.copy /\ new.pc = "unique"
      /\ new.loaded = IF c.kind = "id" THEN row[c.target] ELSE NoRow
      /\ new.since = IF c.kind = "id" THEN commits ELSE q.since
      /\ new.todo = {f \in Uniques : Given(f, c.patch)}
    BY <1>1, CheckedType
<1>3. c \in Calls /\ c.target \in Users /\ Authenticated(q) /\ q.since <= commits
    BY <1>1, RequestParts DEF RequestOK
<1>4. Admitted(c, q.copy.row, row[c.target])
    BY DEF Admits
<1> HIDE DEF new
<1>5. new.since <= commits /\ new.call \in Calls
    BY <1>1, <1>2, <1>3
<1>6. Authenticated(new)
    BY <1>1, <1>2, <1>3 DEF Authenticated
<1>7. Validated(new)
    BY <1>2, <1>4 DEF Validated, Admitted
<1>8. Session(new)
    BY <1>1, <1>2, <1>3 DEF Session, HasLoaded, RowsOK
<1> QED
    BY <1>5, <1>6, <1>7, <1>8 DEF RequestOK, new

LEMMA LookedUpOK ==
    ASSUME IInv, NEW r \in Requests, At(r, "unique"), NEW f \in Uniques,
           NEW kept, MayKeep(r, kept),
           \A v \in Others(req[r].call) : row[v][f] # req[r].call.patch[f]
    PROVE  RequestOK(LookedUp(r, f, kept))
<1> DEFINE q == req[r]
           new == LookedUp(r, f, kept)
           c == q.call
<1>1. TypeOK /\ RequestOK(q) /\ q.pc = "unique" /\ RowsOK
    BY DEF IInv, At
<1>2. /\ new.call = c /\ new.copy = q.copy /\ new.pc = "unique"
      /\ new.since = q.since /\ new.todo = q.todo \ {f}
      /\ \/ new.loaded = q.loaded
         \/ c.kind # "create" /\ c.kind # "id" /\ new.loaded = row[c.target]
         \/ c.kind = "me" /\ new.loaded = NoRow
  <2>1. /\ new.call = c /\ new.copy = q.copy /\ new.pc = "unique"
        /\ new.since = q.since /\ new.todo = q.todo \ {f} /\ new.loaded = kept
    BY <1>1, LookedUpType
  <2>2. c.kind = "id" => q.loaded # NoRow
    BY <1>1 DEF RequestOK, Validated
  <2> QED
    BY <2>1, <2>2 DEF MayKeep
<1>3. c \in Calls /\ c.target \in Users /\ Authenticated(q) /\ q.since <= commits
      /\ Validated(q) /\ Session(q)
    BY <1>1, RequestParts DEF RequestOK
<1> HIDE DEF new
<1>4. Authenticated(new)
    BY <1>1, <1>2, <1>3 DEF Authenticated
<1>5. Validated(new)
    BY <1>1, <1>2, <1>3 DEF Validated
<1>6. Session(new)
    BY <1>1, <1>2, <1>3 DEF Session, HasLoaded, RowsOK
<1> QED
    BY <1>2, <1>3, <1>4, <1>5, <1>6 DEF RequestOK, new

LEMMA ProceededOK ==
    ASSUME IInv, NEW r \in Requests, At(r, "unique"), req[r].todo = {}
    PROVE  RequestOK(Proceeded(r))
<1> DEFINE q == req[r]
           new == Proceeded(r)
           c == q.call
<1>1. TypeOK /\ RequestOK(q) /\ q.pc = "unique" /\ RowsOK
    BY DEF IInv, At
<1>2. /\ new.call = c /\ new.copy = q.copy /\ new.pc = "write"
      /\ new.since = q.since /\ new.todo = {}
      /\ new.loaded = IF c.kind = "me" /\ q.loaded = NoRow THEN row[c.target] ELSE q.loaded
    BY <1>1, ProceededType
<1>3. c \in Calls /\ c.target \in Users /\ c.kind \in Kinds /\ Authenticated(q)
      /\ q.since <= commits /\ Validated(q) /\ Session(q)
    BY <1>1, RequestParts DEF RequestOK
<1> HIDE DEF new
<1>4. Authenticated(new)
    BY <1>1, <1>2, <1>3 DEF Authenticated
<1>5. Validated(new)
    BY <1>1, <1>2, <1>3 DEF Validated
<1>6. Session(new)
    BY <1>1, <1>2, <1>3 DEF Session, HasLoaded, RowsOK, Validated, Kinds
<1> QED
    BY <1>2, <1>3, <1>4, <1>5, <1>6 DEF RequestOK, new

LEMMA InvCheck ==
    ASSUME IInv, NEW r \in Requests, Check(r) \/ CheckUnique(r) \/ Proceed(r) \/ WriteFails(r)
    PROVE  IInv'
<1>1. TypeOK'
    BY CheckType, WriteType DEF IInv
<1>2. CopiesOK'
    BY SteadyCache DEF Check, CheckUnique, Proceed, WriteFails, IInv
<1>3. UNCHANGED Table /\ TypeOK
    BY DEF Check, CheckUnique, Proceed, WriteFails, IInv
<1>4. RowsOK' /\ \A p \in Requests : RequestOK(req[p])'
  <2>1. CASE \E outcome \in {"refused", "invalid", "conflict"} : End(r, outcome)
    BY <1>3, <2>1, Ends
  <2>2. CASE Check(r) /\ ~End(r, "refused")
    <3>1. Becomes(r, Checked(r)) /\ At(r, "check") /\ Admits(r)
      BY <2>2 DEF Check, Checked
    <3>2. Checked(r) \in Request
      BY <1>3, CheckedType
    <3> QED
      BY <1>3, <3>1, <3>2, CheckedOK, OneMoves
  <2>3. CASE CheckUnique(r) /\ ~End(r, "refused")
    <3>1. PICK f \in Uniques : \E kept :
            /\ MayKeep(r, kept) /\ Becomes(r, LookedUp(r, f, kept)) /\ At(r, "unique")
            /\ \A v \in Others(req[r].call) : row[v][f] # req[r].call.patch[f]
      BY <2>3, LooksUp
    <3>2. PICK kept :
            /\ MayKeep(r, kept) /\ Becomes(r, LookedUp(r, f, kept)) /\ At(r, "unique")
            /\ \A v \in Others(req[r].call) : row[v][f] # req[r].call.patch[f]
      BY <3>1
    <3>3. LookedUp(r, f, kept) \in Request
      BY <1>3, <3>2, LookedUpType
    <3> QED
      BY <1>3, <3>2, <3>3, LookedUpOK, OneMoves
  <2>4. CASE Proceed(r)
    <3>1. Becomes(r, Proceeded(r)) /\ At(r, "unique") /\ req[r].todo = {}
      BY <2>4 DEF Proceed, Proceeded
    <3>2. Proceeded(r) \in Request
      BY <1>3, ProceededType
    <3> QED
      BY <1>3, <3>1, <3>2, ProceededOK, OneMoves
  <2>5. CASE WriteFails(r)
    BY <2>1, <2>5 DEF WriteFails
  <2> QED
    BY <2>1, <2>2, <2>3, <2>4, <2>5
<1> QED
    BY <1>1, <1>2, <1>4 DEF IInv

LEMMA InvTask ==
    ASSUME IInv, NEW u \in Users, RefreshLoad(u) \/ RefreshStore(u) \/ Expire(u) \/ Clean(u)
    PROVE  IInv'
<1>1. TypeOK'
    BY TaskType DEF IInv
<1>2. UNCHANGED Table /\ req' = req /\ TypeOK
    BY DEF RefreshLoad, RefreshStore, Expire, Clean, IInv
<1>3. RowsOK'
    BY <1>2 DEF IInv, Table, RowsOK, Clash
<1>4. \A p \in Requests : RequestOK(req[p])'
    BY <1>2, Steady DEF IInv
<1>5. CopiesOK'
  <2> SUFFICES ASSUME NEW v \in Users
               PROVE  /\ cache'[v] # NoCopy => CopyOK(cache[v], v)'
                      /\ refresh'[v].stage = "loaded" => CopyOK(refresh[v].copy, v)'
      BY DEF CopiesOK
  <2>1. \/ cache'[v] = cache[v] \/ cache'[v] = NoCopy
        \/ v = u /\ refresh[u].stage = "loaded" /\ cache'[v] = Serialized(refresh[u].copy)
    BY <1>2 DEF RefreshLoad, RefreshStore, Expire, Clean, TypeOK
  <2>2. \/ refresh'[v] = refresh[v] \/ refresh'[v].stage = "idle"
        \/ v = u /\ refresh'[v].copy = Fresh(u)
    BY <1>2 DEF RefreshLoad, RefreshStore, Expire, Clean, TypeOK
  <2>3. refresh[u].stage = "loaded" => CopyOK(Serialized(refresh[u].copy), u)
    BY <1>2, SerializedOK DEF IInv, CopiesOK, TypeOK
  <2>4. CopyOK(Fresh(u), u)
    BY FreshOK
  <2>5. commits' = commits /\ row' = row /\ had' = had
    BY <1>2 DEF Table
  <2> QED
    BY <2>1, <2>2, <2>3, <2>4, <2>5 DEF IInv, CopiesOK, CopyOK
<1> QED
    BY <1>1, <1>3, <1>4, <1>5 DEF IInv

\* A write makes everything that was read before it old, and forgets nothing.
LEMMA InvWrite ==
    ASSUME IInv, NEW r \in Requests, Write(r)
    PROVE  IInv'
<1> DEFINE new == Written(req[r])
           c == req[r].call
<1>1. TypeOK' /\ TypeOK /\ new \in Row /\ commits \in Nat
    BY WriteType, WrittenType DEF IInv, TypeOK
<1>2. PICK u \in Users :
        /\ IF c.kind = "create" THEN ~Exists(u) ELSE u = c.target
        /\ ~Clash(row, Others(c), new)
        /\ row' = [row EXCEPT ![u] = new]
        /\ had' = [had EXCEPT ![u] = [f \in USER_UPDATE_RULES |-> @[f] \cup {new[f]}]]
    BY DEF Write
<1>3. commits' = commits + 1 /\ cache' = cache /\ refresh' = refresh /\ End(r, "done")
    BY DEF Write
<1>4. \A v \in Users, f \in USER_UPDATE_RULES : had[v][f] \subseteq had'[v][f]
    BY <1>1, <1>2 DEF TypeOK
<1>5. row'[u] = new /\ (\A v \in Users \ {u} : row'[v] = row[v])
      /\ \A f \in USER_UPDATE_RULES : new[f] \in had'[u][f]
    BY <1>1, <1>2 DEF TypeOK
<1>6. RowsOK'
  <2> SUFFICES ASSUME NEW v \in Users
               PROVE  /\ ~(\E w \in Users \ {v}, f \in Uniques : row'[v][f] # Null /\ row'[w][f] = row'[v][f])
                      /\ \A f \in USER_UPDATE_RULES : row'[v][f] \in had'[v][f]
      BY DEF RowsOK, Clash
  <2>1. Users \ {u} \subseteq Others(c)
    BY <1>2 DEF Others
  <2>2. \A w \in Users \ {u}, f \in Uniques : new[f] # Null => row[w][f] # new[f]
    BY <1>2, <2>1 DEF Clash
  <2>3. \A w \in Users \ {v}, f \in Uniques : row[v][f] # Null => row[w][f] # row[v][f]
    BY DEF IInv, RowsOK, Clash
  <2>4. \A f \in USER_UPDATE_RULES : row[v][f] \in had[v][f]
    BY DEF IInv, RowsOK
  <2> QED
    BY <1>4, <1>5, <2>2, <2>3, <2>4
<1>7. \A v \in Users, d \in Copy : CopyOK(d, v) =>
        /\ d.at <= commits' /\ d.at # commits'
        /\ \A f \in USER_UPDATE_RULES : d.row[f] \in had'[v][f]
    BY <1>1, <1>3, <1>4 DEF CopyOK, Copy
<1>8. CopiesOK'
  <2> SUFFICES ASSUME NEW v \in Users
               PROVE  /\ cache'[v] # NoCopy => CopyOK(cache[v], v)'
                      /\ refresh'[v].stage = "loaded" => CopyOK(refresh[v].copy, v)'
      BY DEF CopiesOK
  <2>1. cache[v] \in Copy /\ refresh[v].copy \in Copy
    BY <1>1, CachedCopies DEF TypeOK
  <2> QED
    BY <1>3, <1>7, <2>1 DEF IInv, CopiesOK, CopyOK
<1>9. ASSUME NEW p \in Requests PROVE RequestOK(req[p])'
  <2>1. CASE p = r
    <3>1. "done" \in Places \ {"auth", "store", "check", "unique", "write"}
      BY DEF Places
    <3>2. req'[p] = Blank("done") /\ Blank("done").pc = "done" /\ Blank("done").since = 0
          /\ Blank("done").call \in Calls
      BY <1>1, <1>3, <2>1, <3>1, EndType, BlankType
    <3> QED
      BY <1>1, <1>3, <3>2 DEF RequestOK, Authenticated, Validated, Session, HasLoaded
  <2>2. CASE p # r
    <3> DEFINE q == req[p]
    <3>1. req'[p] = q
      BY <1>1, <1>3, <2>2, EndType DEF Places
    <3>2. RequestOK(q) /\ q.since \in Nat /\ q.copy \in Copy /\ q.call.actor \in Users
          /\ q.call.target \in Users
      BY <1>1, RequestParts DEF IInv
    <3>3. q.since <= commits' /\ q.since # commits'
      BY <1>1, <1>3, <3>2 DEF RequestOK
    <3>4. q.call \in Calls
      BY <3>2 DEF RequestOK
    <3>5. Authenticated(req[p])'
      BY <1>7, <3>1, <3>2 DEF RequestOK, Authenticated, CopyOK
    <3>6. Validated(req[p])'
      BY <3>1, <3>2, <3>3 DEF RequestOK, Validated
    <3>7. Session(req[p])'
      BY <1>4, <3>1, <3>2, <3>3 DEF RequestOK, Session, HasLoaded
    <3> QED
      BY <3>1, <3>3, <3>4, <3>5, <3>6, <3>7 DEF RequestOK
  <2> QED
    BY <2>1, <2>2
<1> QED
    BY <1>1, <1>6, <1>8, <1>9 DEF IInv

LEMMA InvStep == IInv /\ [Next]_vars => IInv'
<1> SUFFICES ASSUME IInv, [Next]_vars PROVE IInv'
    OBVIOUS
<1>1. CASE UNCHANGED vars
  <2>1. TypeOK' /\ RowsOK' /\ CopiesOK'
    BY <1>1 DEF IInv, vars, TypeOK, RowsOK, Clash, CopiesOK, CopyOK
  <2>2. UNCHANGED Table /\ \A p \in Requests : req'[p] = req[p]
    BY <1>1 DEF vars, Table
  <2>3. \A p \in Requests : RequestOK(req[p])'
    BY <2>2, Steady DEF IInv
  <2> QED
    BY <2>1, <2>3 DEF IInv
<1>2. CASE Next
    BY <1>1, <1>2, InvAuth, InvCheck, InvTask, InvWrite DEF Next, Quiet
<1> QED
    BY <1>1, <1>2

-----------------------------------------------------------------------------
(* What follows from it for the writes.                                    *)

\* A request about to write does nothing else.
LEMMA OwnStep ==
    ASSUME IInv, [Next]_vars, NEW r \in Requests, At(r, "write"), req'[r] # req[r]
    PROVE  WriteFails(r) \/ Write(r)
<1>1. TypeOK /\ req[r].pc = "write"
    BY DEF IInv, At
<1>2. ASSUME NEW p \in Requests, p # r,
             \/ Start(p) \/ Hit(p) \/ AuthLoad(p) \/ AuthStore(p) \/ Check(p) \/ CheckUnique(p)
             \/ Proceed(p) \/ WriteFails(p) \/ Write(p)
      PROVE  FALSE
  <2>1. \E q : Becomes(p, q)
    BY <1>2 DEF Start, Hit, AuthLoad, AuthStore, Check, CheckUnique, Proceed, WriteFails, Write, End
  <2> QED
    BY <1>1, <1>2, <2>1 DEF Becomes, TypeOK
<1>3. ~(Start(r) \/ Hit(r) \/ AuthLoad(r) \/ AuthStore(r) \/ Check(r) \/ CheckUnique(r) \/ Proceed(r))
    BY <1>1 DEF Start, Hit, AuthLoad, AuthStore, Check, CheckUnique, Proceed, At
<1>4. \A u \in Users : ~(RefreshLoad(u) \/ RefreshStore(u) \/ Expire(u) \/ Clean(u))
    BY DEF RefreshLoad, RefreshStore, Expire, Clean
<1>5. ~UNCHANGED vars
    BY DEF vars
<1> QED
    BY <1>2, <1>3, <1>4, <1>5 DEF Next, Quiet

LEMMA Outcomes ==
    ASSUME TypeOK, NEW r \in Requests
    PROVE  /\ WriteFails(r) => req'[r].pc \in {"invalid", "conflict"}
           /\ Write(r) => req'[r].pc = "done"
<1>1. ASSUME NEW o \in {"invalid", "conflict", "done"}, End(r, o) PROVE req'[r].pc = o
    BY <1>1, EndType, BlankType DEF Places
<1> QED
    BY <1>1 DEF WriteFails, Write

LEMMA CommitIsWrite ==
    ASSUME IInv, [Next]_vars, NEW r \in Requests, Commits(r)
    PROVE  Write(r)
    BY OwnStep, Outcomes DEF Commits, At, IInv

\* The attributes of the target's object at the flush, field by field.
LEMMA MergedField ==
    ASSUME NEW q, NEW f \in Fields
    PROVE  Merged(q)[f] = IF Set(f, q.call.patch) THEN q.call.patch[f]
                          ELSE IF q.call.kind = "me" /\ f \in Held(q.copy) THEN q.copy.row[f]
                          ELSE q.loaded[f]
    BY DEF Merged, Patched

LEMMA WrittenField ==
    ASSUME NEW q, NEW f \in Fields
    PROVE  Written(q)[f] =
             IF q.call.kind = "create"
             THEN IF Set(f, q.call.patch) THEN q.call.patch[f] ELSE Defaults[f]
             ELSE IF Merged(q)[f] = q.loaded[f] THEN row[q.call.target][f] ELSE Merged(q)[f]
    BY DEF Written, Patched

\* Nothing was written since: the object is the row with the request's fields set.
LEMMA WrittenAlone ==
    ASSUME IInv, NEW r \in Requests, At(r, "write"), req[r].since = commits,
           req[r].call.kind # "create", NEW f \in Fields
    PROVE  Written(req[r])[f] = IF Set(f, req[r].call.patch) THEN req[r].call.patch[f]
                                ELSE row[req[r].call.target][f]
<1> DEFINE q == req[r]
           u == q.call.target
<1>1. q.loaded = row[u]
    BY DEF IInv, RequestOK, Session, HasLoaded, At
<1>2. q.call.kind = "me" => q.copy.row = row[u]
  <2>1. q.call \in Calls /\ CopyOK(q.copy, q.call.actor) /\ (q.call.kind = "me" => q.since = q.copy.at)
    BY DEF IInv, RequestOK, Authenticated, At
  <2> QED
    BY <2>1, UserAssumption DEF CopyOK
<1>3. Merged(q)[f] = IF Set(f, q.call.patch) THEN q.call.patch[f] ELSE row[u][f]
    BY <1>1, <1>2, MergedField
<1> QED
    BY <1>1, <1>3, WrittenField

\* No update is lost but to an old copy.  An UPDATE sets the columns that differ
\* from the row its session holds: for /{id} those the request sets, and for /me
\* too if the copy it merges is of the row as it is.
THEOREM NothingLost == Spec => LostOnlyToOldCopies
<1>1. IInv /\ [Next]_vars => [NothingForeign]_vars
  <2> SUFFICES ASSUME IInv, [Next]_vars, NEW r \in Requests, Commits(r),
                      Kind(r) = "id" \/ (Kind(r) = "me" /\ req[r].since = commits),
                      NEW f \in Fields, ~Set(f, req[r].call.patch)
               PROVE  row'[req[r].call.target][f] = row[req[r].call.target][f]
      BY DEF NothingForeign, Foreign
  <2> DEFINE q == req[r]
             u == q.call.target
  <2>1. Write(r) /\ At(r, "write")
    BY CommitIsWrite DEF Commits
  <2>2. row' = [row EXCEPT ![u] = Written(q)] /\ u \in Users /\ row \in [Users -> Row]
    BY <2>1, RequestParts DEF Write, Kind, IInv, TypeOK
  <2>3. Written(q)[f] = row[u][f]
    <3>1. CASE Kind(r) = "id"
      <4>1. Merged(q)[f] = q.loaded[f]
        BY <3>1, MergedField DEF Kind
      <4> QED
        BY <3>1, <4>1, WrittenField DEF Kind
    <3>2. CASE Kind(r) = "me" /\ req[r].since = commits
      BY <2>1, <3>2, WrittenAlone DEF Kind
    <3> QED
      BY <3>1, <3>2
  <2> QED
    BY <2>2, <2>3
<1> QED
    BY <1>1, InvInit, InvStep, PTL DEF Spec, LostOnlyToOldCopies

\* Whoever is alone is never answered by a constraint.  What check_login_* and
\* check_unique_fields have seen still holds when the statement runs, so it keeps
\* a contact and takes no value of another row.
THEOREM ChecksSuffice == Spec => ConflictsOnlyFromRaces
<1>1. IInv /\ [Next]_vars => [ConflictIsRace]_vars
  <2> SUFFICES ASSUME IInv, [Next]_vars, NEW r \in Requests, At(r, "write"),
                      req'[r].pc = "conflict", ~(req[r].since < commits)
               PROVE  FALSE
      BY DEF ConflictIsRace
  <2> DEFINE q == req[r]
             c == q.call
             new == Written(q)
  <2>1. /\ RequestOK(q) /\ q.since = commits /\ q.pc = "write" /\ q.todo = {} /\ c \in Call
        /\ c.target \in Users /\ c.kind \in Kinds
    <3>1. TypeOK /\ commits \in Nat /\ q.pc = "write" /\ RequestOK(q)
      BY DEF IInv, TypeOK, At
    <3>2. c \in Call /\ c.target \in Users /\ c.kind \in Kinds /\ q.since \in Nat
      BY <3>1, RequestParts
    <3>3. q.since <= commits /\ q.todo = {}
      BY <3>1 DEF RequestOK, Session
    <3> QED
      BY <3>1, <3>2, <3>3
  <2>2. WriteFails(r)
    BY OwnStep, Outcomes DEF IInv, At
  <2>3. ~HasContact(new) \/ Clash(row, Others(c), new)
    <3>1. ~End(r, "invalid")
      BY EndType, BlankType DEF IInv, Places
    <3> QED
      BY <2>2, <3>1 DEF WriteFails
  <2>4. \A f \in Uniques, v \in Others(c) : Given(f, c.patch) => row[v][f] # c.patch[f]
    BY <2>1 DEF RequestOK, Validated
  <2>5. CASE c.kind = "create"
    <3>1. \A f \in Uniques : new[f] = (IF Set(f, c.patch) THEN c.patch[f] ELSE Null)
      BY <2>5, WrittenField, FieldFacts DEF Defaults
    <3>2. HasContact(new)
      <4>1. HasContact(Patched(NoRow, c.patch))
        BY <2>1, <2>5 DEF RequestOK, Validated, LoginLeft
      <4> QED
        BY <3>1, <4>1, FieldFacts DEF HasContact, Patched, NoRow
    <3>3. ~Clash(row, Others(c), new)
      BY <2>4, <3>1 DEF Clash, Given, Set
    <3> QED
      BY <2>3, <3>2, <3>3
  <2>6. CASE c.kind # "create"
    <3>1. \A f \in Uniques : new[f] = (IF Set(f, c.patch) THEN c.patch[f] ELSE row[c.target][f])
      BY <2>1, <2>6, WrittenAlone, FieldFacts
    <3>2. HasContact(new)
      <4>1. HasContact(Patched(row[c.target], c.patch))
        <5>1. CASE c.kind = "id"
          BY <2>1, <5>1 DEF RequestOK, Validated, LoginLeft, Session, HasLoaded
        <5>2. CASE c.kind = "me"
          <6>1. q.copy.row = row[c.target]
            BY <2>1, <5>2, UserAssumption DEF RequestOK, Authenticated, CopyOK
          <6> QED
            BY <2>1, <5>2, <6>1 DEF RequestOK, Validated, LoginLeft
        <5> QED
          BY <2>1, <2>6, <5>1, <5>2 DEF Kinds
      <4> QED
        BY <3>1, <4>1, FieldFacts DEF HasContact, Patched
    <3>3. ~Clash(row, Others(c), new)
      <4>1. Others(c) = Users \ {c.target}
        BY <2>6 DEF Others
      <4>2. ~Clash(row, Users \ {c.target}, row[c.target])
        BY <2>1 DEF IInv, RowsOK
      <4> QED
        BY <2>4, <3>1, <4>1, <4>2 DEF Clash, Given, Set
    <3> QED
      BY <2>3, <3>2, <3>3
  <2> QED
    BY <2>5, <2>6
<1> QED
    BY <1>1, InvInit, InvStep, PTL DEF Spec, ConflictsOnlyFromRaces

\* A new role or status is given by an administrator.  Copies, of any age and
\* from the cache or the table, hold only what their user has had; what is new
\* comes from a body that check_permission_for_update_user let pass.
THEOREM RolesGiven == Spec => NewRolesFromAdmins
<1>1. IInv /\ [Next]_vars => [NewIsGiven]_vars
  <2> SUFFICES ASSUME IInv, [Next]_vars, NEW u \in Users, NEW f \in USER_UPDATE_RULES,
                      Exists(u), row'[u][f] \notin had[u][f]
               PROVE  GivenByAdmin(u, f)
      BY DEF NewIsGiven
  <2>1. row[u][f] \in had[u][f] /\ TypeOK
    BY DEF IInv, RowsOK
  <2>2. PICK r \in Requests : Write(r)
    <3>1. row' # row
      BY <2>1
    <3> QED
      BY <3>1 DEF Next, Quiet, vars, Table, Start, Hit, AuthLoad, AuthStore, Check, CheckUnique,
                  Proceed, WriteFails, RefreshLoad, RefreshStore, Expire, Clean
  <2> DEFINE q == req[r]
             c == q.call
             new == Written(q)
  <2>3. PICK w \in Users : /\ IF c.kind = "create" THEN ~Exists(w) ELSE w = c.target
                           /\ row' = [row EXCEPT ![w] = new]
    BY <2>2 DEF Write
  <2>4. w = u /\ row'[u][f] = new[f] /\ c.kind # "create" /\ c.target = u
    BY <2>1, <2>3 DEF TypeOK
  <2>5. RequestOK(q) /\ q.pc = "write" /\ c \in Call /\ c.kind \in Kinds /\ new \in Row
    BY <2>1, <2>2, RequestParts, WrittenType DEF IInv, Write, At
  <2>6. f \in Fields /\ new[f] # Null
    BY <2>2, FieldFacts DEF Write, NotNull
  <2>7. q.loaded[f] \in had[u][f]
    BY <2>4, <2>5 DEF RequestOK, Session, HasLoaded
  <2>8. Set(f, c.patch) => Given(f, c.patch)
    <3>1. CASE Set(f, c.patch) /\ c.patch[f] = Null
      <4>1. Merged(q)[f] = Null
        BY <2>6, <3>1, MergedField
      <4>2. new[f] = row[u][f]
        BY <2>4, <2>6, <4>1, WrittenField
      <4> QED
        BY <2>1, <2>4, <4>2
    <3> QED
      BY <3>1 DEF Set, Given
  <2>9. CASE Given(f, c.patch)
    <3>1. Permitted(c, q.copy.row)
      BY <2>4, <2>5 DEF RequestOK, Validated, Kinds
    <3>2. q.copy.row["role"] = "ADMIN" /\ c.actor # c.target
      BY <2>9, <3>1 DEF Permitted
    <3>3. c.kind = "id"
      BY <2>4, <2>5, <3>2, UserAssumption DEF RequestOK, Kinds
    <3>4. "ADMIN" \in had[c.actor]["role"]
      BY <2>5, <3>2, <3>3, FieldFacts DEF RequestOK, Authenticated, CopyOK
    <3>5. Commits(r)
      BY <2>1, <2>2, <2>5, Outcomes DEF Commits, At
    <3> QED
      BY <2>4, <2>9, <3>2, <3>3, <3>4, <3>5 DEF GivenByAdmin
  <2>10. CASE ~Given(f, c.patch)
    <3>1. Merged(q)[f] = IF c.kind = "me" /\ f \in Held(q.copy) THEN q.copy.row[f] ELSE q.loaded[f]
      BY <2>6, <2>8, <2>10, MergedField
    <3>2. c.kind = "me" => q.copy.row[f] \in had[u][f]
      BY <2>4, <2>5, UserAssumption DEF RequestOK, Authenticated, CopyOK
    <3>3. new[f] \in had[u][f]
      BY <2>1, <2>4, <2>6, <2>7, <3>1, <3>2, WrittenField
    <3> QED
      BY <2>4, <3>3
  <2> QED
    BY <2>9, <2>10
<1> QED
    BY <1>1, InvInit, InvStep, PTL DEF Spec, NewRolesFromAdmins
=============================================================================
