---------------------------- MODULE UserAccounts ----------------------------
(***************************************************************************)
(* The rows of users: registration, PATCH /users/me and PATCH /users/{id}  *)
(* (api/services/user.py, api/validators/user.py, crud/user.py), and the   *)
(* copy of the current user that the authentication keeps in the SWR cache *)
(* (middleware/auth/auth_middleware.py) and update_current_user merges     *)
(* into its session.                                                       *)
(*                                                                         *)
(* Every SELECT, every write and every access to the cache is a step of    *)
(* its own.  The cached user is one entry here, which may be stored,       *)
(* deleted or expire; SwrCache models the keys it is made of.              *)
(***************************************************************************)
EXTENDS Integers

CONSTANTS
    Users,      \* ids, of the users there are and of those to be registered
    Values,     \* what the columns hold
    Requests,   \* bound: how many requests are sent
    Calls,      \* bound: what a request may ask for
    Initial,    \* the rows at the start
    Null, Unset \* None, and a field the request's body does not mention

Fields == {"username", "email", "phone", "password", "tg_id", "role", "is_active"}
UNIQUE_USER_FIELDS == <<"username", "email", "phone", "tg_id">>
Uniques  == {UNIQUE_USER_FIELDS[i] : i \in 1..4}
Contacts == {"email", "phone"}       \* CHECK check_user_has_contact
Required == Fields \ {"email", "phone", "tg_id"}     \* NOT NULL
USER_UPDATE_RULES == {"role", "is_active"}

Row   == [Fields -> Values \cup {Null}]
Patch == [Fields -> Values \cup {Null, Unset}]
NoRow == [f \in Fields |-> Null]
Kinds == {"create", "me", "id"}
Call  == [kind : Kinds, actor : Users, target : Users, patch : Patch]

\* What the table's constraints say of a row, and of it and the rows of others.
NotNull(new)       == \A f \in Required : new[f] # Null
HasContact(new)    == \E f \in Contacts : new[f] # Null
Clash(rows, others, new) == \E v \in others, f \in Uniques : new[f] # Null /\ rows[v][f] = new[f]

ASSUME UserAssumption ==
    /\ {Null, Unset} \cap Values = {} /\ Null # Unset
    /\ {"ADMIN", "MANAGER", "USER", "true"} \subseteq Values
    /\ Calls \subseteq Call /\ Calls # {}
    \* The schemas: UserCreate has no role and no is_active, /me has one user.
    /\ \A c \in Calls :
        /\ c.kind = "create" => \A f \in USER_UPDATE_RULES : c.patch[f] = Unset
        /\ c.kind = "me" => c.actor = c.target
    /\ Initial \in [Users -> Row]
    /\ \A u \in Users : Initial[u] # NoRow =>
        /\ NotNull(Initial[u]) /\ HasContact(Initial[u]) /\ ~Clash(Initial, Users \ {u}, Initial[u])

VARIABLES
    row,        \* table users; NoRow for an id not given yet
    cache,      \* auth:<id>, or NoCopy
    refresh,    \* the background refresh of auth:<id>
    cleaning,   \* how many tasks are to delete auth:<id>
    req,        \* the requests
    commits,    \* history: writes to the table
    had         \* history: what role and is_active of a user have ever been

vars == <<row, cache, refresh, cleaning, req, commits, had>>

\* A user in memory.  `orm`: loaded from the table; otherwise restored from
\* UserResponse, which has no password.  `at` is history: when it was read.
Copy   == [row : Row, at : Nat, orm : BOOLEAN]
NoCopy == [row |-> NoRow, at |-> 0, orm |-> FALSE]
Fresh(u) == [row |-> row[u], at |-> commits, orm |-> TRUE]
\* Defect: the object is cached as it is.
SerializedWhole(c) == c
Serialized(c) == [c EXCEPT !.orm = FALSE]
Cached == [row : Row, at : Nat, orm : {FALSE}]
Held(c) == IF c.orm THEN Fields ELSE Fields \ {"password"}

\* Where a request is, and how it ended.
Places == {"idle", "auth", "store", "check", "unique", "write",
           "refused", "invalid", "conflict", "done"}
Request == [pc : Places, call : Call,
            copy : Copy,             \* request.state.user
            loaded : Row,            \* the target's row in the session, or NoRow
            todo : SUBSET Uniques,   \* check_unique_fields: fields left to look up
            since : Nat]             \* history: when the oldest of what it works with was read

\* A request that has nothing in memory.
Blank(place) == [pc |-> place, call |-> CHOOSE c \in Calls : TRUE, copy |-> NoCopy,
                 loaded |-> NoRow, todo |-> {}, since |-> 0]

Exists(u) == row[u] # NoRow
Set(f, patch)   == patch[f] # Unset               \* model_dump(exclude_unset=True)
Given(f, patch) == patch[f] \notin {Unset, Null}  \* getattr(..., None) is not None
Patched(base, patch) == [f \in Fields |-> IF Set(f, patch) THEN patch[f] ELSE base[f]]

Init ==
    /\ row = Initial
    /\ cache = [u \in Users |-> NoCopy]
    /\ refresh = [u \in Users |-> [stage |-> "idle", copy |-> NoCopy]]
    /\ req = [r \in Requests |-> Blank("idle")]
    /\ cleaning = [u \in Users |-> 0]
    /\ commits = 0
    /\ had = [u \in Users |-> [f \in USER_UPDATE_RULES |-> {Initial[u][f]}]]

At(r, place) == req[r].pc = place
Becomes(r, q) == req' = [req EXCEPT ![r] = q]
End(r, outcome) == Becomes(r, Blank(outcome))
Table == <<row, commits, had>>

-----------------------------------------------------------------------------
(* AuthMiddleware.dispatch                                                 *)

\* Registration needs no user; tokens are of users there are.
Start(r) == \E c \in Calls :
    /\ At(r, "idle")
    /\ c.kind # "create" => Exists(c.actor)
    /\ Becomes(r, [req[r] EXCEPT !.call = c, !.since = commits,
                          !.pc = IF c.kind = "create" THEN "check" ELSE "auth"])
    /\ UNCHANGED <<Table, cache, refresh, cleaning>>

\* The cached user; a stale one is refreshed behind the answer.
Hit(r) == LET u == req[r].call.actor IN
    /\ At(r, "auth")
    /\ cache[u] # NoCopy
    /\ Becomes(r, [req[r] EXCEPT !.pc = "check", !.copy = cache[u], !.since = cache[u].at])
    /\ \/ UNCHANGED refresh
       \/ refresh[u].stage = "idle" /\ refresh' = [refresh EXCEPT ![u].stage = "asked"]
    /\ UNCHANGED <<Table, cache, cleaning>>

\* Nothing cached, or Redis does not answer: get_user reads the table ...
AuthLoad(r) == LET u == req[r].call.actor IN
    /\ At(r, "auth")
    /\ Becomes(r, [req[r] EXCEPT !.pc = "store", !.copy = Fresh(u), !.since = commits])
    /\ UNCHANGED <<Table, cache, refresh, cleaning>>

\* ... and the result is cached, unless Redis does not answer or another holds the lock.
AuthStore(r) == LET u == req[r].call.actor IN
    /\ At(r, "store")
    /\ Becomes(r, [req[r] EXCEPT !.pc = "check"])
    /\ \/ cache' = [cache EXCEPT ![u] = Serialized(req[r].copy)]
       \/ UNCHANGED cache
    /\ UNCHANGED <<Table, refresh, cleaning>>

RefreshLoad(u) ==
    /\ refresh[u].stage = "asked"
    /\ refresh' = [refresh EXCEPT ![u] = [stage |-> "loaded", copy |-> Fresh(u)]]
    /\ UNCHANGED <<Table, cache, req, cleaning>>

RefreshStore(u) ==
    /\ refresh[u].stage = "loaded"
    /\ refresh' = [refresh EXCEPT ![u] = [stage |-> "idle", copy |-> NoCopy]]
    /\ \/ cache' = [cache EXCEPT ![u] = Serialized(refresh[u].copy)]
       \/ UNCHANGED cache
    /\ UNCHANGED <<Table, req, cleaning>>

Expire(u) ==
    /\ cache[u] # NoCopy
    /\ cache' = [cache EXCEPT ![u] = NoCopy]
    /\ UNCHANGED <<Table, refresh, req, cleaning>>

-----------------------------------------------------------------------------
(* The validators                                                          *)

\* Defect: managers pass as well.
PermittedToManagers(c, user) == \A f \in USER_UPDATE_RULES :
    Given(f, c.patch) => user["role"] \in {"ADMIN", "MANAGER"} /\ c.actor # c.target

\* check_permission_for_update_user
Permitted(c, user) == \A f \in USER_UPDATE_RULES :
    Given(f, c.patch) => user["role"] = "ADMIN" /\ c.actor # c.target

\* Defect: only the fields the body sets are looked at, not those it empties.
LoginLeftIgnoringNulls(base, patch) == \E f \in Contacts : Given(f, patch) \/ base[f] # Null

\* check_login_exists, check_login_after_update
LoginLeft(base, patch) == HasContact(Patched(base, patch))

\* What the request checks before it asks for other users' data: of registration
\* nothing but the login, of /me the copy, of /{id} the rights and the target's row.
Admitted(c, user, target) ==
    /\ c.kind = "create" => LoginLeft(NoRow, c.patch)
    /\ c.kind = "me" => Permitted(c, user) /\ LoginLeft(user, c.patch)
    /\ c.kind = "id" =>
        /\ user["role"] \in {"ADMIN", "MANAGER"}   \* AdminOrManagerDep
        /\ target # NoRow                          \* get_user_or_404
        /\ Permitted(c, user)
        /\ LoginLeft(target, c.patch)

Admits(r) == Admitted(req[r].call, req[r].copy.row, row[req[r].call.target])

\* /{id} reads the target's row into the session; from here on nothing is older.
Check(r) == LET c == req[r].call
                byId == c.kind = "id" IN
    /\ At(r, "check")
    /\ \/ ~Admits(r) /\ End(r, "refused")
       \/ /\ Admits(r)
          /\ Becomes(r, [req[r] EXCEPT
                !.pc = "unique",
                !.loaded = IF byId THEN row[c.target] ELSE NoRow,
                !.since = IF byId THEN commits ELSE req[r].since,
                !.todo = {f \in Uniques : Given(f, c.patch)}])
    /\ UNCHANGED <<Table, cache, refresh, cleaning>>

\* existing_user.id != user_id; a registration has no user_id.
Others(c) == IF c.kind = "create" THEN Users ELSE Users \ {c.target}

\* One SELECT of check_unique_fields.  Finding the target itself leaves its row
\* in the session, where the first row read of an identity stays, for /me only
\* until the object, which nothing else refers to, is collected as garbage.
CheckUnique(r) == LET c == req[r].call IN \E i \in 1..4 :
    LET f == UNIQUE_USER_FIELDS[i]
        taken == \E v \in Others(c) : row[v][f] = c.patch[f]
        found == c.kind # "create" /\ row[c.target][f] = c.patch[f]
        first == IF req[r].loaded = NoRow /\ found THEN row[c.target] ELSE req[r].loaded
    IN
    /\ At(r, "unique")
    /\ f \in req[r].todo
    /\ \A j \in 1..(i - 1) : UNIQUE_USER_FIELDS[j] \notin req[r].todo
    /\ \/ taken /\ End(r, "refused")
       \/ /\ ~taken
          /\ \E kept \in IF c.kind = "me" THEN {first, NoRow} ELSE {first} :
                Becomes(r, [req[r] EXCEPT !.todo = @ \ {f}, !.loaded = kept])
    /\ UNCHANGED <<Table, cache, refresh, cleaning>>

-----------------------------------------------------------------------------
(* The writes                                                              *)

\* After the checks: /me looks its row up for session.merge, /{id} starts the
\* invalidation of the cached target.  A registration's touches only the list.
Proceed(r) == LET c == req[r].call IN
    /\ At(r, "unique")
    /\ req[r].todo = {}
    /\ Becomes(r, [req[r] EXCEPT
          !.pc = "write",
          !.loaded = IF c.kind = "me" /\ @ = NoRow THEN row[c.target] ELSE @])
    /\ cleaning' = IF c.kind = "id" THEN [cleaning EXCEPT ![c.target] = @ + 1] ELSE cleaning
    /\ UNCHANGED <<Table, cache, refresh>>

Defaults == [f \in Fields |-> IF f = "role" THEN "USER" ELSE IF f = "is_active" THEN "true" ELSE Null]

\* What the attributes of the object are at the flush: session.merge has copied
\* the current user's over the loaded row, and setattr the request's over those.
Merged(q) ==
    Patched([f \in Fields |-> IF q.call.kind = "me" /\ f \in Held(q.copy) THEN q.copy.row[f]
                              ELSE q.loaded[f]],
            q.call.patch)

\* Defect: the statement sets every column.
WrittenWhole(q) ==
    IF q.call.kind = "create" THEN Patched(Defaults, q.call.patch) ELSE Merged(q)

\* The row after the INSERT, or after the UPDATE, which sets the columns that
\* differ from the loaded row.
Written(q) ==
    IF q.call.kind = "create" THEN Patched(Defaults, q.call.patch)
    ELSE [f \in Fields |-> IF Merged(q)[f] = q.loaded[f] THEN row[q.call.target][f] ELSE Merged(q)[f]]

\* The table's constraints refuse the statement: the client sees a 500.
WriteFails(r) == LET new == Written(req[r]) IN
    /\ At(r, "write")
    /\ \/ ~NotNull(new) /\ End(r, "invalid")
       \/ /\ NotNull(new)
          /\ ~HasContact(new) \/ Clash(row, Others(req[r].call), new)
          /\ End(r, "conflict")
    /\ UNCHANGED <<Table, cache, refresh, cleaning>>

\* Flush and commit, of a new row under any free id or of the target's; after
\* it, /me starts the invalidation.
Write(r) == LET c == req[r].call
                new == Written(req[r]) IN \E u \in Users :
    /\ At(r, "write")
    /\ IF c.kind = "create" THEN ~Exists(u) ELSE u = c.target
    /\ NotNull(new) /\ HasContact(new) /\ ~Clash(row, Others(c), new)
    /\ row' = [row EXCEPT ![u] = new]
    /\ commits' = commits + 1
    /\ had' = [had EXCEPT ![u] = [f \in USER_UPDATE_RULES |-> @[f] \cup {new[f]}]]
    /\ cleaning' = IF c.kind = "me" THEN [cleaning EXCEPT ![u] = @ + 1] ELSE cleaning
    /\ End(r, "done")
    /\ UNCHANGED <<cache, refresh>>

\* A background task of delete_key_swr_background; Redis may not answer.
Clean(u) ==
    /\ cleaning[u] > 0
    /\ cleaning' = [cleaning EXCEPT ![u] = @ - 1]
    /\ \/ cache' = [cache EXCEPT ![u] = NoCopy]
       \/ UNCHANGED cache
    /\ UNCHANGED <<Table, refresh, req>>

\* All requests have been sent and answered: the end of a bounded behaviour.
Ended == {"refused", "invalid", "conflict", "done"}
Quiet == (\A r \in Requests : req[r].pc \in Ended) /\ UNCHANGED vars

Next ==
    \/ \E r \in Requests :
        \/ Start(r) \/ Hit(r) \/ AuthLoad(r) \/ AuthStore(r) \/ Check(r) \/ CheckUnique(r)
        \/ Proceed(r) \/ WriteFails(r) \/ Write(r)
    \/ \E u \in Users : RefreshLoad(u) \/ RefreshStore(u) \/ Expire(u) \/ Clean(u)
    \/ Quiet

Spec == Init /\ [][Next]_vars

-----------------------------------------------------------------------------
(* Properties                                                              *)

\* Everything keeps its type; what is cached is a user without the password.
TypeOK ==
    /\ row \in [Users -> Row]
    /\ cache \in [Users -> Cached]
    /\ refresh \in [Users -> [stage : {"idle", "asked", "loaded"}, copy : Copy]]
    /\ cleaning \in [Users -> Nat]
    /\ req \in [Requests -> Request]
    /\ commits \in Nat
    /\ had \in [Users -> [USER_UPDATE_RULES -> SUBSET (Values \cup {Null})]]

Kind(r) == req[r].call.kind
Commits(r) == At(r, "write") /\ req'[r].pc = "done"

\* The fields of `target` that a step changes and the request r did not ask for.
Foreign(r) == LET c == req[r].call IN
    {f \in Fields : ~Set(f, c.patch) /\ row'[c.target][f] # row[c.target][f]}

\* No update is lost but to an old copy: PATCH /users/{id}, whatever it overlaps
\* with, changes the fields it was sent and no other; so does PATCH /users/me
\* unless the table was written after the current user's copy was read.
NothingForeign == \A r \in Requests :
    Commits(r) /\ (Kind(r) = "id" \/ (Kind(r) = "me" /\ req[r].since = commits)) => Foreign(r) = {}
LostOnlyToOldCopies == [][NothingForeign]_vars

\* Whoever is alone is never answered by a constraint: the checks of contact
\* and uniqueness let nothing through that the database refuses, unless the
\* table was written after the request, or the copy it works with, was read.
ConflictIsRace == \A r \in Requests :
    At(r, "write") /\ req'[r].pc = "conflict" => req[r].since < commits
ConflictsOnlyFromRaces == [][ConflictIsRace]_vars

\* A role or a status that a user never had is given by another, who has been
\* an administrator, in a PATCH /users/{id}: neither the cache nor the merge of
\* an old copy gives anyone what was not given before.
GivenByAdmin(u, f) == \E r \in Requests : LET c == req[r].call IN
    /\ Commits(r) /\ c.kind = "id" /\ c.target = u /\ c.actor # u /\ Given(f, c.patch)
    /\ "ADMIN" \in had[c.actor]["role"]
NewIsGiven == \A u \in Users, f \in USER_UPDATE_RULES :
    Exists(u) /\ row'[u][f] \notin had[u][f] => GivenByAdmin(u, f)
NewRolesFromAdmins == [][NewIsGiven]_vars

\* What validators/user.py:74-75 says of check_permission_for_update_user: nobody
\* changes his own role or status.  The merge of an old copy does.
OwnRoleStays == [][\A r \in Requests : Commits(r) /\ Kind(r) = "me" =>
    \A f \in USER_UPDATE_RULES : row'[req[r].call.target][f] = row[req[r].call.target][f]]_vars
=============================================================================
