------------------------------ MODULE SwrCache ------------------------------
(***************************************************************************)
(* One key of the stale-while-revalidate cache: cache/swr_cache.py over    *)
(* cache/redis_client.py, and the invalidation of the key by its tag       *)
(* (cache/cleaner_cache.py) when the services write.                       *)
(*                                                                         *)
(* A request may be answered from Redis, may fill the cache itself, or may *)
(* wait for whoever holds the lock.  Refreshes of stale data, tagging and  *)
(* invalidation run as background tasks.  Every Redis command, and the     *)
(* call of the cached function, is a step of its own; each command may     *)
(* fail, and the process may die anywhere.  Time passes in ticks: a Redis  *)
(* key carries the ticks it has left, so time itself needs no bound.       *)
(***************************************************************************)
EXTENDS Integers

CONSTANTS
    Readers,    \* requests that read through the cache
    Tasks,      \* bound: asyncio tasks running at a time
    TTL, Stale, \* ttl and stale_ttl, in ticks
    Delay,      \* bound: ticks between reading the clock for created_at and its SET
    Retries,    \* lock_wait_retries
    MaxVersion, \* bound: writes to the data
    MaxFaults,  \* bound: Redis commands that fail
    Blank,      \* versions that are not cached: an empty list, or a 404
    CleanFirst, \* the service cleans the cache before its write (cafe, slot) or after it
    None        \* an absent key

Procs    == Readers \cup Tasks
Versions == 0..MaxVersion
Life     == TTL + Stale     \* ex of every SET

ASSUME SwrAssumption ==
    /\ Readers \cap Tasks = {}
    /\ TTL \in Nat \ {0} /\ Stale \in Nat /\ Delay \in Nat /\ Retries \in Nat
    /\ MaxVersion \in Nat /\ MaxFaults \in Nat
    /\ Blank \subseteq Versions /\ CleanFirst \in BOOLEAN
    /\ None \notin [left : 1..TTL + Stale]

VARIABLES
    version,    \* what the database holds: how often it was written
    value,      \* the cached data; `loose` is history, see Loosen
    stamp,      \* key created_at
    lock,       \* key lock
    tag,        \* the tag's set, which names the three keys, or None
    writer,     \* the writing service: "idle", or "second" between its two steps
    cleaned,    \* history: latest write whose invalidation has succeeded
    pc, data,   \* each process: where it is, and the data it has in hand
    tries,      \* polls a waiting reader has left
    floor,      \* history: what had been written and invalidated when a request came
    disturbed,  \* history: a lock expired or was invalidated during the refresh under it
    faults,     \* Redis commands that have failed
    answer      \* the answer the last step gave, or None

redis == <<value, stamp, lock, tag>>
vars  == <<version, redis, writer, cleaned, pc, data, tries, floor, disturbed, faults, answer>>

\* Where a process can be: the await it comes to next.
Places == {"idle", "get", "age", "lock", "fetch", "store", "stamp", "tag", "release", "call",
           "wait", "reget", "tagOnly", "members", "unlink", "unlinkTag"}

Optional(S) == {None} \cup S
Data == [ver : Versions, loose : BOOLEAN]
ValueKey == [ver : Versions, left : 1..Life, loose : BOOLEAN]
StampKey == [age : 0..Life + Delay, left : 1..Life]
PlainKey == [left : 1..Life]
NoData == [ver |-> 0, loose |-> FALSE]

\* The writes that are both committed and invalidated.
Settled == IF cleaned < version THEN cleaned ELSE version

Init ==
    /\ version = 0 /\ writer = "idle" /\ cleaned = 0
    /\ value = None /\ stamp = None /\ lock = None /\ tag = None
    /\ pc = [p \in Procs |-> "idle"]
    /\ data = [p \in Procs |-> NoData]
    /\ tries = [r \in Readers |-> 0]
    /\ floor = [r \in Readers |-> 0]
    /\ disturbed = FALSE /\ faults = 0 /\ answer = None

-----------------------------------------------------------------------------
(* Pieces of steps.                                                        *)

\* Every command of RedisClient catches its errors; the caller sees None or False.
Command(ok) == IF ok THEN UNCHANGED faults
               ELSE faults < MaxFaults /\ faults' = faults + 1

Goto(p, l) == pc' = [pc EXCEPT ![p] = l]

\* What a process knew goes with it.
Forget(p) ==
    /\ data' = [data EXCEPT ![p] = NoData]
    /\ tries' = [r \in Readers |-> IF r = p THEN 0 ELSE tries[r]]
    /\ floor' = [r \in Readers |-> IF r = p THEN 0 ELSE floor[r]]

Stop(p) == Goto(p, "idle") /\ Forget(p)

Answer(r, d) == answer' = [ver |-> d.ver, loose |-> d.loose, floor |-> floor[r]]
Silent == answer' = None

\* asyncio.create_task
Idle == {k \in Tasks : pc[k] = "idle"}
Task == CHOOSE k \in Idle : TRUE   \* any of them: idle tasks are alike

\* A process that holds the lock, or believes it does.
Refreshing(p) == pc[p] \in {"fetch", "store", "stamp", "tag", "release"}

\* History: data that the coming or current invalidation may miss.
Cleaning == \E k \in Tasks : pc[k] \in {"unlink", "unlinkTag"}
Untagged == \E p \in Procs : pc[p] \in {"stamp", "tag", "tagOnly"}
Loosen(v, c) == IF v = None THEN None ELSE [v EXCEPT !.loose = @ \/ c]

-----------------------------------------------------------------------------
(* get_or_update                                                           *)

Start(r) ==
    /\ pc[r] = "idle"
    /\ Goto(r, "get")
    /\ floor' = [floor EXCEPT ![r] = Settled]
    /\ Silent
    /\ UNCHANGED <<version, redis, writer, cleaned, data, tries, disturbed, faults>>

\* GET of the value.  An unavailable Redis (is_available) means a plain call.
Get(r) ==
    /\ pc[r] = "get"
    /\ \/ Command(TRUE) /\ value # None
          /\ Goto(r, "age")
          /\ data' = [data EXCEPT ![r] = [ver |-> value.ver, loose |-> value.loose]]
       \/ Command(TRUE) /\ value = None /\ Goto(r, "lock") /\ UNCHANGED data
       \/ Command(FALSE) /\ (Goto(r, "lock") \/ Goto(r, "call")) /\ UNCHANGED data
    /\ Silent
    /\ UNCHANGED <<version, redis, writer, cleaned, tries, floor, disturbed>>

\* A value without its stamp counts as just created.
Age == IF stamp = None THEN 0 ELSE stamp.age

\* Fresh: answer.  Stale: answer, and refresh in the background.  Old: refresh first.
GetAge(r) ==
    /\ pc[r] = "age"
    /\ \E ok \in BOOLEAN : Command(ok) /\
        LET age == IF ok THEN Age ELSE 0
        IN  \/ /\ age < TTL
               /\ Stop(r) /\ Answer(r, data[r])
            \/ /\ TTL <= age /\ age < Life /\ Idle # {}
               /\ pc' = [pc EXCEPT ![r] = "idle", ![Task] = "lock"]
               /\ Forget(r) /\ Answer(r, data[r])
            \/ /\ age >= Life
               /\ Goto(r, "lock")
               /\ data' = [data EXCEPT ![r] = NoData]
               /\ Silent /\ UNCHANGED <<tries, floor>>
    /\ UNCHANGED <<version, redis, writer, cleaned, disturbed>>

-----------------------------------------------------------------------------
(* _sync_update and _background_update                                     *)

\* Mutant of Lock: SET without NX.
LockAlways(p) ==
    /\ pc[p] = "lock"
    /\ \/ /\ Command(TRUE)
          /\ lock' = [left |-> Life]
          /\ disturbed' = (disturbed /\ \E q \in Procs : Refreshing(q))
          /\ Goto(p, "fetch") /\ UNCHANGED <<data, tries, floor>>
       \/ /\ Command(FALSE)
          /\ \/ p \in Tasks /\ Stop(p)
             \/ p \in Readers /\ Goto(p, "wait") /\ tries' = [tries EXCEPT ![p] = Retries]
                /\ UNCHANGED <<data, floor>>
          /\ UNCHANGED <<lock, disturbed>>
    /\ Silent
    /\ UNCHANGED <<version, value, stamp, tag, writer, cleaned>>

\* SET NX EX of the lock.  A failed command looks like a lock that is taken: the
\* background task gives up, the request waits.
Lock(p) ==
    /\ pc[p] = "lock"
    /\ \/ /\ Command(TRUE) /\ lock = None
          /\ lock' = [left |-> Life]
          /\ disturbed' = (disturbed /\ \E q \in Procs : Refreshing(q))
          /\ Goto(p, "fetch") /\ UNCHANGED <<data, tries, floor>>
       \/ /\ Command(lock # None)
          /\ \/ p \in Tasks /\ Stop(p)
             \/ p \in Readers /\ Goto(p, "wait") /\ tries' = [tries EXCEPT ![p] = Retries]
                /\ UNCHANGED <<data, floor>>
          /\ UNCHANGED <<lock, disturbed>>
    /\ Silent
    /\ UNCHANGED <<version, value, stamp, tag, writer, cleaned>>

\* The cached function reads the database.  What is empty, or raises, is not stored.
Fetch(p) ==
    /\ pc[p] = "fetch"
    /\ data' = [data EXCEPT ![p] = [ver |-> version, loose |-> FALSE]]
    /\ Goto(p, IF version \in Blank THEN "release" ELSE "store")
    /\ Silent
    /\ UNCHANGED <<version, redis, writer, cleaned, tries, floor, disturbed, faults>>

\* _set_cache, first SET.
Store(p) ==
    /\ pc[p] = "store"
    /\ \/ /\ Command(TRUE)
          /\ value' = [ver |-> data[p].ver, left |-> Life, loose |-> data[p].loose \/ Cleaning]
          /\ Goto(p, "stamp")
       \/ Command(FALSE) /\ Goto(p, "release") /\ UNCHANGED value
    /\ Silent
    /\ UNCHANGED <<version, stamp, lock, tag, writer, cleaned, data, tries, floor, disturbed>>

\* Mutant of Stamp: the background refresh leaves the tags as they are.
StampUntagged(p) ==
    /\ pc[p] = "stamp"
    /\ \/ /\ Command(TRUE)
          /\ \E d \in 0..Delay : stamp' = [age |-> d, left |-> Life]
          /\ \/ p \in Tasks /\ Goto(p, "release")
             \/ /\ p \in Readers /\ Idle # {}
                /\ pc' = [pc EXCEPT ![p] = "release", ![Task] = "tagOnly"]
          /\ UNCHANGED value
       \/ /\ Command(FALSE)
          /\ Goto(p, "release")
          /\ value' = Loosen(value, TRUE) /\ UNCHANGED stamp
    /\ Silent
    /\ UNCHANGED <<version, lock, tag, writer, cleaned, data, tries, floor, disturbed>>

\* _set_cache, second SET: the time it was called at.  Only when both succeed are
\* the tags set: by the background task itself, for a request by a task of its own.
Stamp(p) ==
    /\ pc[p] = "stamp"
    /\ \/ /\ Command(TRUE)
          /\ \E d \in 0..Delay : stamp' = [age |-> d, left |-> Life]
          /\ \/ p \in Tasks /\ Goto(p, "tag")
             \/ /\ p \in Readers /\ Idle # {}
                /\ pc' = [pc EXCEPT ![p] = "release", ![Task] = "tagOnly"]
          /\ UNCHANGED value
       \/ /\ Command(FALSE)
          /\ Goto(p, "release")
          /\ value' = Loosen(value, TRUE) /\ UNCHANGED stamp
    /\ Silent
    /\ UNCHANGED <<version, lock, tag, writer, cleaned, data, tries, floor, disturbed>>

\* set_tags: SADD of the three keys and EXPIRE of the set.
Tag(k) ==
    /\ pc[k] \in {"tag", "tagOnly"}
    /\ \/ Command(TRUE) /\ tag' = [left |-> Life] /\ UNCHANGED value
       \/ Command(FALSE) /\ value' = Loosen(value, TRUE) /\ UNCHANGED tag
    /\ Goto(k, IF pc[k] = "tag" THEN "release" ELSE "idle")
    /\ Silent
    /\ UNCHANGED <<version, stamp, lock, writer, cleaned, data, tries, floor, disturbed>>

\* Whoever's lock it is by now, it is deleted.
Release(p) ==
    /\ pc[p] = "release"
    /\ Stop(p)
    /\ \/ Command(TRUE) /\ lock' = None
       \/ Command(FALSE) /\ UNCHANGED lock
    /\ IF p \in Readers THEN Answer(p, data[p]) ELSE Silent
    /\ UNCHANGED <<version, value, stamp, tag, writer, cleaned, disturbed>>

\* The caller without the cache: Redis unavailable, or the wait was in vain.
Call(r) ==
    /\ pc[r] = "call"
    /\ Stop(r)
    /\ Answer(r, [ver |-> version, loose |-> FALSE])
    /\ UNCHANGED <<version, redis, writer, cleaned, disturbed, faults>>

-----------------------------------------------------------------------------
(* The request that did not get the lock polls for a fresh value.          *)

\* Mutant of Poll: polls are not counted.
PollForever(r) ==
    /\ pc[r] = "wait"
    /\ \E ok \in BOOLEAN : Command(ok) /\
        Goto(r, IF (IF ok THEN Age ELSE 0) < TTL THEN "reget" ELSE "wait")
    /\ Silent
    /\ UNCHANGED <<version, redis, writer, cleaned, data, tries, floor, disturbed>>

\* Mutant of Poll: nothing ends the loop when the last poll is spent.
PollPastLast(r) ==
    /\ pc[r] = "wait"
    /\ tries' = [tries EXCEPT ![r] = @ - 1]
    /\ \E ok \in BOOLEAN : Command(ok) /\
        Goto(r, IF (IF ok THEN Age ELSE 0) < TTL THEN "reget" ELSE "wait")
    /\ Silent
    /\ UNCHANGED <<version, redis, writer, cleaned, data, floor, disturbed>>

Poll(r) ==
    /\ pc[r] = "wait"
    /\ IF tries[r] = 0 THEN Goto(r, "call") /\ UNCHANGED <<tries, faults>>
       ELSE /\ tries' = [tries EXCEPT ![r] = @ - 1]
            /\ \E ok \in BOOLEAN : Command(ok) /\
                Goto(r, IF (IF ok THEN Age ELSE 0) < TTL THEN "reget" ELSE "wait")
    /\ Silent
    /\ UNCHANGED <<version, redis, writer, cleaned, data, floor, disturbed>>

Reget(r) ==
    /\ pc[r] = "reget"
    /\ \/ Command(TRUE) /\ value # None
          /\ Stop(r) /\ Answer(r, value)
       \/ Command(value = None)
          /\ Goto(r, "wait") /\ Silent /\ UNCHANGED <<data, tries, floor>>
    /\ UNCHANGED <<version, redis, writer, cleaned, disturbed>>

-----------------------------------------------------------------------------
(* The service that writes, and delete_keys_by_tag.                        *)

Commit ==
    /\ writer = (IF CleanFirst THEN "second" ELSE "idle")
    /\ version < MaxVersion
    /\ version' = version + 1
    /\ writer' = (IF CleanFirst THEN "idle" ELSE "second")
    /\ Silent
    /\ UNCHANGED <<redis, cleaned, pc, data, tries, floor, disturbed, faults>>

\* clean_cache only starts a task.  data[k].ver is the write it is for (history).
Clean ==
    /\ writer = (IF CleanFirst THEN "idle" ELSE "second")
    /\ CleanFirst => version < MaxVersion
    /\ Idle # {}
    /\ writer' = (IF CleanFirst THEN "second" ELSE "idle")
    /\ Goto(Task, "members")
    /\ data' = [data EXCEPT ![Task].ver = IF CleanFirst THEN version + 1 ELSE version]
    /\ Silent
    /\ UNCHANGED <<version, redis, cleaned, tries, floor, disturbed, faults>>

\* History: whatever is being filled, or waits for its tag, races with the task.
Race(done) ==
    data' = [p \in Procs |-> IF p \in done THEN NoData
                             ELSE IF pc[p] = "store" THEN [data[p] EXCEPT !.loose = TRUE]
                             ELSE data[p]]

\* SMEMBERS of the tag.
Members(k) ==
    /\ pc[k] = "members"
    /\ \/ /\ Command(TRUE)
          /\ Goto(k, IF tag # None THEN "unlink" ELSE "unlinkTag")
          /\ value' = Loosen(value, Untagged)
          /\ Race({}) /\ UNCHANGED <<tries, floor>>
       \/ Command(FALSE) /\ Stop(k) /\ UNCHANGED value
    /\ Silent
    /\ UNCHANGED <<version, stamp, lock, tag, writer, cleaned, disturbed>>

\* One transaction: UNLINK of the members that were read, the lock among them, and
\* of the tag itself.
Unlink(k) ==
    /\ pc[k] \in {"unlink", "unlinkTag"}
    /\ \/ /\ Command(TRUE)
          /\ tag' = None
          /\ cleaned' = IF data[k].ver > cleaned THEN data[k].ver ELSE cleaned
          /\ IF pc[k] = "unlink"
             THEN /\ value' = None /\ stamp' = None /\ lock' = None
                  /\ disturbed' = (disturbed \/ (lock # None /\ \E p \in Procs : Refreshing(p)))
             ELSE /\ value' = Loosen(value, Untagged)
                  /\ UNCHANGED <<stamp, lock, disturbed>>
          /\ Goto(k, "idle") /\ Race({k}) /\ UNCHANGED <<tries, floor>>
       \/ Command(FALSE) /\ Stop(k) /\ UNCHANGED <<redis, cleaned, disturbed>>
    /\ Silent
    /\ UNCHANGED <<version, writer>>

-----------------------------------------------------------------------------
(* The environment.                                                        *)

\* Mutant of Elapse: the lock is set without EX.
ElapseLockStays(key) ==
    IF key = None THEN None
    ELSE IF key = lock THEN key
    ELSE IF key.left = 1 THEN None ELSE [key EXCEPT !.left = @ - 1]

\* Mutant of Elapse: the value is set without EX.
ElapseValueStays(key) ==
    IF key = None THEN None
    ELSE IF key = value THEN key
    ELSE IF key.left = 1 THEN None ELSE [key EXCEPT !.left = @ - 1]

\* Redis drops a key when its time is up.
Elapse(key) ==
    IF key = None \/ key.left = 1 THEN None ELSE [key EXCEPT !.left = @ - 1]

Tick ==
    /\ value' = Elapse(value)
    /\ stamp' = IF Elapse(stamp) = None THEN None ELSE [Elapse(stamp) EXCEPT !.age = @ + 1]
    /\ lock' = Elapse(lock)
    /\ tag' = Elapse(tag)
    /\ disturbed' = (disturbed \/ (lock # None /\ Elapse(lock) = None
                                   /\ \E p \in Procs : Refreshing(p)))
    /\ Silent
    /\ UNCHANGED <<version, writer, cleaned, pc, data, tries, floor, faults>>

\* A process dies, or is cancelled: no answer, no release, no tag.
Crash(p) ==
    /\ pc[p] # "idle"
    /\ Stop(p)
    /\ value' = Loosen(value, pc[p] \in {"stamp", "tag", "tagOnly"})
    /\ Silent
    /\ UNCHANGED <<version, stamp, lock, tag, writer, cleaned, disturbed, faults>>

\* The writer dies between its two steps.
WriterDies ==
    /\ writer = "second"
    /\ writer' = "idle"
    /\ Silent
    /\ UNCHANGED <<version, redis, cleaned, pc, data, tries, floor, disturbed, faults>>

\* The steps of a process that is running.
Run(p) ==
    \/ Lock(p) \/ Fetch(p) \/ Store(p) \/ Stamp(p) \/ Release(p)
    \/ p \in Readers /\ (Get(p) \/ GetAge(p) \/ Poll(p) \/ Reget(p) \/ Call(p))
    \/ p \in Tasks /\ (Tag(p) \/ Members(p) \/ Unlink(p))

Next ==
    \/ \E p \in Procs : Run(p) \/ Crash(p)
    \/ \E r \in Readers : Start(r)
    \/ Commit \/ Clean \/ WriterDies \/ Tick

Spec == Init /\ [][Next]_vars

\* The event loop runs every task it has, and time passes.  Nobody has to read,
\* write or crash.
FairSpec == Spec /\ WF_vars(Tick) /\ \A p \in Procs : WF_vars(Run(p))

-----------------------------------------------------------------------------
(* Properties.                                                             *)

\* The Redis keys and the processes' variables hold what the code puts there.
TypeOK ==
    /\ version \in Versions /\ cleaned \in Versions /\ faults \in 0..MaxFaults
    /\ value \in Optional(ValueKey) /\ stamp \in Optional(StampKey)
    /\ lock \in Optional(PlainKey) /\ tag \in Optional(PlainKey)
    /\ writer \in {"idle", "second"}
    /\ pc \in [Procs -> Places]
    /\ data \in [Procs -> Data]
    /\ tries \in [Readers -> 0..Retries] /\ floor \in [Readers -> Versions]
    /\ disturbed \in BOOLEAN
    /\ answer \in Optional([ver : Versions, loose : BOOLEAN, floor : Versions])

\* Invalidation works but for races: a cached value older than an invalidated write
\* was stored or tagged while an invalidation ran, or its tagging failed.
StaleOnlyFromRaces == value # None /\ value.ver < Settled => value.loose

\* The same as a client sees it: an answer older than what was written and
\* invalidated when the request came goes back to such a race.
AnswersOnlyStaleFromRaces == answer # None /\ answer.ver < answer.floor => answer.loose

\* Single flight: two processes refresh at once only after a lock has expired or been
\* invalidated under a refresh (whose release then frees the next one's lock, ...).
SingleFlight ==
    \A p, q \in Procs : p # q /\ Refreshing(p) /\ Refreshing(q) => disturbed

\* Every request is answered (or dies), whoever holds the lock and however it ends.
EveryReadEnds == \A r \in Readers : pc[r] # "idle" ~> pc[r] = "idle"

\* The lock of a dead refresher does not stay.
LockComesFree == []<>(lock = None)

\* When the writing stops the cache ends up with what was written last, whatever
\* races, lost invalidations and failures there were.
EventuallyCurrent == <>[](value # None => value.ver = version)
=============================================================================
