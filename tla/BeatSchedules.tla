--------------------------- MODULE BeatSchedules ---------------------------
(***************************************************************************)
(* The API of the periodic tasks: celery_core/beat/router.py over its      *)
(* services, crud, validators and schemas, on the tables of                *)
(* sqlalchemy_celery_beat.                                                 *)
(*                                                                         *)
(* The endpoints are plain functions that FastAPI runs in threads, each    *)
(* with its own session: every query and every commit is a step.  A task   *)
(* points to its schedule by two columns, the table (discriminator) and    *)
(* the id (schedule_id), without a foreign key.  What the library does     *)
(* with the tasks of a schedule that is deleted is not in this repository: *)
(* Removals has what it may do.                                            *)
(***************************************************************************)
EXTENDS Naturals

CONSTANTS
    Handlers,       \* bound: requests running at a time
    MaxSchedules,   \* bound: ids given in each table of schedules
    Tasks, Names,   \* ids and names of periodic tasks
    Times,          \* what a schedule is made of, besides its time zone
    Zone,           \* settings.time_zone, the default of the schema
    TableZone,      \* the default of the library's column
    Removals,       \* what the library may do, see Remove
    Given,          \* bound: the tables at the start
    Specs, Bodies,  \* bound: the schedules and the tasks that are sent
    MaxRequests,    \* bound: requests in all
    None            \* a field that is not given, an absent row

Kinds == {"clockedschedule", "crontabschedule", "intervalschedule"}
Ids   == 1..MaxSchedules
Zones == {Zone, TableZone}

Optional(S) == {None} \cup S

\* Only a crontab schedule has a time zone; args and kwargs: whether there are any.
Pointer  == Kinds \X Ids
Schedule == [time : Times, zone : Optional(Zones)]
Wanted   == [kind : Kinds, time : Times, zone : Optional(Zones)]
Task     == [name : Names, discriminator : Kinds, schedule_id : Ids, enabled : BOOLEAN,
             one_off : BOOLEAN, args : BOOLEAN, kwargs : BOOLEAN]
Body     == [name : Optional(Names), discriminator : Optional(Kinds), schedule_id : Optional(Ids),
             enabled : Optional(BOOLEAN), one_off : Optional(BOOLEAN), args : Optional(BOOLEAN),
             kwargs : Optional(BOOLEAN)]
Request  == [op : {"add", "remove", "create", "update", "delete"}, spec : Optional(Wanted),
             at : Optional(Pointer), task : Optional(Tasks), body : Optional(Body)]
Places   == {"idle", "find", "insert", "stored", "look", "remove", "name", "load", "link", "commit",
             "refresh", "respond", "get", "delete"}

\* Of a task, or of a body.
PointerOf(t) == <<t.discriminator, t.schedule_id>>

ASSUME BeatAssumption ==
    /\ MaxSchedules \in Nat /\ MaxRequests \in Nat
    /\ Removals # {} /\ Removals \subseteq {"orphans", "cascade", "refused"}
    /\ Specs \subseteq Wanted /\ Bodies \subseteq Body
    /\ None \notin Tasks \cup Names \cup Zones /\ None \notin BOOLEAN
    /\ None \notin Kinds /\ None \notin Ids /\ None \notin Schedule /\ None \notin Task

\* Tables as requests one after the other leave them.
ASSUME GivenAssumption ==
    \A g \in Given :
        /\ g.schedules \in [Pointer -> Optional(Schedule)]
        /\ g.used \in [Kinds -> 0..MaxSchedules]
        /\ g.tasks \in [Tasks -> Optional(Task)]
        /\ \A p \in Pointer : g.schedules[p] # None => p[2] <= g.used[p[1]]
        /\ \A p, q \in Pointer :
              p # q /\ p[1] = q[1] /\ g.schedules[p] # None => g.schedules[p] # g.schedules[q]
        /\ \A t \in Tasks : g.tasks[t] # None => g.schedules[PointerOf(g.tasks[t])] # None

VARIABLES
    schedules,  \* the three tables: by pointer, a schedule or None
    used,       \* the ids each table has given
    tasks,      \* the table of periodic tasks
    pc, req,    \* each handler: where it is, and the request it serves
    loaded,     \* the task a request holds, as last read
    made,       \* the schedule a request has stored
    overtaken,  \* history: see Insert, Remove and RefreshTask
    relinked,   \* history: see Commit
    loose,      \* history: schedules added by overtaken requests
    astray,     \* history: tasks whose schedule was removed under them or while it was
                \* being linked, or that two requests were linking at a time
    deleted,    \* history: tasks that were deleted
    answer,     \* the answer the last step gave, or None
    requests    \* requests begun

tables == <<schedules, used, tasks>>
held == <<req, loaded, made>>
history == <<loose, astray, deleted, relinked>>
vars == <<tables, pc, held, overtaken, history, answer, requests>>

Init ==
    /\ \E g \in Given : schedules = g.schedules /\ used = g.used /\ tasks = g.tasks
    /\ pc = [h \in Handlers |-> "idle"] /\ req = [h \in Handlers |-> None]
    /\ loaded = [h \in Handlers |-> None] /\ made = [h \in Handlers |-> None]
    /\ overtaken = [h \in Handlers |-> FALSE] /\ relinked = [h \in Handlers |-> FALSE]
    /\ loose = {} /\ astray = {} /\ deleted = {} /\ answer = None /\ requests = 0

Is(h, place)  == pc[h] = place
Goto(h, place) == pc' = [pc EXCEPT ![h] = place]
At(p)         == {t \in Tasks : tasks[t] # None /\ PointerOf(tasks[t]) = p}

\* get_beat_session turns every error, an HTTPException among them, into a 500:
\* answers differ in being errors, and in what they leave behind.
Reply(h, error, wrote) ==
    /\ Goto(h, "idle")
    /\ answer' = [error |-> error, wrote |-> wrote, task |-> req[h].task, overtaken |-> overtaken[h]]
GoOn(h, place) == Goto(h, place) /\ answer' = None

(***************************************************************************)
(* Requests as the schemas let them through.                               *)
(***************************************************************************)
Empty(op) == [op |-> op, spec |-> None, at |-> None, task |-> None, body |-> None]
First(op) == CASE op = "add" -> "find" [] op = "remove" -> "look" [] op = "create" -> "name"
               [] op = "update" -> "load" [] op = "delete" -> "get"

\* validate_clocked_one_off, which an update inherits, and validate_schedule_pair: both
\* look at the body alone.
Valid(body) ==
    /\ body.discriminator = "clockedschedule" => body.one_off = TRUE
    /\ ~(body.args = TRUE /\ body.kwargs = TRUE)
    /\ (body.schedule_id = None) = (body.discriminator = None)

Full(body) ==
    \A f \in {"name", "discriminator", "schedule_id", "enabled", "one_off", "args", "kwargs"} :
        body[f] # None

AddSchedule(s)    == [Empty("add") EXCEPT !.spec = s]
RemoveSchedule(p) == [Empty("remove") EXCEPT !.at = p]
WriteTask(op, t, body) == [Empty(op) EXCEPT !.task = t, !.body = body]
RemoveTask(t)     == [Empty("delete") EXCEPT !.task = t]

Sent == {AddSchedule(s) : s \in Specs} \cup {RemoveSchedule(p) : p \in Pointer}
        \cup {WriteTask("create", t, b) : t \in Tasks, b \in {c \in Bodies : Valid(c) /\ Full(c)}}
        \cup {WriteTask("update", t, b) : t \in Tasks, b \in {c \in Bodies : Valid(c)}}
        \cup {RemoveTask(t) : t \in Tasks}

\* The id of a task that is created is new, and drawn here.
Fresh(t) == tasks[t] = None /\ t \notin deleted
            /\ \A h \in Handlers : ~Is(h, "idle") => req[h].task # t

Begin(h) ==
    /\ Is(h, "idle") /\ requests < MaxRequests
    /\ \E r \in Sent :
          /\ r.op = "create" => Fresh(r.task)
          /\ req' = [req EXCEPT ![h] = r]
          /\ GoOn(h, First(r.op))
    /\ loaded' = [loaded EXCEPT ![h] = None] /\ made' = [made EXCEPT ![h] = None]
    /\ overtaken' = [overtaken EXCEPT ![h] = FALSE]
    /\ relinked' = [relinked EXCEPT ![h] = FALSE]
    /\ requests' = requests + 1
    /\ UNCHANGED <<tables, loose, astray, deleted>>

-----------------------------------------------------------------------------
(* Schedules: create_..._schedule and remove_schedule.                     *)

\* The mistake of creating without looking.
SameNone(p, s) == FALSE

\* get_by_attributes(**data.model_dump()), which fills in the schema's defaults.
Same(p, s) ==
    /\ schedules[p] # None /\ schedules[p].time = s.time
    /\ schedules[p].zone = IF s.kind = "crontabschedule" /\ s.zone = None THEN Zone ELSE s.zone

Find(h) ==
    /\ Is(h, "find")
    /\ LET s == req[h].spec IN
       \/ (\E p \in {s.kind} \X Ids : Same(p, s)) /\ Reply(h, FALSE, FALSE)
       \/ ~(\E p \in {s.kind} \X Ids : Same(p, s)) /\ GoOn(h, "insert")
    /\ UNCHANGED <<tables, held, overtaken, history, requests>>

\* crud.create: model_dump(exclude_unset=True), which leaves the defaults to the table.
Stored(s) == [time |-> s.time,
              zone |-> IF s.kind = "crontabschedule" /\ s.zone = None THEN TableZone ELSE s.zone]

\* The commit of crud.create.  What it is overtaken by until then is another insert; from
\* then on, the removal of its row.
Insert(h) ==
    LET s == req[h].spec
        p == <<s.kind, used[s.kind] + 1>>
    IN  /\ Is(h, "insert") /\ used[s.kind] < MaxSchedules
        /\ schedules' = [schedules EXCEPT ![p] = Stored(s)]
        /\ used' = [used EXCEPT ![s.kind] = @ + 1]
        /\ loose' = IF overtaken[h] THEN loose \cup {p} ELSE loose
        /\ overtaken' = [g \in Handlers |-> g # h /\ (overtaken[g] \/ Is(g, "insert"))]
        /\ made' = [made EXCEPT ![h] = p]
        /\ GoOn(h, "stored")
        /\ UNCHANGED <<tasks, req, loaded, astray, deleted, relinked, requests>>

\* The refresh of crud.create, which raises when the row has gone.
RefreshSchedule(h) ==
    /\ Is(h, "stored")
    /\ Reply(h, schedules[made[h]] = None, TRUE)
    /\ UNCHANGED <<tables, held, overtaken, history, requests>>

Look(h) ==
    /\ Is(h, "look")
    /\ IF schedules[req[h].at] = None THEN Reply(h, TRUE, FALSE) ELSE GoOn(h, "remove")
    /\ UNCHANGED <<tables, held, overtaken, history, requests>>

\* The requests that go on with the schedule p: it was found for a task, or stored, or
\* read in the refreshed task.
Uses(g, p) ==
    \/ Is(g, "commit") /\ PointerOf(req[g].body) = p
    \/ Is(g, "stored") /\ made[g] = p
    \/ Is(g, "respond") /\ PointerOf(loaded[g]) = p

\* session.delete and commit: the tasks of the schedule stay behind, are deleted with
\* it, or make the database refuse.
Remove(h) ==
    LET p == req[h].at IN
    /\ Is(h, "remove")
    /\ \E how \in Removals :
       IF how = "refused" /\ At(p) # {}
       THEN /\ Reply(h, TRUE, FALSE)
            /\ UNCHANGED <<tables, history, overtaken>>
       ELSE /\ schedules' = [schedules EXCEPT ![p] = None]
            /\ tasks' = IF how = "cascade" THEN [t \in Tasks |-> IF t \in At(p) THEN None ELSE tasks[t]]
                                           ELSE tasks
            /\ astray' = IF how = "orphans" THEN astray \cup At(p) ELSE astray
            /\ deleted' = IF how = "cascade" THEN deleted \cup At(p) ELSE deleted
            /\ overtaken' = [g \in Handlers |-> overtaken[g] \/ Uses(g, p)]
            /\ Reply(h, FALSE, TRUE)
            /\ UNCHANGED <<used, loose, relinked>>
    /\ UNCHANGED <<held, requests>>

-----------------------------------------------------------------------------
(* Tasks: create_task, update_task (enable_task and disable_task are       *)
(* updates of one field) and remove_task.                                  *)

NameTaken(name, except) == \E t \in Tasks \ {except} : tasks[t] # None /\ tasks[t].name = name

\* check_task_exists_by_name.
CheckName(h) ==
    /\ Is(h, "name")
    /\ IF NameTaken(req[h].body.name, None) THEN Reply(h, TRUE, FALSE) ELSE GoOn(h, "link")
    /\ UNCHANGED <<tables, held, overtaken, history, requests>>

\* get_task_by_id.
Load(h) ==
    /\ Is(h, "load")
    /\ IF tasks[req[h].task] = None THEN Reply(h, TRUE, FALSE)
       ELSE GoOn(h, IF req[h].body.schedule_id = None THEN "commit" ELSE "link")
    /\ loaded' = [loaded EXCEPT ![h] = tasks[req[h].task]]
    /\ UNCHANGED <<tables, req, made, overtaken, history, requests>>

\* The mistake of linking a task without looking at the schedule.
LinkBlindly(h) ==
    /\ Is(h, "link") /\ GoOn(h, "commit")
    /\ UNCHANGED <<tables, held, overtaken, history, requests>>

\* get_schedule.
Link(h) ==
    /\ Is(h, "link")
    /\ IF schedules[PointerOf(req[h].body)] = None THEN Reply(h, TRUE, FALSE) ELSE GoOn(h, "commit")
    /\ UNCHANGED <<tables, held, overtaken, history, requests>>

\* The mistake of an update that writes the whole task as it was loaded.
UpdatedWhole(h) ==
    [f \in DOMAIN loaded[h] |-> IF req[h].body[f] = None THEN loaded[h][f] ELSE req[h].body[f]]

\* The mistake of an update that sets the fields the body does not have.
UpdatedUnset(h) == [f \in DOMAIN loaded[h] |-> req[h].body[f]]

\* The mistake of an update that leaves the table as it was loaded.
UpdatedNumber(h) ==
    LET now == tasks[req[h].task] IN
    [f \in DOMAIN now |-> IF f = "discriminator" \/ req[h].body[f] \in {None, loaded[h][f]} THEN now[f]
                          ELSE req[h].body[f]]

\* The UPDATE sets the columns in which the body differs from the loaded task, each by
\* itself: assigning schedule_model sets schedule_id and discriminator.
Updated(h) ==
    LET now == tasks[req[h].task] IN
    [f \in DOMAIN now |-> IF req[h].body[f] \in {None, loaded[h][f]} THEN now[f] ELSE req[h].body[f]]

NewTask(h) == IF req[h].op = "create" THEN req[h].body ELSE Updated(h)

Gone(h) == req[h].op = "update" /\ tasks[req[h].task] = None

\* The row is gone (StaleDataError, or the refresh fails), or the name is not unique.
CommitFails(h) ==
    /\ Is(h, "commit")
    /\ Gone(h) \/ (~Gone(h) /\ NameTaken(NewTask(h).name, req[h].task))
    /\ Reply(h, TRUE, FALSE)
    /\ UNCHANGED <<tables, held, overtaken, history, requests>>

\* Whoever has loaded the task keeps the old pointer: its update is relinked.  A task
\* that was linked by one request at a time, to a schedule that is still there, is not astray.
Commit(h) ==
    LET t     == req[h].task
        new   == NewTask(h)
        moves == req[h].op = "create" \/ PointerOf(new) # PointerOf(tasks[t])
    IN  /\ Is(h, "commit")
        /\ ~Gone(h)
        /\ ~NameTaken(new.name, t)
        /\ tasks' = [tasks EXCEPT ![t] = new]
        /\ relinked' = [g \in Handlers |->
              relinked[g] \/ (g # h /\ pc[g] \in {"link", "commit"} /\ req[g].task = t /\ moves)]
        /\ astray' = IF req[h].body.schedule_id = None THEN astray
                     ELSE IF overtaken[h] \/ relinked[h] THEN astray \cup {t} ELSE astray \ {t}
        /\ GoOn(h, "refresh")
        /\ UNCHANGED <<schedules, used, held, overtaken, loose, deleted, requests>>

\* session.refresh after the commit, which raises when the row has gone.
RefreshTask(h) ==
    LET t == req[h].task IN
    /\ Is(h, "refresh")
    /\ IF tasks[t] = None THEN Reply(h, TRUE, TRUE) ELSE GoOn(h, "respond")
    /\ loaded' = [loaded EXCEPT ![h] = tasks[t]]
    /\ overtaken' = [overtaken EXCEPT ![h] = t \in astray]
    /\ UNCHANGED <<tables, req, made, history, requests>>

\* build_task_schedule_response: get_schedule, with the pointer as it was refreshed.
Respond(h) ==
    /\ Is(h, "respond")
    /\ Reply(h, schedules[PointerOf(loaded[h])] = None, TRUE)
    /\ UNCHANGED <<tables, held, overtaken, history, requests>>

GetTask(h) ==
    /\ Is(h, "get")
    /\ IF tasks[req[h].task] = None THEN Reply(h, TRUE, FALSE) ELSE GoOn(h, "delete")
    /\ UNCHANGED <<tables, held, overtaken, history, requests>>

Delete(h) ==
    /\ Is(h, "delete")
    /\ tasks' = [tasks EXCEPT ![req[h].task] = None]
    /\ deleted' = deleted \cup {req[h].task}
    /\ Reply(h, FALSE, TRUE)
    /\ UNCHANGED <<schedules, used, held, overtaken, loose, astray, relinked, requests>>

Next == \E h \in Handlers :
    \/ Begin(h) \/ Find(h) \/ Insert(h) \/ RefreshSchedule(h) \/ Look(h) \/ Remove(h)
    \/ CheckName(h) \/ Load(h) \/ Link(h) \/ CommitFails(h) \/ Commit(h)
    \/ RefreshTask(h) \/ Respond(h) \/ GetTask(h) \/ Delete(h)

Spec == Init /\ [][Next]_vars

-----------------------------------------------------------------------------
TypeOK ==
    /\ schedules \in [Pointer -> Optional(Schedule)]
    /\ used \in [Kinds -> 0..MaxSchedules]
    /\ tasks \in [Tasks -> Optional(Task)]
    /\ pc \in [Handlers -> Places]
    /\ req \in [Handlers -> Optional(Request)]
    /\ loaded \in [Handlers -> Optional(Task)] /\ made \in [Handlers -> Optional(Pointer)]
    /\ overtaken \in [Handlers -> BOOLEAN] /\ relinked \in [Handlers -> BOOLEAN]
    /\ loose \subseteq Pointer /\ astray \subseteq Tasks /\ deleted \subseteq Tasks
    /\ answer \in Optional([error : BOOLEAN, wrote : BOOLEAN, task : Optional(Tasks), overtaken : BOOLEAN])
    /\ requests \in 0..MaxRequests

\* create_interval_schedule and its like: the same schedule is stored twice only if
\* two requests raced, or if it is a crontab schedule in the zone of the table, which
\* the schema's default did not find.
SchedulesOnce ==
    \A p, q \in Pointer :
        p # q /\ p[1] = q[1] /\ schedules[p] # None /\ schedules[p] = schedules[q] =>
            \/ p \in loose \/ q \in loose
            \/ p[1] = "crontabschedule" /\ schedules[p].zone = TableZone /\ TableZone # Zone

\* crud.create, build_task_schedule_response: a request that answers with an error has
\* changed nothing, unless its task was deleted, or the schedule it goes on with was
\* removed under it, or it found its task without one: one that was removed under the
\* task, or a pair of columns of two requests that linked the task at a time.
ErrorsChangeNothing ==
    answer # None /\ answer.error /\ answer.wrote => answer.overtaken \/ answer.task \in deleted

\* CRUDTask.update: a column of a task changes only by a request that asks for it,
\* whatever it overlaps with: a disabled task stays disabled until it is enabled.
OnlyAskedChanges ==
    [][\A t \in Tasks : tasks[t] # None /\ tasks'[t] # None =>
        \A f \in DOMAIN tasks[t] : tasks'[t][f] # tasks[t][f] =>
            \E h \in Handlers : /\ Is(h, "commit") /\ pc'[h] = "refresh"
                                /\ req[h].task = t /\ req[h].body[f] = tasks'[t][f]]_vars

\* TaskService.update_task: a task comes to another schedule only by a request for this
\* very schedule, table and id, unless another request has linked the task anew since
\* it was loaded: the two columns may then be of two requests, and lead nowhere.
PointersAsked ==
    [][\A t \in Tasks :
        tasks[t] # None /\ tasks'[t] # None /\ PointerOf(tasks'[t]) # PointerOf(tasks[t]) =>
            \E h \in Handlers : /\ Is(h, "commit") /\ pc'[h] = "refresh" /\ req[h].task = t
                                /\ (PointerOf(req[h].body) = PointerOf(tasks'[t]) \/ relinked[h])]_vars
=============================================================================
